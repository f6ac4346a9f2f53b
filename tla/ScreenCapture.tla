---------------------------- MODULE ScreenCapture ---------------------------
(***************************************************************************)
(* The life of CScreenBitmap: capturing is started when the first client   *)
(* connects, stopped when the last one goes, and started again.  The UI    *)
(* thread starts and stops it and handles its window's messages; every     *)
(* StartCapture begins a thread that runs CaptureDesktop for each WM_TIMER *)
(* posted to it and that never ends, because WM_CLOSE does not end its     *)
(* loop.  ScreenSync takes the picture from there up to the first stop.    *)
(*                                                                         *)
(* Screen buffers are addresses in a heap, so that one can be freed twice, *)
(* used after it was freed, handed out again, or never freed.              *)
(***************************************************************************)
EXTENDS Naturals, FiniteSets

CONSTANTS
    Thread,      \* bound: the capture threads that are ever started
    Address,     \* bound: addresses a screen buffer can have
    MaxClients,  \* bound: clients connected at a time
    MaxTimers,   \* bound: WM_TIMER messages in a thread's queue
    Null

ASSUME ScreenCaptureAssumption ==
    /\ MaxClients \in Nat \ {0} /\ MaxTimers \in Nat \ {0}
    /\ Null \notin Thread \cup Address

VARIABLES
    clients,      \* how many clients are connected
    ui,           \* the UI thread: "free", in StopCapture, or "gone"
    m_uThreadId,  \* Null, or the thread that OnTimer posts to
    m_hWnd,       \* the window exists (and m_pScreenBitmapEvent is its listener)
    m_rcScreen,   \* the rectangle is that of the screen, not empty
    m_pBuffer,
    started,      \* threads that have been started
    queue,        \* WM_TIMER messages in each thread's queue
    thread,       \* each thread in CaptureDesktop: program counter and locals
    heap,         \* the buffers allocated: of each, whether the desktop was copied into it
    \* history
    fault,        \* a buffer was freed or read that was not allocated
    overlapped    \* a thread was in CaptureDesktop while another was, or in StopCapture

uiVars == <<clients, ui, m_uThreadId, m_hWnd, m_rcScreen>>
vars == <<uiVars, m_pBuffer, started, queue, thread, heap, fault, overlapped>>

Idle == [pc |-> "idle", last |-> Null, new |-> Null]

Init ==
    /\ clients = 0 /\ ui = "free" /\ m_uThreadId = Null /\ m_hWnd = FALSE
    /\ m_rcScreen = TRUE /\ m_pBuffer = Null
    /\ started = {} /\ queue = [t \in Thread |-> 0] /\ thread = [t \in Thread |-> Idle]
    /\ heap = <<>>
    /\ fault = FALSE /\ overlapped = FALSE

Allocated == DOMAIN heap
Capturing(t) == thread[t].pc # "idle"

\* The program runs.  What it does after a fault is undefined and not modelled.
Up == ui # "gone" /\ ~fault

\* delete[] of buffer a.  Of one that is not allocated it corrupts the heap.
Freed(a) == [x \in Allocated \ {a} |-> heap[x]]

-----------------------------------------------------------------------------
(* The UI thread.                                                          *)

\* CMainWindow::OnConnect with StartCapture: a window, its timer and a new thread,
\* unless capturing is under way.
OnConnect ==
    /\ Up /\ ui = "free" /\ clients < MaxClients
    /\ clients' = clients + 1
    /\ IF m_uThreadId # Null
       THEN UNCHANGED <<m_uThreadId, m_hWnd, started>>
       ELSE \E t \in Thread \ started :
              m_uThreadId' = t /\ m_hWnd' = TRUE /\ started' = started \cup {t}
    /\ UNCHANGED <<ui, m_rcScreen, m_pBuffer, queue, thread, heap,
                   fault, overlapped>>

\* Faulty: capturing stays on.
StopCaptureKeepsThread ==
    /\ m_hWnd' = FALSE /\ UNCHANGED m_uThreadId
    /\ thread' = [t \in Thread |-> IF thread[t].pc = "first" THEN Idle ELSE thread[t]]

\* StopCapture up to DestroyWindow, which discards the posted messages and lets a
\* SendMessage return.  Other threads go on meanwhile.
StopCaptureBegins ==
    /\ m_uThreadId' = Null /\ m_hWnd' = FALSE
    /\ thread' = [t \in Thread |-> IF thread[t].pc = "first" THEN Idle ELSE thread[t]]

\* CMainWindow::OnDisconnect: the last client has gone, capturing is to stop.
OnDisconnect ==
    /\ Up /\ ui = "free" /\ clients > 0
    /\ clients' = clients - 1
    /\ IF clients = 1 /\ m_uThreadId # Null
       THEN StopCaptureBegins /\ ui' = "stop"
       ELSE UNCHANGED <<ui, m_uThreadId, m_hWnd, thread>>
    /\ UNCHANGED <<m_rcScreen, m_pBuffer, started, queue, heap, fault, overlapped>>

\* CMainWindow::OnDestroy: the server is stopped and capturing too, if it is on.
OnDestroy ==
    /\ Up /\ ui = "free"
    /\ clients' = 0 /\ ui' = "last stop"
    /\ IF m_uThreadId # Null THEN StopCaptureBegins
       ELSE UNCHANGED <<m_uThreadId, m_hWnd, thread>>
    /\ UNCHANGED <<m_rcScreen, m_pBuffer, started, queue, heap, fault, overlapped>>

\* Faulty: the pointer to the buffer stays.
FreeBufferOnly ==
    /\ Up /\ ui \in {"stop", "last stop"}
    /\ IF m_pBuffer = Null THEN UNCHANGED <<heap, fault>>
       ELSE heap' = Freed(m_pBuffer) /\ fault' = (m_pBuffer \notin Allocated)
    /\ m_rcScreen' = FALSE
    /\ ui' = IF ui = "stop" THEN "free" ELSE "gone"
    /\ overlapped' = (overlapped \/ \E t \in Thread : Capturing(t))
    /\ UNCHANGED <<clients, m_uThreadId, m_hWnd, m_pBuffer, started, queue, thread>>

\* The rest of StopCapture: the buffer is freed under m_lock; the rectangle becomes
\* empty and is never set again.  After OnDestroy the program ends.
FreeBuffer ==
    /\ Up /\ ui \in {"stop", "last stop"}
    /\ IF m_pBuffer = Null THEN UNCHANGED <<heap, fault>>
       ELSE heap' = Freed(m_pBuffer) /\ fault' = (m_pBuffer \notin Allocated)
    /\ m_pBuffer' = Null /\ m_rcScreen' = FALSE
    /\ ui' = IF ui = "stop" THEN "free" ELSE "gone"
    /\ overlapped' = (overlapped \/ \E t \in Thread : Capturing(t))
    /\ UNCHANGED <<clients, m_uThreadId, m_hWnd, started, queue, thread>>

\* Faulty: the timer goes to every thread there has been.
OnTimerToAll ==
    /\ Up /\ ui = "free" /\ m_hWnd /\ m_uThreadId # Null
    /\ \E t \in started : queue[t] < MaxTimers /\ queue' = [queue EXCEPT ![t] = @ + 1]
    /\ UNCHANGED <<uiVars, m_pBuffer, started, thread, heap, fault, overlapped>>

\* OnTimer, every CAPTURE_DESKTOP_FRAME ms: whether or not the thread is done with
\* the last one.
OnTimer ==
    /\ Up /\ ui = "free" /\ m_hWnd /\ m_uThreadId # Null
    /\ queue[m_uThreadId] < MaxTimers
    /\ queue' = [queue EXCEPT ![m_uThreadId] = @ + 1]
    /\ UNCHANGED <<uiVars, m_pBuffer, started, thread, heap, fault, overlapped>>

\* OnFirstBitmap: the listener reads m_pBuffer while thread t waits in SendMessage.
OnFirstBitmap(t) ==
    /\ Up /\ ui = "free" /\ thread[t].pc = "first"
    /\ thread' = [thread EXCEPT ![t] = Idle]
    /\ fault' = (m_pBuffer \notin Allocated)
    /\ UNCHANGED <<uiVars, m_pBuffer, started, queue, heap, overlapped>>

-----------------------------------------------------------------------------
(* The capture threads: DoStartCapture takes a WM_TIMER and runs           *)
(* CaptureDesktop.  What it does with m_lock held is one step.             *)

Running(t, pc) == Up /\ thread[t].pc = pc

\* pLastBuffer = m_pBuffer.
CaptureDesktop(t) ==
    /\ Running(t, "idle") /\ queue[t] > 0
    /\ queue' = [queue EXCEPT ![t] = @ - 1]
    /\ thread' = [thread EXCEPT ![t] = [Idle EXCEPT !.pc = "copy", !.last = m_pBuffer]]
    /\ overlapped' = (overlapped \/ \E u \in Thread : Capturing(u))
    /\ UNCHANGED <<uiVars, m_pBuffer, started, heap, fault>>

\* Where new[] may put a buffer: at an address that was freed but that some thread
\* still holds, or at one that nobody knows.  The latter are all alike, so one will do.
Held == {thread[t].last : t \in Thread} \cup {thread[t].new : t \in Thread} \cup {m_pBuffer}
Unknown == Address \ (Allocated \cup Held)
Available == (Held \ (Allocated \cup {Null})) \cup
             (IF Unknown = {} THEN {} ELSE {CHOOSE a \in Unknown : TRUE})

\* The screen is copied into a new buffer.  CreateCompatibleBitmap and BitBlt of an
\* empty rectangle copy nothing.  GetDIBits is taken to succeed: when it fails
\* (ScreenBitmap.cpp:194), pNewBuffer stays NULL and is used all the same.
CopyScreen(t) ==
    /\ Running(t, "copy")
    /\ \E a \in Available :
        /\ heap' = [x \in Allocated \cup {a} |-> IF x = a THEN m_rcScreen ELSE heap[x]]
        /\ thread' = [thread EXCEPT ![t] = [@ EXCEPT !.pc = "check", !.new = a]]
    /\ UNCHANGED <<uiVars, m_pBuffer, started, queue, fault, overlapped>>

\* if (m_hWnd && pLastBuffer) ... else if (m_hWnd) ...  With no window the new buffer
\* is leaked: nothing points to it any more, and it leaves the model's heap.
CheckWindow(t) ==
    /\ Running(t, "check")
    /\ IF m_hWnd
       THEN /\ thread' = [thread EXCEPT ![t].pc = IF thread[t].last # Null THEN "compare" ELSE "store"]
            /\ UNCHANGED heap
       ELSE thread' = [thread EXCEPT ![t] = Idle] /\ heap' = Freed(thread[t].new)
    /\ UNCHANGED <<uiVars, m_pBuffer, started, queue, fault, overlapped>>

\* GetModifiedBlocks reads both buffers without m_lock.
Compare(t) ==
    /\ Running(t, "compare")
    /\ thread' = [thread EXCEPT ![t].pc = "swap"]
    /\ fault' = ~({thread[t].last, thread[t].new} \subseteq Allocated)
    /\ UNCHANGED <<uiVars, m_pBuffer, started, queue, heap, overlapped>>

\* Faulty: the last capture is not freed.
SwapOnly(t) ==
    /\ Running(t, "swap")
    /\ m_pBuffer' = thread[t].new
    /\ thread' = [thread EXCEPT ![t] = Idle]
    /\ UNCHANGED <<uiVars, started, queue, heap, fault, overlapped>>

\* Under m_lock: the last capture is freed, the new one takes its place.
Swap(t) ==
    /\ Running(t, "swap")
    /\ heap' = Freed(thread[t].last)
    /\ fault' = (thread[t].last \notin Allocated)
    /\ m_pBuffer' = thread[t].new
    /\ thread' = [thread EXCEPT ![t] = Idle]
    /\ UNCHANGED <<uiVars, started, queue, overlapped>>

\* The first capture: no last one to free.  SendMessage waits for the UI thread, but
\* returns at once when the window has gone.
Store(t) ==
    /\ Running(t, "store")
    /\ m_pBuffer' = thread[t].new
    /\ thread' = [thread EXCEPT ![t] = IF m_hWnd THEN [Idle EXCEPT !.pc = "first"] ELSE Idle]
    /\ UNCHANGED <<uiVars, started, queue, heap, fault, overlapped>>

ThreadStep(t) ==
    CaptureDesktop(t) \/ CopyScreen(t) \/ CheckWindow(t) \/ Compare(t) \/ Swap(t)
        \/ Store(t)

Handler == FreeBuffer \/ \E t \in Thread : OnFirstBitmap(t)

-----------------------------------------------------------------------------
Next ==
    \/ OnConnect \/ OnDisconnect \/ OnDestroy \/ OnTimer \/ Handler
    \/ \E t \in Thread : ThreadStep(t)

\* The UI thread handles the messages of its window and ends what it began; Windows
\* schedules every thread.  Clients, the timer and the user need not act.
Fairness ==
    /\ WF_vars(FreeBuffer)
    /\ \A t \in Thread : WF_vars(OnFirstBitmap(t)) /\ WF_vars(ThreadStep(t))

Spec == Init /\ [][Next]_vars /\ Fairness

-----------------------------------------------------------------------------
Pc == {"idle", "copy", "check", "compare", "swap", "store", "first"}

\* Types; there is a window exactly while capturing is on, and it is on for every
\* client; CaptureDesktop has a new buffer (GetDIBits succeeds), and a last one, where
\* it uses them.
TypeOK ==
    /\ clients \in 0..MaxClients /\ ui \in {"free", "stop", "last stop", "gone"}
    /\ m_uThreadId \in started \cup {Null} /\ started \subseteq Thread
    /\ m_hWnd = (m_uThreadId # Null) /\ m_rcScreen \in BOOLEAN
    /\ clients > 0 => m_hWnd
    /\ m_pBuffer \in Address \cup {Null}
    /\ queue \in [Thread -> 0..MaxTimers]
    /\ thread \in [Thread -> [pc : Pc, last : Address \cup {Null}, new : Address \cup {Null}]]
    /\ \A t \in Thread :
        /\ thread[t].pc \in {"check", "compare", "swap", "store"} => thread[t].new # Null
        /\ thread[t].pc \in {"compare", "swap"} => thread[t].last # Null
    /\ Allocated \subseteq Address /\ \A a \in Allocated : heap[a] \in BOOLEAN
    /\ fault \in BOOLEAN /\ overlapped \in BOOLEAN

\* A screen buffer is freed twice or used after it was freed only if two threads
\* were in CaptureDesktop at a time, or one was while StopCapture freed the buffer:
\* CaptureDesktop (m_pBuffer read without m_lock at its start, freed under m_lock at
\* its end), StopCapture and OnFirstBitmap agree on who owns the buffer in every
\* other order, over any number of stops and starts.
FaultsNeedOverlap ==
    ~overlapped => ~fault /\ m_pBuffer \in Allocated \cup {Null}

\* CaptureDesktop and StopCapture free every buffer that is not in use, but for the
\* capture for which there was no window any more (CheckWindow).
NothingElseLeaks ==
    ~overlapped =>
        Allocated = ({m_pBuffer} \cup {thread[t].new : t \in Thread}) \ {Null}

\* The thread of a capture that was stopped never ends (WM_CLOSE does not leave the
\* loop of DoStartCapture), but it works off the WM_TIMER messages it has left and
\* then does nothing for ever, also when capturing is started again meanwhile.
LeftoversDrain ==
    \A t \in Thread :
        (t \in started /\ t # m_uThreadId) ~>
            [](~Up \/ (queue[t] = 0 /\ ~Capturing(t)))

\* Capturing is started for a client that connects when it is not on (OnConnect): what
\* is then captured, and sent, is the desktop.
CapturesDesktop ==
    m_uThreadId # Null /\ m_pBuffer \in Allocated => heap[m_pBuffer]
=============================================================================
