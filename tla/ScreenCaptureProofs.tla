------------------------- MODULE ScreenCaptureProofs ------------------------
(***************************************************************************)
(* Proofs about the capture of the screen.                                 *)
(*                                                                         *)
(* First ScreenCapture: its types, and that its screen buffers are freed   *)
(* exactly once as long as no two threads overlap.  FaultsNeedOverlap and  *)
(* NothingElseLeaks say where the buffers are, not who may free them, and  *)
(* are not inductive.  Owners adds that: as long as nothing overlapped one *)
(* thread at most is in CaptureDesktop, what it read from m_pBuffer at its *)
(* start is still there, and the new buffer is its own.                    *)
(*                                                                         *)
(* Then Picture and BlockList, as MCCapture puts them to use: for a screen *)
(* of any size the blocks that CaptureDesktop reports, clipped and set by  *)
(* the viewer, restore the picture.                                        *)
(***************************************************************************)
EXTENDS MCCapture, BlockListProofs

-----------------------------------------------------------------------------
(* Types.  TypeOK is taken apart into what the UI thread, the message      *)
(* queues, the threads and the heap have to do with it.                    *)

\* What the UI thread keeps.
UiOK ==
    /\ clients \in 0..MaxClients /\ ui \in {"free", "stop", "last stop", "gone"}
    /\ m_uThreadId \in started \cup {Null} /\ started \subseteq Thread
    /\ m_hWnd = (m_uThreadId # Null) /\ m_rcScreen \in BOOLEAN
    /\ clients > 0 => m_hWnd

\* A thread in CaptureDesktop: its program counter and its locals.
ThreadOK(r) ==
    /\ r \in [pc : Pc, last : Address \cup {Null}, new : Address \cup {Null}]
    /\ r.pc \in {"check", "compare", "swap", "store"} => r.new # Null
    /\ r.pc \in {"compare", "swap"} => r.last # Null

ThreadsOK == thread = [t \in Thread |-> thread[t]] /\ \A t \in Thread : ThreadOK(thread[t])

\* The buffers.
HeapOK == Allocated \subseteq Address /\ \A a \in Allocated : heap[a] \in BOOLEAN

\* The parts make up the type invariant.
LEMMA TypeParts ==
    TypeOK <=> /\ UiOK /\ ThreadsOK /\ HeapOK
               /\ m_pBuffer \in Address \cup {Null}
               /\ queue \in [Thread -> 0..MaxTimers]
               /\ fault \in BOOLEAN /\ overlapped \in BOOLEAN
<1>1. ThreadsOK <=> /\ thread \in [Thread -> [pc : Pc, last : Address \cup {Null}, new : Address \cup {Null}]]
                    /\ \A t \in Thread :
                        /\ thread[t].pc \in {"check", "compare", "swap", "store"} => thread[t].new # Null
                        /\ thread[t].pc \in {"compare", "swap"} => thread[t].last # Null
  BY DEF ThreadsOK, ThreadOK
<1> QED
  BY <1>1, Zenon DEF TypeOK, UiOK, HeapOK

\* Outside CaptureDesktop a thread has no buffers.
LEMMA IdleOK == ThreadOK(Idle)
BY DEF ThreadOK, Idle, Pc

\* One thread takes a step.
LEMMA ThreadSet ==
    ASSUME ThreadsOK, NEW t \in Thread, NEW r, thread' = [thread EXCEPT ![t] = r]
    PROVE  /\ thread'[t] = r /\ \A u \in Thread \ {t} : thread'[u] = thread[u]
           /\ ThreadOK(r) => ThreadsOK'
BY DEF ThreadsOK, ThreadOK

\* DestroyWindow lets the threads go that wait in SendMessage.
LEMMA StopThreads ==
    ASSUME ThreadsOK, StopCaptureBegins
    PROVE  ThreadsOK' /\ \A t \in Thread :
                thread'[t] = IF thread[t].pc = "first" THEN Idle ELSE thread[t]
BY IdleOK DEF StopCaptureBegins, ThreadsOK, ThreadOK

\* The initial state of capturing is well typed.
LEMMA InitTypeOK == Init => TypeOK
<1> SUFFICES ASSUME Init PROVE TypeOK
  OBVIOUS
<1> USE ScreenCaptureAssumption
<1>1. Allocated = {}
  BY DEF Init, Allocated
<1>2. ThreadsOK
  BY IdleOK DEF Init, ThreadsOK
<1>c. clients \in 0..MaxClients /\ ~(clients > 0)
  <2>1. clients = 0
    BY DEF Init
  <2> QED
    BY <2>1
<1>3. UiOK
  BY <1>c, Zenon DEF Init, UiOK
<1>4. queue \in [Thread -> 0..MaxTimers]
  BY DEF Init
<1> QED
  BY <1>1, <1>2, <1>3, <1>4, TypeParts DEF Init, HeapOK

\* new[] returns an address that is not allocated, and not the null pointer.
LEMMA AvailableIsFree ==
    ASSUME TypeOK, NEW a \in Available
    PROVE  a \in Address /\ a # Null /\ a \notin Allocated
<1> USE ScreenCaptureAssumption
<1>0. \A t \in Thread : {thread[t].last, thread[t].new} \subseteq Address \cup {Null}
  BY TypeParts DEF ThreadsOK, ThreadOK
<1>1. Held \subseteq Address \cup {Null}
  BY <1>0, TypeParts DEF Held
<1>2. CASE a \in Held \ (Allocated \cup {Null})
  BY <1>1, <1>2
<1>3. CASE a \notin Held \ (Allocated \cup {Null})
  <2>1. Unknown # {} /\ a = CHOOSE x \in Unknown : TRUE
    BY <1>3 DEF Available
  <2>2. a \in Unknown
    BY <2>1
  <2> QED
    BY <2>2 DEF Unknown
<1> QED
  BY <1>2, <1>3

\* delete[] takes one buffer away and keeps the heap well typed.
LEMMA FreedHeap ==
    ASSUME HeapOK, NEW a, heap' = Freed(a)
    PROVE  HeapOK' /\ Allocated' = Allocated \ {a}
BY DEF HeapOK, Freed, Allocated

\* Every step of capturing keeps the types.
LEMMA NextTypeOK == TypeOK /\ [Next]_vars => TypeOK'
<1> SUFFICES ASSUME TypeOK, [Next]_vars PROVE TypeOK'
  OBVIOUS
<1> USE ScreenCaptureAssumption
<1>parts. /\ UiOK /\ ThreadsOK /\ HeapOK
          /\ m_pBuffer \in Address \cup {Null}
          /\ queue \in [Thread -> 0..MaxTimers]
          /\ fault \in BOOLEAN /\ overlapped \in BOOLEAN
  BY TypeParts
<1>ui. ASSUME UNCHANGED <<clients, ui, m_uThreadId, m_hWnd, m_rcScreen, started>> PROVE UiOK'
  BY <1>ui, <1>parts, Zenon DEF UiOK
<1>threads. ASSUME UNCHANGED thread PROVE ThreadsOK'
  BY <1>threads, <1>parts DEF ThreadsOK
<1>heap. ASSUME UNCHANGED heap PROVE HeapOK'
  BY <1>heap, <1>parts DEF HeapOK, Allocated
<1> SUFFICES /\ UiOK' /\ ThreadsOK' /\ HeapOK'
             /\ m_pBuffer' \in Address \cup {Null}
             /\ queue' \in [Thread -> 0..MaxTimers]
             /\ fault' \in BOOLEAN /\ overlapped' \in BOOLEAN
  <2>1. (UiOK /\ ThreadsOK /\ HeapOK
          /\ m_pBuffer \in Address \cup {Null}
          /\ queue \in [Thread -> 0..MaxTimers]
          /\ fault \in BOOLEAN /\ overlapped \in BOOLEAN)' => TypeOK'
    BY TypeParts, PTL
  <2> QED
    BY <2>1
<1>1. CASE OnConnect
  <2>0. clients' \in 0..MaxClients
    BY <1>1, <1>parts DEF OnConnect, UiOK
  <2>1. UiOK'
    BY <1>1, <1>parts, <2>0, Zenon DEF OnConnect, UiOK
  <2> QED
    BY <1>1, <1>parts, <1>threads, <1>heap, <2>1 DEF OnConnect
<1>2. CASE OnDisconnect
  <2>1. CASE clients = 1 /\ m_uThreadId # Null
    <3>1. StopCaptureBegins /\ ui' = "stop"
      BY <1>2, <2>1 DEF OnDisconnect
    <3>2. clients' \in 0..MaxClients /\ ~(clients' > 0)
      BY <1>2, <2>1, <1>parts DEF OnDisconnect, UiOK
    <3>u. UiOK'
      BY <1>2, <3>1, <3>2, <1>parts, Zenon DEF OnDisconnect, UiOK, StopCaptureBegins
    <3>3. ThreadsOK'
      BY <3>1, <1>parts, StopThreads
    <3> QED
      BY <1>2, <1>parts, <1>heap, <3>u, <3>3 DEF OnDisconnect
  <2>2. CASE ~(clients = 1 /\ m_uThreadId # Null)
    <3>0. clients' \in 0..MaxClients /\ (clients' > 0 => clients > 0)
      BY <1>2, <2>2, <1>parts DEF OnDisconnect, UiOK
    <3>1. UiOK'
      BY <1>2, <2>2, <3>0, <1>parts, Zenon DEF OnDisconnect, UiOK
    <3> QED
      BY <1>2, <2>2, <1>parts, <1>heap, <1>threads, <3>1 DEF OnDisconnect
  <2> QED
    BY <2>1, <2>2
<1>3. CASE OnDestroy
  <2>0. clients' \in 0..MaxClients /\ ~(clients' > 0)
    <3>1. clients' = 0
      BY <1>3 DEF OnDestroy
    <3> QED
      BY <3>1
  <2>1. CASE m_uThreadId # Null
    <3>1. StopCaptureBegins
      BY <1>3, <2>1 DEF OnDestroy
    <3>2. UiOK'
      BY <1>3, <2>0, <3>1, <1>parts, Zenon DEF OnDestroy, UiOK, StopCaptureBegins
    <3>3. ThreadsOK'
      BY <3>1, <1>parts, StopThreads
    <3> QED
      BY <1>3, <1>parts, <1>heap, <3>2, <3>3 DEF OnDestroy
  <2>2. CASE m_uThreadId = Null
    <3>1. UiOK'
      BY <1>3, <2>0, <2>2, <1>parts, Zenon DEF OnDestroy, UiOK
    <3> QED
      BY <1>3, <2>2, <1>parts, <1>heap, <1>threads, <3>1 DEF OnDestroy
  <2> QED
    BY <2>1, <2>2
<1>4. CASE OnTimer
  <2>1. m_uThreadId \in Thread
    BY <1>4, <1>parts DEF OnTimer, UiOK
  <2>2. queue' \in [Thread -> 0..MaxTimers]
    BY <1>4, <2>1, <1>parts DEF OnTimer
  <2> QED
    BY <1>4, <2>2, <1>parts, <1>ui, <1>threads, <1>heap DEF OnTimer, uiVars
<1>5. CASE FreeBuffer
  <2>1. HeapOK'
    BY <1>5, <1>parts, <1>heap, FreedHeap DEF FreeBuffer
  <2>2. UiOK'
    BY <1>5, <1>parts DEF FreeBuffer, UiOK
  <2> QED
    BY <1>5, <2>1, <2>2, <1>parts, <1>threads DEF FreeBuffer
<1>6. ASSUME NEW t \in Thread, OnFirstBitmap(t)
      PROVE  /\ UiOK' /\ ThreadsOK' /\ HeapOK'
             /\ m_pBuffer' \in Address \cup {Null}
             /\ queue' \in [Thread -> 0..MaxTimers]
             /\ fault' \in BOOLEAN /\ overlapped' \in BOOLEAN
  <2>1. ThreadsOK'
    BY <1>6, <1>parts, IdleOK, ThreadSet DEF OnFirstBitmap
  <2> QED
    BY <1>6, <2>1, <1>parts, <1>ui, <1>heap DEF OnFirstBitmap, uiVars
<1>7. ASSUME NEW t \in Thread, ThreadStep(t)
      PROVE  /\ UiOK' /\ ThreadsOK' /\ HeapOK'
             /\ m_pBuffer' \in Address \cup {Null}
             /\ queue' \in [Thread -> 0..MaxTimers]
             /\ fault' \in BOOLEAN /\ overlapped' \in BOOLEAN
  <2>t. ThreadOK(thread[t])
    BY <1>parts DEF ThreadsOK
  <2>1. CASE CaptureDesktop(t)
    <3>1. ThreadOK([Idle EXCEPT !.pc = "copy", !.last = m_pBuffer])
      BY <1>parts DEF Idle, ThreadOK, Pc
    <3>2. ThreadsOK'
      BY <2>1, <3>1, <1>parts, ThreadSet DEF CaptureDesktop
    <3>3. queue' \in [Thread -> 0..MaxTimers]
      BY <2>1, <1>parts DEF CaptureDesktop
    <3> QED
      BY <2>1, <3>2, <3>3, <1>parts, <1>ui, <1>heap DEF CaptureDesktop, uiVars
  <2>2. CASE CopyScreen(t)
    <3>1. PICK a \in Available :
            /\ heap' = [x \in Allocated \cup {a} |-> IF x = a THEN m_rcScreen ELSE heap[x]]
            /\ thread' = [thread EXCEPT ![t] = [@ EXCEPT !.pc = "check", !.new = a]]
      BY <2>2 DEF CopyScreen
    <3>2. a \in Address /\ a # Null
      BY AvailableIsFree
    <3>3. HeapOK'
      BY <3>1, <3>2, <1>parts DEF HeapOK, UiOK, Allocated
    <3>4. ThreadOK([thread[t] EXCEPT !.pc = "check", !.new = a])
      BY <3>2, <2>t DEF ThreadOK, Pc
    <3>5. ThreadsOK'
      BY <3>1, <3>4, <1>parts, ThreadSet
    <3> QED
      BY <2>2, <3>3, <3>5, <1>parts, <1>ui DEF CopyScreen, uiVars
  <2>3. CASE CheckWindow(t)
    <3>1. CASE m_hWnd
      <4> DEFINE r == [thread[t] EXCEPT !.pc = IF thread[t].last # Null THEN "compare" ELSE "store"]
      <4>1. ThreadOK(r)
        BY <2>3, <2>t DEF ThreadOK, Pc, CheckWindow, Running
      <4>2. thread' = [thread EXCEPT ![t] = r]
        BY <2>3, <3>1 DEF CheckWindow
      <4>3. ThreadsOK'
        BY <4>1, <4>2, <1>parts, ThreadSet
      <4> QED
        BY <2>3, <3>1, <4>3, <1>parts, <1>ui, <1>heap DEF CheckWindow, uiVars
    <3>2. CASE ~m_hWnd
      <4>1. ThreadsOK'
        BY <2>3, <3>2, <1>parts, IdleOK, ThreadSet DEF CheckWindow
      <4>2. HeapOK'
        BY <2>3, <3>2, <1>parts, FreedHeap DEF CheckWindow
      <4> QED
        BY <2>3, <4>1, <4>2, <1>parts, <1>ui DEF CheckWindow, uiVars
    <3> QED
      BY <3>1, <3>2
  <2>4. CASE Compare(t)
    <3> DEFINE r == [thread[t] EXCEPT !.pc = "swap"]
    <3>1. ThreadOK(r)
      BY <2>4, <2>t DEF ThreadOK, Pc, Compare, Running
    <3>2. thread' = [thread EXCEPT ![t] = r]
      BY <2>4 DEF Compare
    <3>3. ThreadsOK'
      BY <3>1, <3>2, <1>parts, ThreadSet
    <3> QED
      BY <2>4, <3>3, <1>parts, <1>ui, <1>heap DEF Compare, uiVars
  <2>5. CASE Swap(t)
    <3>1. ThreadsOK'
      BY <2>5, <1>parts, IdleOK, ThreadSet DEF Swap
    <3>2. HeapOK'
      BY <2>5, <1>parts, FreedHeap DEF Swap
    <3> QED
      BY <2>5, <3>1, <3>2, <2>t, <1>parts, <1>ui DEF Swap, uiVars, ThreadOK
  <2>6. CASE Store(t)
    <3> DEFINE r == IF m_hWnd THEN [Idle EXCEPT !.pc = "first"] ELSE Idle
    <3>1. ThreadOK(r)
      BY DEF ThreadOK, Idle, Pc
    <3>2. ThreadsOK'
      BY <2>6, <3>1, <1>parts, ThreadSet DEF Store
    <3> QED
      BY <2>6, <3>2, <2>t, <1>parts, <1>ui, <1>heap DEF Store, uiVars, ThreadOK
  <2> QED
    BY <1>7, <2>1, <2>2, <2>3, <2>4, <2>5, <2>6 DEF ThreadStep
<1>8. CASE UNCHANGED vars
  BY <1>8, <1>parts, <1>ui, <1>threads, <1>heap DEF vars, uiVars
<1> QED
  BY <1>1, <1>2, <1>3, <1>4, <1>5, <1>6, <1>7, <1>8 DEF Next, Handler

\* The threads, windows, queues and buffers of CScreenBitmap stay well typed, there is
\* a window exactly while there is a thread that OnTimer posts to (m_hWnd and
\* m_uThreadId are set and reset together) and both for every client that is
\* connected; CaptureDesktop never reaches the code that uses a buffer without one.
THEOREM TypeCorrect == Spec => []TypeOK
BY InitTypeOK, NextTypeOK, PTL DEF Spec

-----------------------------------------------------------------------------
(* Who owns the buffers.                                                   *)

\* Where CaptureDesktop has a buffer of its own.
HasNew == {"check", "compare", "swap", "store"}

\* The locals of CaptureDesktop, whoever else is running.
Locals ==
    \A t \in Thread :
        /\ thread[t].pc \notin HasNew => thread[t].new = Null
        /\ thread[t].pc = "store" => thread[t].last = Null

\* As long as nothing overlapped: one thread at most is in CaptureDesktop; m_pBuffer
\* is what that thread read from it; the thread's new buffer is allocated and not
\* m_pBuffer; while the thread waits for OnFirstBitmap there is a buffer to read; and
\* nothing is allocated but those two buffers.
Alone == \A t, u \in Thread : Capturing(t) /\ Capturing(u) => t = u

OwnsBuffers(r) ==
    /\ r.pc \in HasNew \cup {"copy"} => r.last = m_pBuffer
    /\ r.pc \in HasNew => r.new \in Allocated \ {m_pBuffer}
    /\ r.pc = "first" => m_pBuffer \in Allocated

AllOwned ==
    \A a \in Allocated :
        a = m_pBuffer \/ \E t \in Thread : thread[t].pc \in HasNew /\ thread[t].new = a

Owners ==
    ~overlapped =>
        /\ ~fault /\ m_pBuffer \in Allocated \cup {Null}
        /\ Alone /\ AllOwned
        /\ \A t \in Thread : OwnsBuffers(thread[t])

OwnInv == TypeOK /\ Locals /\ Owners

\* A step in which no buffer changes hands: what was owned stays owned.
LEMMA SameBuffers ==
    ASSUME Owners, ThreadsOK, ~overlapped, UNCHANGED <<m_pBuffer, heap>>,
           \A t \in Thread :
              \/ thread'[t] = thread[t]
              \/ thread'[t] = Idle /\ thread[t].pc = "first"
    PROVE  (m_pBuffer \in Allocated \cup {Null} /\ Alone /\ AllOwned
              /\ \A t \in Thread : OwnsBuffers(thread[t]))'
BY DEF Owners, Alone, AllOwned, OwnsBuffers, HasNew, Capturing, Idle, Allocated

\* Nothing is allocated, and nobody captures, at the start.
LEMMA InitOwners == Init => Locals /\ Owners
<1> SUFFICES ASSUME Init PROVE Locals /\ Owners
  OBVIOUS
<1>1. Allocated = {} /\ \A t \in Thread : thread[t] = Idle
  BY DEF Init, Allocated
<1>2. ~fault /\ m_pBuffer = Null
  BY DEF Init
<1> QED
  BY <1>1, <1>2
  DEF Locals, Owners, Alone, AllOwned, OwnsBuffers, HasNew, Capturing, Idle

\* The locals that CaptureDesktop has not set yet.
LEMMA NextLocals == TypeOK /\ Locals /\ [Next]_vars => Locals'
<1> SUFFICES ASSUME TypeOK, Locals, [Next]_vars PROVE Locals'
  OBVIOUS
<1> DEFINE Fresh(r) == (r.pc \notin HasNew => r.new = Null) /\ (r.pc = "store" => r.last = Null)
<1>types. ThreadsOK
  BY TypeParts
<1>old. \A t \in Thread : Fresh(thread[t])
  BY DEF Locals
<1>idle. Fresh(Idle)
  BY DEF Idle, HasNew
<1>goal. (\A t \in Thread : Fresh(thread'[t])) => Locals'
  BY DEF Locals
<1>stop. ASSUME StopCaptureBegins PROVE Locals'
  BY <1>stop, <1>types, <1>old, <1>idle, <1>goal, StopThreads
<1>same. ASSUME UNCHANGED thread PROVE Locals'
  BY <1>same, <1>old, <1>goal
<1>set. ASSUME NEW t \in Thread, NEW r, thread' = [thread EXCEPT ![t] = r], Fresh(r) PROVE Locals'
  <2>1. thread'[t] = r /\ \A u \in Thread \ {t} : thread'[u] = thread[u]
    BY <1>set, <1>types, ThreadSet
  <2> QED
    BY <2>1, <1>set, <1>old, <1>goal
<1>1. CASE OnConnect \/ OnTimer \/ FreeBuffer \/ UNCHANGED vars
  BY <1>1, <1>same DEF OnConnect, OnTimer, FreeBuffer, vars
<1>2. CASE OnDisconnect \/ OnDestroy
  BY <1>2, <1>same, <1>stop DEF OnDisconnect, OnDestroy
<1>3. ASSUME NEW t \in Thread, OnFirstBitmap(t) \/ ThreadStep(t) PROVE Locals'
  <2>t. thread[t] \in [pc : Pc, last : Address \cup {Null}, new : Address \cup {Null}]
    BY <1>types DEF ThreadsOK, ThreadOK
  <2>1. CASE OnFirstBitmap(t) \/ Swap(t)
    BY <2>1, <1>set, <1>idle DEF OnFirstBitmap, Swap
  <2>2. CASE CaptureDesktop(t)
    <3>1. Fresh([Idle EXCEPT !.pc = "copy", !.last = m_pBuffer])
      BY DEF Idle, HasNew
    <3> QED
      BY <2>2, <3>1, <1>set DEF CaptureDesktop
  <2>3. CASE CopyScreen(t)
    <3>1. PICK a : thread' = [thread EXCEPT ![t] = [@ EXCEPT !.pc = "check", !.new = a]]
      BY <2>3 DEF CopyScreen
    <3>2. Fresh([thread[t] EXCEPT !.pc = "check", !.new = a])
      BY <2>t DEF HasNew
    <3> QED
      BY <3>1, <3>2, <1>set
  <2>4. CASE CheckWindow(t)
    <3>1. CASE m_hWnd
      <4> DEFINE r == [thread[t] EXCEPT !.pc = IF thread[t].last # Null THEN "compare" ELSE "store"]
      <4>1. Fresh(r)
        BY <2>t DEF HasNew
      <4>2. thread' = [thread EXCEPT ![t] = r]
        BY <2>4, <3>1 DEF CheckWindow
      <4> HIDE DEF r
      <4> QED
        BY <4>1, <4>2, <1>set
    <3>2. CASE ~m_hWnd
      BY <2>4, <3>2, <1>set, <1>idle DEF CheckWindow
    <3> QED
      BY <3>1, <3>2
  <2>5. CASE Compare(t)
    <3> DEFINE r == [thread[t] EXCEPT !.pc = "swap"]
    <3>1. Fresh(r)
      BY <2>t DEF HasNew
    <3>2. thread' = [thread EXCEPT ![t] = r]
      BY <2>5 DEF Compare
    <3> HIDE DEF r
    <3> QED
      BY <3>1, <3>2, <1>set
  <2>6. CASE Store(t)
    <3>1. Fresh(IF m_hWnd THEN [Idle EXCEPT !.pc = "first"] ELSE Idle)
      BY DEF Idle, HasNew
    <3> QED
      BY <2>6, <3>1, <1>set DEF Store
  <2> QED
    BY <1>3, <2>1, <2>2, <2>3, <2>4, <2>5, <2>6 DEF ThreadStep
<1> QED
  BY <1>1, <1>2, <1>3 DEF Next, Handler
\* Every step of capturing hands the buffers over as Owners says.
LEMMA NextOwners == OwnInv /\ TypeOK' /\ [Next]_vars => Owners'
<1> SUFFICES ASSUME TypeOK, Locals, Owners, TypeOK', [Next]_vars, ~overlapped' PROVE Owners'
  BY DEF OwnInv, Owners
<1> USE ScreenCaptureAssumption
<1>types. ThreadsOK /\ \A t \in Thread : ThreadOK(thread[t])
  BY TypeParts DEF ThreadsOK
<1>goal. ASSUME ~fault', (m_pBuffer \in Allocated \cup {Null} /\ Alone /\ AllOwned
                            /\ \A t \in Thread : OwnsBuffers(thread[t]))'
         PROVE  Owners'
  BY <1>goal, Zenon DEF Owners
<1>old. ASSUME ~overlapped
        PROVE  /\ ~fault /\ m_pBuffer \in Allocated \cup {Null}
               /\ Alone /\ AllOwned
               /\ \A t \in Thread : OwnsBuffers(thread[t])
  BY <1>old, Zenon DEF Owners
<1>1. CASE OnConnect \/ OnTimer \/ UNCHANGED vars
  <2>1. UNCHANGED <<m_pBuffer, heap, thread, fault, overlapped>>
    BY <1>1 DEF OnConnect, OnTimer, vars
  <2> QED
    BY <2>1, <1>types, <1>old, <1>goal, SameBuffers
<1>2. CASE OnDisconnect \/ OnDestroy
  <2>1. UNCHANGED <<m_pBuffer, heap, fault, overlapped>> /\ (StopCaptureBegins \/ UNCHANGED thread)
    BY <1>2 DEF OnDisconnect, OnDestroy
  <2>2. \A t \in Thread : thread'[t] = thread[t] \/ (thread'[t] = Idle /\ thread[t].pc = "first")
    BY <2>1, <1>types, StopThreads
  <2> QED
    BY <2>1, <2>2, <1>types, <1>old, <1>goal, SameBuffers
<1>3. CASE FreeBuffer
  <2>1. ~overlapped /\ UNCHANGED thread /\ m_pBuffer' = Null
    BY <1>3 DEF FreeBuffer
  <2>2. \A t \in Thread : ~Capturing(t)
    BY <1>3 DEF FreeBuffer
  <2>3. Allocated' = Allocated \ {m_pBuffer}
    <3>1. CASE m_pBuffer = Null
      <4>1. Null \notin Allocated
        BY TypeParts DEF HeapOK
      <4> QED
        BY <1>3, <3>1, <4>1 DEF FreeBuffer, Allocated
    <3>2. CASE m_pBuffer # Null
      BY <1>3, <3>2, FreedHeap, TypeParts DEF FreeBuffer
    <3> QED
      BY <3>1, <3>2
  <2>4. ~fault'
    BY <1>3, <2>1, <1>old, Zenon DEF FreeBuffer
  <2>5. Allocated' = {}
    BY <2>1, <2>2, <2>3, <1>old DEF AllOwned, Capturing, HasNew
  <2>6. (m_pBuffer \in Allocated \cup {Null} /\ Alone /\ AllOwned
           /\ \A t \in Thread : OwnsBuffers(thread[t]))'
    BY <2>1, <2>2, <2>5 DEF Alone, AllOwned, OwnsBuffers, Capturing, HasNew
  <2> QED
    BY <2>4, <2>6, <1>goal
<1>4. ASSUME NEW t \in Thread, OnFirstBitmap(t) PROVE Owners'
  <2>1. ~overlapped /\ UNCHANGED <<m_pBuffer, heap>> /\ thread[t].pc = "first"
    BY <1>4 DEF OnFirstBitmap
  <2>2. thread'[t] = Idle /\ \A u \in Thread \ {t} : thread'[u] = thread[u]
    BY <1>4, <1>types, ThreadSet DEF OnFirstBitmap
  <2>3. m_pBuffer \in Allocated
    BY <2>1, <1>old DEF OwnsBuffers
  <2>4. ~fault'
    BY <2>3, <1>4, Zenon DEF OnFirstBitmap
  <2> QED
    BY <2>1, <2>2, <2>4, <1>types, <1>old, <1>goal, SameBuffers
<1>5. ASSUME NEW t \in Thread, ThreadStep(t) PROVE Owners'
  <2>0. ~overlapped
    BY <1>5 DEF ThreadStep, CaptureDesktop, CopyScreen, CheckWindow, Compare, Swap, Store
  <2>t. thread[t] \in [pc : Pc, last : Address \cup {Null}, new : Address \cup {Null}]
    BY <1>types DEF ThreadOK
  <2>n. Null \notin Allocated
    BY TypeParts DEF HeapOK
  <2>alone. ASSUME Capturing(t) PROVE \A u \in Thread \ {t} : thread[u].pc = "idle"
    BY <2>alone, <2>0, <1>old DEF Alone, Capturing
  <2>1. CASE CaptureDesktop(t)
    <3> DEFINE r == [Idle EXCEPT !.pc = "copy", !.last = m_pBuffer]
    <3>1. thread'[t] = r /\ \A u \in Thread \ {t} : thread'[u] = thread[u]
      BY <2>1, <1>types, ThreadSet DEF CaptureDesktop
    <3>2. r.pc = "copy" /\ r.last = m_pBuffer
      BY DEF Idle
    <3>3. UNCHANGED <<m_pBuffer, heap, fault>> /\ \A u \in Thread : ~Capturing(u)
      BY <2>1 DEF CaptureDesktop
    <3> HIDE DEF r
    <3>4. (Alone /\ AllOwned /\ \A u \in Thread : OwnsBuffers(thread[u]))'
      BY <3>1, <3>2, <3>3, <2>0, <1>old
      DEF Alone, AllOwned, OwnsBuffers, Capturing, HasNew, Allocated
    <3> QED
      BY <3>3, <3>4, <2>0, <1>old, <1>goal DEF Allocated
  <2>2. CASE CopyScreen(t)
    <3>1. PICK a \in Available :
            /\ heap' = [x \in Allocated \cup {a} |-> IF x = a THEN m_rcScreen ELSE heap[x]]
            /\ thread' = [thread EXCEPT ![t] = [@ EXCEPT !.pc = "check", !.new = a]]
      BY <2>2 DEF CopyScreen
    <3>2. a # Null /\ a \notin Allocated
      BY AvailableIsFree
    <3>3. Allocated' = Allocated \cup {a}
      BY <3>1 DEF Allocated
    <3> DEFINE r == [thread[t] EXCEPT !.pc = "check", !.new = a]
    <3>4. thread'[t] = r /\ \A u \in Thread \ {t} : thread'[u] = thread[u]
      BY <3>1, <1>types, ThreadSet
    <3>5. r.pc = "check" /\ r.new = a /\ r.last = thread[t].last
      BY <2>t
    <3>6. UNCHANGED <<m_pBuffer, fault>> /\ thread[t].pc = "copy"
      BY <2>2 DEF CopyScreen, Running
    <3> HIDE DEF r
    <3>7. (Alone /\ AllOwned /\ \A u \in Thread : OwnsBuffers(thread[u]))'
      BY <3>2, <3>3, <3>4, <3>5, <3>6, <2>0, <2>alone, <1>old
      DEF Alone, AllOwned, OwnsBuffers, Capturing, HasNew
    <3> QED
      BY <3>3, <3>6, <3>7, <2>0, <1>old, <1>goal
  <2>3. CASE CheckWindow(t)
    <3>1. UNCHANGED <<m_pBuffer, fault>> /\ thread[t].pc = "check"
      BY <2>3 DEF CheckWindow, Running
    <3>2. CASE m_hWnd
      <4> DEFINE r == [thread[t] EXCEPT !.pc = IF thread[t].last # Null THEN "compare" ELSE "store"]
      <4>1. thread' = [thread EXCEPT ![t] = r] /\ UNCHANGED heap
        BY <2>3, <3>2 DEF CheckWindow
      <4>2. r.pc \in {"compare", "store"} /\ r.new = thread[t].new /\ r.last = thread[t].last
        BY <2>t
      <4> HIDE DEF r
      <4>3. thread'[t] = r /\ \A u \in Thread \ {t} : thread'[u] = thread[u]
        BY <4>1, <1>types, ThreadSet
      <4>4. (Alone /\ AllOwned /\ \A u \in Thread : OwnsBuffers(thread[u]))'
        BY <4>1, <4>2, <4>3, <3>1, <2>0, <2>alone, <1>old
        DEF Alone, AllOwned, OwnsBuffers, Capturing, HasNew, Allocated
      <4> QED
        BY <4>1, <4>4, <3>1, <2>0, <1>old, <1>goal DEF Allocated
    <3>3. CASE ~m_hWnd
      <4>1. thread'[t] = Idle /\ \A u \in Thread \ {t} : thread'[u] = thread[u]
        BY <2>3, <3>3, <1>types, ThreadSet DEF CheckWindow
      <4>2. Allocated' = Allocated \ {thread[t].new}
        BY <2>3, <3>3, FreedHeap, TypeParts DEF CheckWindow
      <4>3. m_pBuffer' \in Allocated' \cup {Null}
        BY <4>2, <3>1, <2>0, <1>old DEF OwnsBuffers, HasNew
      <4>4. (Alone /\ AllOwned /\ \A u \in Thread : OwnsBuffers(thread[u]))'
        BY <4>1, <4>2, <3>1, <2>0, <2>alone, <1>old
        DEF Alone, AllOwned, OwnsBuffers, Capturing, HasNew, Idle
      <4> QED
        BY <4>3, <4>4, <3>1, <2>0, <1>old, <1>goal
    <3> QED
      BY <3>2, <3>3
  <2>4. CASE Compare(t)
    <3> DEFINE r == [thread[t] EXCEPT !.pc = "swap"]
    <3>1. thread' = [thread EXCEPT ![t] = r] /\ UNCHANGED <<m_pBuffer, heap>> /\ thread[t].pc = "compare"
      BY <2>4 DEF Compare, Running
    <3>2. r.pc = "swap" /\ r.new = thread[t].new /\ r.last = thread[t].last
      BY <2>t
    <3> HIDE DEF r
    <3>3. thread'[t] = r /\ \A u \in Thread \ {t} : thread'[u] = thread[u]
      BY <3>1, <1>types, ThreadSet
    <3>4. thread[t].last \in Allocated /\ thread[t].new \in Allocated
      BY <3>1, <2>0, <1>old, <1>types DEF OwnsBuffers, HasNew, ThreadOK
    <3>5. ~fault'
      BY <3>4, <2>4 DEF Compare
    <3>6. (Alone /\ AllOwned /\ \A u \in Thread : OwnsBuffers(thread[u]))'
      BY <3>1, <3>2, <3>3, <2>0, <2>alone, <1>old
      DEF Alone, AllOwned, OwnsBuffers, Capturing, HasNew, Allocated
    <3> QED
      BY <3>1, <3>5, <3>6, <2>0, <1>old, <1>goal DEF Allocated
  <2>5. CASE Swap(t)
    <3>1. thread'[t] = Idle /\ \A u \in Thread \ {t} : thread'[u] = thread[u]
      BY <2>5, <1>types, ThreadSet DEF Swap
    <3>2. Allocated' = Allocated \ {thread[t].last}
      BY <2>5, FreedHeap, TypeParts DEF Swap
    <3>3. m_pBuffer' = thread[t].new /\ thread[t].pc = "swap"
      BY <2>5 DEF Swap, Running
    <3>4. thread[t].last \in Allocated /\ thread[t].last = m_pBuffer /\ thread[t].new \in Allocated \ {m_pBuffer}
      BY <3>3, <2>0, <1>old, <1>types DEF OwnsBuffers, HasNew, ThreadOK
    <3>5. ~fault'
      BY <3>4, <2>5, Zenon DEF Swap
    <3>6. (m_pBuffer \in Allocated \cup {Null} /\ Alone /\ AllOwned
             /\ \A u \in Thread : OwnsBuffers(thread[u]))'
      BY <3>1, <3>2, <3>3, <3>4, <2>0, <2>alone, <1>old
      DEF Alone, AllOwned, OwnsBuffers, Capturing, HasNew, Idle
    <3> QED
      BY <3>5, <3>6, <1>goal
  <2>6. CASE Store(t)
    <3> DEFINE r == IF m_hWnd THEN [Idle EXCEPT !.pc = "first"] ELSE Idle
    <3>1. thread'[t] = r /\ \A u \in Thread \ {t} : thread'[u] = thread[u]
      BY <2>6, <1>types, ThreadSet DEF Store
    <3>2. r.pc \in {"first", "idle"}
      BY DEF Idle
    <3>3. m_pBuffer' = thread[t].new /\ thread[t].pc = "store" /\ UNCHANGED <<heap, fault>>
      BY <2>6 DEF Store, Running
    <3>4. m_pBuffer = Null /\ thread[t].new \in Allocated
      BY <3>3, <2>0, <1>old DEF OwnsBuffers, HasNew, Locals
    <3> HIDE DEF r
    <3>5. (m_pBuffer \in Allocated \cup {Null} /\ Alone /\ AllOwned
             /\ \A u \in Thread : OwnsBuffers(thread[u]))'
      BY <3>1, <3>2, <3>3, <3>4, <2>0, <2>n, <2>alone, <1>old
      DEF Alone, AllOwned, OwnsBuffers, Capturing, HasNew, Allocated
    <3> QED
      BY <3>3, <3>5, <2>0, <1>old, <1>goal
  <2> QED
    BY <1>5, <2>1, <2>2, <2>3, <2>4, <2>5, <2>6 DEF ThreadStep
<1> QED
  BY <1>1, <1>2, <1>3, <1>4, <1>5 DEF Next, Handler

\* The ownership invariant holds of every run of CScreenBitmap: over any number of
\* threads, clients, stops and starts, as long as nothing overlapped one thread at most
\* is in CaptureDesktop, and m_pBuffer and that thread's new buffer have one owner each.
THEOREM BuffersAreOwned == Spec => []OwnInv
<1>1. Init => OwnInv
  BY InitTypeOK, InitOwners DEF OwnInv
<1>2. OwnInv /\ [Next]_vars => OwnInv'
  BY NextTypeOK, NextLocals, NextOwners DEF OwnInv
<1> QED
  BY <1>1, <1>2, PTL DEF Spec

\* No screen buffer is freed twice, read after it was freed or left dangling in
\* m_pBuffer unless two threads were in CaptureDesktop at a time or one was while
\* StopCapture freed the buffer.
THEOREM BuffersAreSafe == Spec => []FaultsNeedOverlap
<1>1. OwnInv => FaultsNeedOverlap
  BY Zenon DEF OwnInv, Owners, FaultsNeedOverlap
<1> QED
  BY <1>1, BuffersAreOwned, PTL

\* Without such an overlap CaptureDesktop and StopCapture leak no buffer but the one
\* captured when the window had gone already: all that is allocated is m_pBuffer and
\* what a thread is just capturing.
THEOREM BuffersAreFreed == Spec => []NothingElseLeaks
<1>1. OwnInv => NothingElseLeaks
  <2> SUFFICES ASSUME OwnInv, ~overlapped
               PROVE  Allocated = ({m_pBuffer} \cup {thread[t].new : t \in Thread}) \ {Null}
    BY DEF NothingElseLeaks
  <2>1. /\ m_pBuffer \in Allocated \cup {Null} /\ AllOwned
        /\ \A t \in Thread : OwnsBuffers(thread[t])
    BY Zenon DEF OwnInv, Owners
  <2>2. Null \notin Allocated
    BY TypeParts, ScreenCaptureAssumption DEF OwnInv, HeapOK
  <2>3. \A t \in Thread : thread[t].new \in Allocated \cup {Null}
    BY <2>1 DEF OwnInv, Locals, OwnsBuffers
  <2> QED
    BY <2>1, <2>2, <2>3 DEF AllOwned
<1> QED
  BY <1>1, BuffersAreOwned, PTL

-----------------------------------------------------------------------------
(* The picture.  Positions in the bitmap are computed from columns and     *)
(* rows of blocks: all of it is division with remainder.                   *)

\* Quotient and remainder of a number that is given by them.
LEMMA Quotient ==
    ASSUME NEW n \in Nat \ {0}, NEW q \in Nat, NEW r \in 0..n - 1
    PROVE  (q * n + r) \div n = q /\ (q * n + r) % n = r
OBVIOUS

LEMMA Division ==
    ASSUME NEW n \in Nat \ {0}, NEW a \in Nat
    PROVE  /\ a \div n \in Nat /\ a % n \in 0..n - 1
           /\ a = ((a \div n) * n) + (a % n)
OBVIOUS

LEMMA Distribute ==
    ASSUME NEW a \in Int, NEW b \in Int, NEW c \in Int
    PROVE  (a + b) * c = a * c + b * c /\ (a - b) * c = a * c - b * c /\ a * (b * c) = (a * b) * c
OBVIOUS

\* The cells of a grid of h rows and n columns, row by row.
LEMMA Grid ==
    ASSUME NEW h \in Nat \ {0}, NEW n \in Nat \ {0}, NEW y \in 0..h - 1, NEW c \in 0..n - 1
    PROVE  y * n + c \in 0..h * n - 1
<1>1. y * n <= (h - 1) * n
  OBVIOUS
<1>2. (h - 1) * n = h * n - n /\ y * n \in Nat /\ h * n \in Nat
  OBVIOUS
<1> QED
  BY <1>1, <1>2

Sizes == Dimensions(Nat \ {0}, Nat \ {0})

\* ColumnCount and RowCount: the least number of blocks that covers the screen.
LEMMA Geometry ==
    ASSUME NEW e \in Sizes
    PROVE  /\ e.biWidth \in Nat \ {0} /\ e.biHeight \in Nat \ {0}
           /\ UnitBytes \in Nat \ {0} /\ RowBytes(e) \in Nat \ {0}
           /\ ColumnCount(e) \in Nat \ {0} /\ RowCount(e) \in Nat \ {0}
           /\ (ColumnCount(e) - 1) * SCAN_MODIFY_RECT_UNIT < e.biWidth
           /\ e.biWidth <= ColumnCount(e) * SCAN_MODIFY_RECT_UNIT
           /\ (ColumnCount(e) - 1) * UnitBytes < RowBytes(e)
           /\ RowBytes(e) <= ColumnCount(e) * UnitBytes
           /\ (RowCount(e) - 1) * SCAN_MODIFY_RECT_UNIT < e.biHeight
           /\ e.biHeight <= RowCount(e) * SCAN_MODIFY_RECT_UNIT
<1> DEFINE U == SCAN_MODIFY_RECT_UNIT
           W == e.biWidth
           H == e.biHeight
           q == (W - 1) \div U
           p == (H - 1) \div U
<1>1. W \in Nat \ {0} /\ H \in Nat \ {0} /\ U \in Nat \ {0} /\ PixelBytes \in Nat \ {0}
  BY PictureAssumption DEF Sizes, Dimensions
<1>2. ColumnCount(e) = q + 1 /\ RowCount(e) = p + 1 /\ UnitBytes = U * PixelBytes
      /\ RowBytes(e) = W * PixelBytes
  BY DEF ColumnCount, RowCount, UnitBytes, RowBytes
<1> HIDE DEF U, W, H
<1>3. q \in Nat /\ q * U <= W - 1 /\ W - 1 < (q + 1) * U
  <2>1. q \in Nat /\ (W - 1) % U \in 0..U - 1 /\ W - 1 = (q * U) + ((W - 1) % U)
    <3>1. W - 1 \in Nat
      BY <1>1
    <3> QED
      BY <1>1, <3>1, Division, Zenon
  <2> QED
    BY <1>1, <2>1
<1>4. p \in Nat /\ p * U <= H - 1 /\ H - 1 < (p + 1) * U
  <2>1. p \in Nat /\ (H - 1) % U \in 0..U - 1 /\ H - 1 = (p * U) + ((H - 1) % U)
    <3>1. H - 1 \in Nat
      BY <1>1
    <3> QED
      BY <1>1, <3>1, Division, Zenon
  <2> QED
    BY <1>1, <2>1
<1> HIDE DEF q, p
<1>5. U * PixelBytes \in Nat \ {0} /\ W * PixelBytes \in Nat \ {0}
  BY <1>1
<1>6. q * (U * PixelBytes) < W * PixelBytes
  BY <1>1, <1>3
<1>7. W * PixelBytes <= (q + 1) * (U * PixelBytes)
  BY <1>1, <1>3
<1>8. (q + 1) - 1 = q /\ (p + 1) - 1 = p /\ q + 1 \in Nat \ {0} /\ p + 1 \in Nat \ {0}
  BY <1>3, <1>4
<1>9. q * U < W /\ W <= (q + 1) * U /\ p * U < H /\ H <= (p + 1) * U
  BY <1>1, <1>3, <1>4
<1> QED
  BY <1>1, <1>2, <1>5, <1>6, <1>7, <1>8, <1>9 DEF U, W, H

\* The bytes of a unit of column c: at most UnitBytes.
LEMMA UnitWidth ==
    ASSUME NEW e \in Sizes, NEW c \in 0..ColumnCount(e) - 1
    PROVE  /\ ScanPixelByteCount(e, c) \in 1..UnitBytes
           /\ c < ColumnCount(e) - 1 => ScanPixelByteCount(e, c) = UnitBytes
           /\ c = ColumnCount(e) - 1 => c * UnitBytes + ScanPixelByteCount(e, c) = RowBytes(e)
<1> DEFINE C == ColumnCount(e)
           last == (C - 1) * UnitBytes
<1>1. C \in Nat \ {0} /\ UnitBytes \in Nat \ {0} /\ RowBytes(e) \in Nat \ {0}
      /\ last < RowBytes(e) /\ RowBytes(e) <= C * UnitBytes
  BY Geometry
<1>2. last \in Nat /\ C * UnitBytes = last + UnitBytes
  BY <1>1
<1>3. ScanPixelByteCount(e, c) = IF c = C - 1 THEN RowBytes(e) - last ELSE UnitBytes
  BY DEF ScanPixelByteCount
<1>4. c = C - 1 => c * UnitBytes = last
  OBVIOUS
<1> HIDE DEF last
<1> QED
  BY <1>1, <1>2, <1>3, <1>4

\* Where unit k of the scan begins: the scan goes through the units of a row of pixels and
\* then to the next row, without leaving anything out.
LEMMA ScanStarts ==
    ASSUME NEW e \in Sizes
    PROVE  \A y \in 0..e.biHeight - 1, c \in 0..ColumnCount(e) - 1 :
              ScanStart(e)[y * ColumnCount(e) + c] = y * RowBytes(e) + c * UnitBytes
<1> DEFINE C == ColumnCount(e)
           n == e.biHeight * C
           Count(c) == ScanPixelByteCount(e, c)
           At(k) == (k \div C) * RowBytes(e) + (k % C) * UnitBytes
           Body(f) == [k \in 0..n |-> IF k = 0 THEN 0 ELSE f[k - 1] + Count((k - 1) % C)]
           at == [k \in 0..n |-> At(k)]
           start == ScanStart(e)
<1>1. C \in Nat \ {0} /\ UnitBytes \in Nat \ {0} /\ RowBytes(e) \in Nat \ {0}
      /\ e.biHeight \in Nat \ {0}
  BY Geometry
<1>2. n \in Nat
  BY <1>1
<1>3. At(0) = 0
  <2>1. 0 \div C = 0 /\ 0 % C = 0
    BY <1>1
  <2> QED
    BY <1>1, <2>1
<1>4. ASSUME NEW k \in Nat PROVE At(k + 1) = At(k) + Count(k % C)
  <2> DEFINE y == k \div C
             c == k % C
  <2>1. y \in Nat /\ c \in 0..C - 1 /\ k = (y * C) + c
    BY <1>1, Division, Zenon
  <2> HIDE DEF y, c
  <2>2. /\ Count(c) \in 1..UnitBytes
        /\ c < C - 1 => Count(c) = UnitBytes
        /\ c = C - 1 => c * UnitBytes + Count(c) = RowBytes(e)
    BY <2>1, UnitWidth
  <2>3. CASE c < C - 1
    <3>1. c + 1 \in 0..C - 1 /\ k + 1 = (y * C) + (c + 1)
      BY <1>1, <2>1, <2>3
    <3>2. (k + 1) \div C = y /\ (k + 1) % C = c + 1
      <4>1. ((y * C) + (c + 1)) \div C = y /\ ((y * C) + (c + 1)) % C = c + 1
        BY <1>1, <2>1, <3>1, Quotient, Zenon
      <4> QED
        BY <3>1, <4>1
    <3>3. At(k + 1) = y * RowBytes(e) + (c + 1) * UnitBytes /\ At(k) = y * RowBytes(e) + c * UnitBytes
      BY <3>2 DEF y, c
    <3>4. (c + 1) * UnitBytes = c * UnitBytes + UnitBytes /\ c * UnitBytes \in Nat
          /\ y * RowBytes(e) \in Nat
      BY <1>1, <2>1
    <3> QED
      BY <1>1, <2>2, <2>3, <3>3, <3>4 DEF c
  <2>4. CASE c = C - 1
    <3>1. y + 1 \in Nat /\ 0 \in 0..C - 1 /\ k + 1 = ((y + 1) * C) + 0
      BY <1>1, <2>1, <2>4
    <3>2. (k + 1) \div C = y + 1 /\ (k + 1) % C = 0
      <4>1. (((y + 1) * C) + 0) \div C = y + 1 /\ (((y + 1) * C) + 0) % C = 0
        BY <1>1, <3>1, Quotient, Zenon
      <4> QED
        BY <3>1, <4>1
    <3>3. At(k + 1) = (y + 1) * RowBytes(e) + 0 * UnitBytes /\ At(k) = y * RowBytes(e) + c * UnitBytes
      BY <3>2 DEF y, c
    <3>4. (y + 1) * RowBytes(e) = y * RowBytes(e) + RowBytes(e) /\ c * UnitBytes \in Nat
          /\ y * RowBytes(e) \in Nat /\ 0 * UnitBytes = 0
      BY <1>1, <2>1
    <3> QED
      BY <1>1, <2>2, <2>4, <3>3, <3>4 DEF c
  <2> QED
    BY <1>1, <2>1, <2>3, <2>4
<1> HIDE DEF At, Count, n
<1>5. at = Body(at)
  <2>1. ASSUME NEW k \in 0..n PROVE at[k] = Body(at)[k]
    <3>1. CASE k = 0
      BY <1>3, <3>1
    <3>2. CASE k # 0
      <4>1. k - 1 \in Nat /\ k - 1 \in 0..n /\ (k - 1) + 1 = k
        BY <1>2, <3>2
      <4> QED
        BY <1>4, <3>2, <4>1
    <3> QED
      BY <3>1, <3>2
  <2> QED
    BY <2>1
<1>6. start = Body(start)
  <2>1. start = CHOOSE f : f = Body(f)
    BY DEF ScanStart, Count, n
  <2>2. \E f : f = Body(f)
    BY <1>5
  <2> HIDE DEF Body, start, at
  <2> QED
    BY <2>1, <2>2
<1> HIDE DEF start, at
<1>7. \A k \in 0..n : start[k] = At(k)
  <2> DEFINE S == {k \in Nat : k <= n => start[k] = At(k)}
  <2>1. 0 \in S
    BY <1>2, <1>3, <1>6
  <2>2. ASSUME NEW k \in Nat, k \in S PROVE k + 1 \in S
    <3> SUFFICES ASSUME k + 1 <= n PROVE start[k + 1] = At(k + 1)
      OBVIOUS
    <3>1. k + 1 \in 0..n /\ k + 1 # 0 /\ (k + 1) - 1 = k /\ start[k] = At(k)
      BY <1>2, <2>2
    <3>2. start[k + 1] = start[k] + Count(k % C)
      BY <1>6, <3>1
    <3> QED
      BY <1>4, <3>1, <3>2
  <2> HIDE DEF S
  <2>3. \A k \in Nat : k \in S
    BY <2>1, <2>2, Induction
  <2> QED
    BY <1>2, <2>3 DEF S
<1>8. ASSUME NEW y \in 0..e.biHeight - 1, NEW c \in 0..C - 1
      PROVE  start[y * C + c] = y * RowBytes(e) + c * UnitBytes
  <2>1. y * C + c \in 0..n
    <3>1. y * C + c \in 0..e.biHeight * C - 1
      BY <1>1, Grid
    <3> QED
      BY <1>2, <3>1 DEF n
  <2>2. ((y * C) + c) \div C = y /\ ((y * C) + c) % C = c
    <3>1. y \in Nat
      BY <1>1
    <3> QED
      BY <1>1, <3>1, Quotient, Zenon
  <2> QED
    BY <1>7, <2>1, <2>2 DEF At
<1> QED
  BY <1>8 DEF start

\* Byte a of the picture is byte k of unit c of row y.
IsAt(a, y, c, k, e) ==
    /\ y \in 0..e.biHeight - 1 /\ c \in 0..ColumnCount(e) - 1
    /\ k \in 0..ScanPixelByteCount(e, c) - 1
    /\ a = y * RowBytes(e) + (c * UnitBytes + k)

\* Every byte of the picture is in a unit.
LEMMA Place ==
    ASSUME NEW e \in Sizes, NEW a \in 0..LinearSize(e) - 1
    PROVE  \E y, c, k : IsAt(a, y, c, k, e)
<1> DEFINE R == RowBytes(e)
           C == ColumnCount(e)
           y == a \div R
           x == a % R
           c == x \div UnitBytes
           k == x % UnitBytes
<1>1. C \in Nat \ {0} /\ UnitBytes \in Nat \ {0} /\ R \in Nat \ {0} /\ R <= C * UnitBytes
      /\ e.biHeight \in Nat \ {0} /\ a \in Nat /\ a < R * e.biHeight
  BY Geometry DEF LinearSize
<1> HIDE DEF R, C
<1>2. y \in Nat /\ x \in 0..R - 1 /\ a = (y * R) + x
  BY <1>1, Division, Zenon
<1>3. c \in Nat /\ k \in 0..UnitBytes - 1 /\ x = (c * UnitBytes) + k
  <2>1. x \in Nat
    BY <1>1, <1>2
  <2> QED
    BY <1>1, <2>1, Division, Zenon
<1> HIDE DEF y, x, c, k
<1>4. y \in 0..e.biHeight - 1
  <2> SUFFICES ASSUME y >= e.biHeight PROVE FALSE
    BY <1>1, <1>2
  <2>1. e.biHeight * R <= y * R
    BY <1>1, <1>2
  <2> QED
    BY <1>1, <1>2, <2>1
<1>5. c \in 0..C - 1
  <2> SUFFICES ASSUME c >= C PROVE FALSE
    BY <1>1, <1>3
  <2>1. C * UnitBytes <= c * UnitBytes
    BY <1>1, <1>3
  <2>2. c * UnitBytes \in Nat /\ C * UnitBytes \in Nat
    BY <1>1, <1>3
  <2> QED
    BY <1>1, <1>2, <1>3, <2>1, <2>2
<1>6. k \in 0..ScanPixelByteCount(e, c) - 1
  <2>1. /\ ScanPixelByteCount(e, c) \in 1..UnitBytes
        /\ c < C - 1 => ScanPixelByteCount(e, c) = UnitBytes
        /\ c = C - 1 => c * UnitBytes + ScanPixelByteCount(e, c) = R
    BY <1>5, UnitWidth DEF C, R
  <2>2. c * UnitBytes \in Nat
    BY <1>1, <1>3
  <2> QED
    BY <1>1, <1>2, <1>3, <1>5, <2>1, <2>2
<1>7. a = y * R + (c * UnitBytes + k)
  BY <1>2, <1>3
<1>8. IsAt(a, y, c, k, e)
  BY <1>4, <1>5, <1>6, <1>7 DEF IsAt, R, C
<1> QED
  BY <1>8

\* A block by its row and its column.
LEMMA BlockNumber ==
    ASSUME NEW e \in Sizes, NEW row \in 0..RowCount(e) - 1, NEW c \in 0..ColumnCount(e) - 1
    PROVE  /\ row * ColumnCount(e) + c \in 0..RowCount(e) * ColumnCount(e) - 1
           /\ (row * ColumnCount(e) + c) \div ColumnCount(e) = row
           /\ (row * ColumnCount(e) + c) % ColumnCount(e) = c
<1> DEFINE C == ColumnCount(e)
           N == RowCount(e)
<1>1. C \in Nat \ {0} /\ N \in Nat \ {0} /\ row \in Nat /\ c \in Nat
  BY Geometry
<1> HIDE DEF C, N
<1>4. row * C + c \in 0..N * C - 1
  BY <1>1, Grid DEF C, N
<1>5. ((row * C) + c) \div C = row /\ ((row * C) + c) % C = c
  <2>1. c \in 0..C - 1
    BY DEF C
  <2> QED
    BY <1>1, <2>1, Quotient, Zenon
<1> QED
  BY <1>4, <1>5 DEF C, N

\* The row of blocks that a row of pixels is in.
LEMMA RowOfBlocks ==
    ASSUME NEW e \in Sizes, NEW y \in 0..e.biHeight - 1
    PROVE  /\ y \div SCAN_MODIFY_RECT_UNIT \in 0..RowCount(e) - 1
           /\ (y \div SCAN_MODIFY_RECT_UNIT) * SCAN_MODIFY_RECT_UNIT <= y
           /\ y < (y \div SCAN_MODIFY_RECT_UNIT) * SCAN_MODIFY_RECT_UNIT + SCAN_MODIFY_RECT_UNIT
<1> DEFINE U == SCAN_MODIFY_RECT_UNIT
           N == RowCount(e)
           row == y \div U
<1>1. N \in Nat \ {0} /\ U \in Nat \ {0} /\ e.biHeight \in Nat \ {0} /\ e.biHeight <= N * U
      /\ y \in Nat /\ y < e.biHeight
  BY Geometry, PictureAssumption
<1> HIDE DEF U, N
<1>2. row \in Nat /\ y % U \in 0..U - 1 /\ y = (row * U) + (y % U)
  BY <1>1, Division, Zenon
<1> HIDE DEF row
<1>3. row * U \in Nat /\ row * U <= y /\ y < row * U + U
  BY <1>1, <1>2
<1>4. row \in 0..N - 1
  <2> SUFFICES ASSUME row >= N PROVE FALSE
    BY <1>1, <1>2
  <2>1. N * U <= row * U
    BY <1>1, <1>2
  <2>2. N * U \in Nat
    BY <1>1
  <2> QED
    BY <1>1, <1>3, <2>1, <2>2
<1> QED
  BY <1>3, <1>4 DEF U, N, row

\* The number of the block that unit k of the scan is in.
BlockOfUnit(k, e) ==
    ((k \div ColumnCount(e)) \div SCAN_MODIFY_RECT_UNIT) * ColumnCount(e) + (k % ColumnCount(e))

\* What GetModifiedBlocks finds are blocks of the screen.
LEMMA ModifiedAreBlocks ==
    ASSUME NEW e \in Sizes, NEW new, NEW last
    PROVE  /\ GetModifiedBlocks(new, last, e) \subseteq 0..RowCount(e) * ColumnCount(e) - 1
           /\ IsFiniteSet(GetModifiedBlocks(new, last, e))
<1> DEFINE C == ColumnCount(e)
           H == e.biHeight
           found == GetModifiedBlocks(new, last, e)
           blocks == 0..RowCount(e) * C - 1
<1>1. C \in Nat \ {0} /\ H \in Nat \ {0} /\ RowCount(e) \in Nat \ {0}
  BY Geometry
<1>2. \A b \in found : \E k \in 0..H * C - 1 : b = BlockOfUnit(k, e)
  BY DEF GetModifiedBlocks, BlockOfUnit
<1>3. ASSUME NEW k \in 0..H * C - 1 PROVE BlockOfUnit(k, e) \in blocks
  <2> DEFINE y == k \div C
             c == k % C
  <2>1. k \in Nat /\ k < H * C
    BY <1>1
  <2>2. y \in Nat /\ c \in 0..C - 1 /\ k = (y * C) + c
    BY <1>1, <2>1, Division, Zenon
  <2> HIDE DEF y, c
  <2>3. y \in 0..H - 1
    <3> SUFFICES ASSUME y >= H PROVE FALSE
      BY <1>1, <2>2
    <3>1. H * C <= y * C /\ y * C \in Nat /\ H * C \in Nat
      BY <1>1, <2>2
    <3> QED
      BY <1>1, <2>1, <2>2, <3>1
  <2>4. y \div SCAN_MODIFY_RECT_UNIT \in 0..RowCount(e) - 1
    BY <2>3, RowOfBlocks
  <2>5. (y \div SCAN_MODIFY_RECT_UNIT) * C + c \in blocks
    BY <2>2, <2>4, BlockNumber
  <2> QED
    BY <2>5 DEF BlockOfUnit, y, c
<1> HIDE DEF found
<1>4. found \subseteq blocks
  BY <1>2, <1>3
<1>5. IsFiniteSet(blocks)
  <2>1. RowCount(e) * C - 1 \in Int /\ 0 \in Int
    BY <1>1
  <2> QED
    BY <2>1, FS_Interval
<1> HIDE DEF blocks
<1>6. IsFiniteSet(found)
  BY <1>4, <1>5, FS_Subset
<1> QED
  BY <1>4, <1>6 DEF found, blocks

\* A byte that has changed has its block found.
LEMMA ModifiedIsFound ==
    ASSUME NEW e \in Sizes, NEW new, NEW last, NEW a, NEW y, NEW c, NEW k,
           IsAt(a, y, c, k, e), new[a] # last[a]
    PROVE  (y \div SCAN_MODIFY_RECT_UNIT) * ColumnCount(e) + c \in GetModifiedBlocks(new, last, e)
<1> DEFINE C == ColumnCount(e)
           u == y * C + c
           start == ScanStart(e)
           Differs(j) == \E i \in 0..ScanPixelByteCount(e, j % C) - 1 :
                           new[start[j] + i] # last[start[j] + i]
           units == {j \in 0..e.biHeight * C - 1 : Differs(j)}
<1>1. C \in Nat \ {0} /\ e.biHeight \in Nat \ {0} /\ RowBytes(e) \in Nat /\ UnitBytes \in Nat
  BY Geometry
<1>2. /\ y \in 0..e.biHeight - 1 /\ c \in 0..C - 1 /\ y \in Nat /\ c \in Nat
      /\ k \in 0..ScanPixelByteCount(e, c) - 1 /\ k \in Int
      /\ a = y * RowBytes(e) + (c * UnitBytes + k)
  BY DEF IsAt
<1>3. u \div C = y /\ u % C = c
  <2>1. ((y * C) + c) \div C = y /\ ((y * C) + c) % C = c
    BY <1>1, <1>2, Quotient, Zenon
  <2> QED
    BY <2>1
<1>4. u \in 0..e.biHeight * C - 1
  BY <1>1, <1>2, Grid
<1>5. start[u] = y * RowBytes(e) + c * UnitBytes
  BY <1>2, ScanStarts
<1>6. y * RowBytes(e) \in Nat /\ c * UnitBytes \in Nat
  BY <1>1, <1>2
<1>7. start[u] + k = a
  BY <1>2, <1>5, <1>6
<1> HIDE DEF start, u
<1>8. Differs(u)
  BY <1>2, <1>3, <1>7
<1> HIDE DEF Differs
<1>9. u \in units
  BY <1>4, <1>8
<1>10. GetModifiedBlocks(new, last, e) = {BlockOfUnit(j, e) : j \in units}
  BY DEF GetModifiedBlocks, BlockOfUnit, Differs, start
<1>11. BlockOfUnit(u, e) = (y \div SCAN_MODIFY_RECT_UNIT) * C + c
  BY <1>3 DEF BlockOfUnit
<1> HIDE DEF units
<1> QED
  BY <1>9, <1>10, <1>11

\* The rectangle of a block: as many bytes wide as its unit, no higher than a block.
LEMMA Rectangle ==
    ASSUME NEW e \in Sizes, NEW row \in 0..RowCount(e) - 1, NEW c \in 0..ColumnCount(e) - 1,
           NEW rc, rc = OneModified(row * ColumnCount(e) + c, e)
    PROVE  /\ rc.left * PixelBytes = c * UnitBytes /\ rc.top = row * SCAN_MODIFY_RECT_UNIT
           /\ rc.width * PixelBytes = ScanPixelByteCount(e, c)
           /\ rc.height \in 1..SCAN_MODIFY_RECT_UNIT
           /\ row < RowCount(e) - 1 => rc.height = SCAN_MODIFY_RECT_UNIT
           /\ row = RowCount(e) - 1 => rc.top + rc.height = e.biHeight
<1> DEFINE U == SCAN_MODIFY_RECT_UNIT
           C == ColumnCount(e)
           N == RowCount(e)
           b == row * C + c
<1>1. C \in Nat \ {0} /\ N \in Nat \ {0} /\ U \in Nat \ {0} /\ PixelBytes \in Nat \ {0}
      /\ e.biWidth \in Nat /\ e.biHeight \in Nat /\ row \in Nat /\ c \in Nat
      /\ row <= N - 1 /\ c <= C - 1
      /\ (N - 1) * U < e.biHeight /\ e.biHeight <= N * U
  BY Geometry, PictureAssumption
<1>2. b \div C = row /\ b % C = c
  BY BlockNumber
<1> HIDE DEF b
<1>3. rc = [left |-> c * U, top |-> row * U,
            width |-> (IF c = C - 1 THEN e.biWidth ELSE c * U + U) - c * U,
            height |-> (IF row = N - 1 THEN e.biHeight ELSE row * U + U) - row * U]
  BY <1>2 DEF OneModified, b
<1>4. c * UnitBytes = (c * U) * PixelBytes /\ UnitBytes = U * PixelBytes
      /\ RowBytes(e) = e.biWidth * PixelBytes
  <2>1. UnitBytes = U * PixelBytes /\ RowBytes(e) = e.biWidth * PixelBytes
    BY DEF UnitBytes, RowBytes
  <2>2. c * (U * PixelBytes) = (c * U) * PixelBytes
    <3>1. c \in Int /\ U \in Int /\ PixelBytes \in Int
      BY <1>1
    <3> QED
      BY <3>1, Distribute, Zenon
  <2> QED
    BY <2>1, <2>2
<1>5. ScanPixelByteCount(e, c) = IF c = C - 1 THEN RowBytes(e) - (C - 1) * UnitBytes ELSE UnitBytes
  BY DEF ScanPixelByteCount
<1>6. rc.width * PixelBytes = ScanPixelByteCount(e, c)
  <2>1. CASE c = C - 1
    <3>1. rc.width = e.biWidth - c * U
      BY <1>3, <2>1
    <3>2. (e.biWidth - c * U) * PixelBytes = e.biWidth * PixelBytes - (c * U) * PixelBytes
      <4>1. c * U \in Int /\ e.biWidth \in Int /\ PixelBytes \in Int
        BY <1>1
      <4> QED
        BY <4>1, Distribute, Zenon
    <3> QED
      BY <1>4, <1>5, <2>1, <3>1, <3>2
  <2>2. CASE c # C - 1
    <3>1. rc.width = U
      <4>1. c * U \in Nat
        BY <1>1
      <4>2. rc.width = (c * U + U) - c * U
        BY <1>3, <2>2
      <4> QED
        BY <1>1, <4>1, <4>2
    <3> QED
      BY <1>4, <1>5, <2>2, <3>1
  <2> QED
    BY <2>1, <2>2
<1>7. /\ rc.height \in 1..U
      /\ row < N - 1 => rc.height = U
      /\ row = N - 1 => rc.top + rc.height = e.biHeight
  <2>1. row * U \in Nat /\ N * U = (N - 1) * U + U /\ (N - 1) * U \in Nat
    BY <1>1
  <2>2. rc.top = row * U /\ rc.height = (IF row = N - 1 THEN e.biHeight ELSE row * U + U) - row * U
    BY <1>3
  <2>3. row = N - 1 => row * U = (N - 1) * U
    OBVIOUS
  <2> QED
    BY <1>1, <2>1, <2>2, <2>3
<1> QED
  BY <1>3, <1>4, <1>6, <1>7

-----------------------------------------------------------------------------
(* The image of the modified blocks and its drawing.                       *)

Blocks(e) == 0..RowCount(e) * ColumnCount(e) - 1

\* A block has a row and a column.
LEMMA RowAndColumn ==
    ASSUME NEW e \in Sizes, NEW b \in Blocks(e)
    PROVE  \E row \in 0..RowCount(e) - 1, c \in 0..ColumnCount(e) - 1 :
              b = row * ColumnCount(e) + c
<1> DEFINE C == ColumnCount(e)
           N == RowCount(e)
           row == b \div C
           c == b % C
<1>1. C \in Nat \ {0} /\ N \in Nat \ {0} /\ b \in Nat /\ b < N * C
  BY Geometry DEF Blocks
<1> HIDE DEF C, N
<1>2. row \in Nat /\ c \in 0..C - 1 /\ b = (row * C) + c
  BY <1>1, Division, Zenon
<1> HIDE DEF row, c
<1>3. row \in 0..N - 1
  <2> SUFFICES ASSUME row >= N PROVE FALSE
    BY <1>1, <1>2
  <2>1. N * C <= row * C /\ row * C \in Nat /\ N * C \in Nat
    BY <1>1, <1>2
  <2> QED
    BY <1>1, <1>2, <2>1
<1> QED
  BY <1>2, <1>3 DEF C, N

\* What OnGetTransferModifyBitmap takes for a byte of block i was put there for it by
\* AsynSendTransterModifyBitmap.
LEMMA ImageByte ==
    ASSUME NEW e \in Sizes, NEW blocks \in Seq(Blocks(e)), NEW buf,
           NEW i \in 1..Len(blocks), NEW rc, rc = OneModified(blocks[i], e),
           NEW j \in 0..rc.height - 1, NEW k \in 0..rc.width * PixelBytes - 1
    PROVE  ModifiedImage(buf, blocks, e)
                [j * ImageRowBytes(Len(blocks)) + ColumnStartPos(i - 1, rc) + k]
           = buf[(rc.top + j) * RowBytes(e) + rc.left * PixelBytes + k]
<1> DEFINE n == Len(blocks)
           U == SCAN_MODIFY_RECT_UNIT
           B == ImageRowBytes(n)
           at == (i - 1) * UnitBytes + k
           p == j * B + at
<1>1. n \in Nat \ {0} /\ i - 1 \in 0..n - 1 /\ U \in Nat \ {0} /\ UnitBytes \in Nat \ {0}
      /\ i - 1 \in Nat /\ i \in Nat
  BY Geometry, PictureAssumption
<1>2. PICK row \in 0..RowCount(e) - 1, c \in 0..ColumnCount(e) - 1 : blocks[i] = row * ColumnCount(e) + c
  <2>1. blocks[i] \in Blocks(e)
    OBVIOUS
  <2> QED
    BY <2>1, RowAndColumn
<1>3. rc.width * PixelBytes \in 1..UnitBytes /\ rc.height \in 1..U
  <2>1. rc.width * PixelBytes = ScanPixelByteCount(e, c) /\ rc.height \in 1..U
    BY <1>2, Rectangle
  <2>2. ScanPixelByteCount(e, c) \in 1..UnitBytes
    BY UnitWidth
  <2> QED
    BY <2>1, <2>2
<1>4. k \in 0..UnitBytes - 1 /\ j \in 0..U - 1 /\ k \in Nat /\ j \in Nat
      /\ k < rc.width * PixelBytes /\ j < rc.height
  BY <1>1, <1>3
<1>5. B = n * UnitBytes /\ B \in Nat \ {0}
  BY <1>1 DEF ImageRowBytes
<1>6. at \in 0..B - 1
  BY <1>1, <1>4, <1>5, Grid
<1>7. at \div UnitBytes = i - 1 /\ at % UnitBytes = k
  <2>1. (((i - 1) * UnitBytes) + k) \div UnitBytes = i - 1 /\ (((i - 1) * UnitBytes) + k) % UnitBytes = k
    BY <1>1, <1>4, Quotient, Zenon
  <2> QED
    BY <2>1
<1>8. j * B + ColumnStartPos(i - 1, rc) + k = p
  <2>1. j * B \in Nat /\ (i - 1) * UnitBytes \in Nat
    BY <1>1, <1>4, <1>5
  <2>2. ColumnStartPos(i - 1, rc) = (i - 1) * UnitBytes
    BY DEF ColumnStartPos
  <2> HIDE DEF B
  <2> QED
    BY <1>4, <2>1, <2>2
<1> HIDE DEF at, B
<1>9. p \in 0..U * B - 1
  BY <1>1, <1>4, <1>5, <1>6, Grid
<1>10. p \div B = j /\ p % B = at
  <2>1. ((j * B) + at) \div B = j /\ ((j * B) + at) % B = at
    BY <1>4, <1>5, <1>6, Quotient, Zenon
  <2> QED
    BY <2>1
<1> HIDE DEF p
<1>11. (at \div UnitBytes) + 1 = i
  BY <1>1, <1>7
<1>12. ModifiedImage(buf, blocks, e)[p] = Clip(buf, rc, j, k, e)
  BY <1>4, <1>7, <1>9, <1>10, <1>11 DEF ModifiedImage, B
<1>13. Clip(buf, rc, j, k, e) = buf[(rc.top + j) * RowBytes(e) + rc.left * PixelBytes + k]
  BY DEF Clip, GetBuffer
<1> QED
  BY <1>8, <1>12, <1>13 DEF B

\* Row j and byte k of block i belong at address a of the picture.
CopiedTo(blocks, i, j, k, a, e) ==
    LET rc == OneModified(blocks[i], e)
    IN  /\ i \in 1..Len(blocks) /\ j \in 0..rc.height - 1 /\ k \in 0..rc.width * PixelBytes - 1
        /\ a = (rc.top + j) * RowBytes(e) + rc.left * PixelBytes + k

\* OnGetTransferModifyBitmap makes the blocks of the image those of the buffer it was made
\* of and leaves the rest of the picture alone.
LEMMA Drawn ==
    ASSUME NEW e \in Sizes, NEW blocks \in Seq(Blocks(e)), NEW buf, NEW view, NEW a \in DOMAIN view
    PROVE  DrawModified(view, blocks, ModifiedImage(buf, blocks, e), e)[a]
           = IF \E i, j, k : CopiedTo(blocks, i, j, k, a, e) THEN buf[a] ELSE view[a]
<1> DEFINE img == ModifiedImage(buf, blocks, e)
           Rc(i) == OneModified(blocks[i], e)
           Copy(i, j, k) == [to   |-> (Rc(i).top + j) * RowBytes(e) + Rc(i).left * PixelBytes + k,
                             from |-> j * ImageRowBytes(Len(blocks)) + ColumnStartPos(i - 1, Rc(i)) + k]
           OfBlock(i) == {Copy(i, j, k) : j \in 0..Rc(i).height - 1, k \in 0..Rc(i).width * PixelBytes - 1}
           Copies == UNION {OfBlock(i) : i \in 1..Len(blocks)}
           source == [b \in {c.to : c \in Copies} |-> (CHOOSE c \in Copies : c.to = b).from]
<1>1. DrawModified(view, blocks, img, e)[a] = IF a \in DOMAIN source THEN img[source[a]] ELSE view[a]
  <2> HIDE DEF img
  <2>1. DrawModified(view, blocks, img, e)
        = [b \in DOMAIN view |-> IF b \in DOMAIN source THEN img[source[b]] ELSE view[b]]
    BY SMT DEF DrawModified
  <2> HIDE DEF source
  <2> QED
    BY <2>1
<1>2. ASSUME NEW c \in Copies
      PROVE  \E i, j, k : CopiedTo(blocks, i, j, k, c.to, e) /\ c = Copy(i, j, k)
  <2> HIDE DEF Copy
  <2>1. PICK i \in 1..Len(blocks) : c \in OfBlock(i)
    OBVIOUS
  <2>2. PICK j \in 0..Rc(i).height - 1, k \in 0..Rc(i).width * PixelBytes - 1 : c = Copy(i, j, k)
    BY <2>1
  <2>3. c.to = (Rc(i).top + j) * RowBytes(e) + Rc(i).left * PixelBytes + k
    BY <2>2 DEF Copy
  <2>4. CopiedTo(blocks, i, j, k, c.to, e)
    BY <2>2, <2>3 DEF CopiedTo
  <2> QED
    BY <2>2, <2>4
<1>3. ASSUME NEW i, NEW j, NEW k, CopiedTo(blocks, i, j, k, a, e)
      PROVE  \E c \in Copies : c.to = a
  <2>1. i \in 1..Len(blocks) /\ j \in 0..Rc(i).height - 1 /\ k \in 0..Rc(i).width * PixelBytes - 1
        /\ a = (Rc(i).top + j) * RowBytes(e) + Rc(i).left * PixelBytes + k
    BY <1>3 DEF CopiedTo
  <2>2. Copy(i, j, k).to = a
    BY <2>1
  <2> HIDE DEF Copy, Rc
  <2>3. Copy(i, j, k) \in OfBlock(i)
    BY <2>1
  <2> HIDE DEF OfBlock
  <2>4. Copy(i, j, k) \in Copies
    BY <2>1, <2>3
  <2> QED
    BY <2>2, <2>4
<1>4. ASSUME NEW c \in Copies, c.to = a PROVE img[c.from] = buf[a]
  <2>1. PICK i, j, k : CopiedTo(blocks, i, j, k, a, e) /\ c = Copy(i, j, k)
    <3> HIDE DEF Copies, Copy, img
    <3> QED
      BY <1>2, <1>4, Zenon
  <2>2. i \in 1..Len(blocks) /\ j \in 0..Rc(i).height - 1 /\ k \in 0..Rc(i).width * PixelBytes - 1
        /\ a = (Rc(i).top + j) * RowBytes(e) + Rc(i).left * PixelBytes + k
    BY <2>1 DEF CopiedTo
  <2>3. c.from = j * ImageRowBytes(Len(blocks)) + ColumnStartPos(i - 1, Rc(i)) + k
    BY <2>1
  <2>4. img[j * ImageRowBytes(Len(blocks)) + ColumnStartPos(i - 1, Rc(i)) + k] = buf[a]
    BY <2>2, ImageByte
  <2> QED
    BY <2>3, <2>4
<1> HIDE DEF Copies, img, Copy, Rc
<1>5. CASE \E i, j, k : CopiedTo(blocks, i, j, k, a, e)
  <2>1. \E c \in Copies : c.to = a
    BY <1>3, <1>5
  <2>2. a \in DOMAIN source
    BY <2>1
  <2> DEFINE c == CHOOSE c \in Copies : c.to = a
  <2>3. source[a] = c.from /\ c \in Copies /\ c.to = a
    BY <2>1, <2>2
  <2> HIDE DEF c, source
  <2>4. img[source[a]] = buf[a]
    BY <1>4, <2>3
  <2> QED
    BY <1>1, <1>5, <2>2, <2>4 DEF img
<1>6. CASE ~\E i, j, k : CopiedTo(blocks, i, j, k, a, e)
  <2>1. a \notin DOMAIN source
    BY <1>2, <1>6
  <2> QED
    BY <1>1, <1>6, <2>1 DEF img
<1> QED
  BY <1>5, <1>6

\* GetModifiedBlocks, ClipBitmapRect, AsynSendTransterModifyBitmap and
\* OnGetTransferModifyBitmap together: for a screen, pixels and blocks of any size and any
\* two captures, the changed blocks make the picture of the last capture, at the viewer,
\* into the whole picture of the new one.
THEOREM AnyPictureIsRestored ==
    ASSUME NEW e \in Sizes, NEW new, NEW last
    PROVE  LET blocks == Ascending(GetModifiedBlocks(new, last, e))
           IN  DrawModified(WholePicture(last, e), blocks, ModifiedImage(new, blocks, e), e)
               = WholePicture(new, e)
<1> DEFINE found == GetModifiedBlocks(new, last, e)
           blocks == Ascending(found)
           view == WholePicture(last, e)
           drawn == DrawModified(view, blocks, ModifiedImage(new, blocks, e), e)
           U == SCAN_MODIFY_RECT_UNIT
           C == ColumnCount(e)
<1>1. found \subseteq Blocks(e) /\ IsFiniteSet(found) /\ found \subseteq Nat
  BY ModifiedAreBlocks DEF Blocks
<1>2. blocks \in Seq(found) /\ ToSet(blocks) = found
  <2> HIDE DEF found
  <2> QED
    BY <1>1, AscendingIsList
<1>3. blocks \in Seq(Blocks(e))
  <2> HIDE DEF found, blocks
  <2> QED
    BY <1>1, <1>2, SeqSubset, Zenon
<1>4. DOMAIN view = 0..LinearSize(e) - 1 /\ \A a \in DOMAIN view : view[a] = last[a]
  BY DEF WholePicture
<1> HIDE DEF found, blocks, view
<1>5. drawn = [a \in DOMAIN view |-> drawn[a]]
  BY DEF DrawModified
<1>6. ASSUME NEW a \in 0..LinearSize(e) - 1 PROVE drawn[a] = new[a]
  <2>1. drawn[a] = IF \E i, j, k : CopiedTo(blocks, i, j, k, a, e) THEN new[a] ELSE last[a]
    <3>1. a \in DOMAIN view /\ view[a] = last[a]
      BY <1>4
    <3>2. drawn[a] = IF \E i, j, k : CopiedTo(blocks, i, j, k, a, e) THEN new[a] ELSE view[a]
      BY <1>3, <3>1, Drawn
    <3> HIDE DEF drawn
    <3> QED
      BY <3>1, <3>2
  <2> SUFFICES ASSUME new[a] # last[a] PROVE \E i, j, k : CopiedTo(blocks, i, j, k, a, e)
    <3> HIDE DEF drawn
    <3> QED
      BY <2>1
  <2>2. PICK y, c, k : IsAt(a, y, c, k, e)
    BY Place
  <2> DEFINE row == y \div U
             b == row * C + c
             rc == OneModified(b, e)
  <2>3. b \in found
    BY <2>2, ModifiedIsFound DEF found
  <2>4. PICK i \in 1..Len(blocks) : blocks[i] = b
    <3> HIDE DEF b
    <3> QED
      BY <1>2, <2>3 DEF ToSet
  <2>5. y \in 0..e.biHeight - 1 /\ c \in 0..C - 1 /\ k \in 0..ScanPixelByteCount(e, c) - 1
        /\ a = y * RowBytes(e) + (c * UnitBytes + k)
    BY <2>2 DEF IsAt
  <2>6. row \in 0..RowCount(e) - 1 /\ row * U <= y /\ y < row * U + U
    BY <2>5, RowOfBlocks
  <2>7. /\ rc.left * PixelBytes = c * UnitBytes /\ rc.top = row * U
        /\ rc.width * PixelBytes = ScanPixelByteCount(e, c)
        /\ rc.height \in 1..U
        /\ row < RowCount(e) - 1 => rc.height = U
        /\ row = RowCount(e) - 1 => rc.top + rc.height = e.biHeight
    BY <2>5, <2>6, Rectangle
  <2>8. RowCount(e) \in Nat /\ e.biHeight \in Nat /\ U \in Nat /\ RowBytes(e) \in Nat /\ UnitBytes \in Nat
    BY Geometry, PictureAssumption
  <2> HIDE DEF row, rc, b
  <2>9. row * U \in Nat /\ row \in Nat /\ y \in Nat /\ c \in Nat
    BY <2>5, <2>6, <2>8
  <2> DEFINE top == row * U
             j == y - top
  <2>10. j \in 0..rc.height - 1 /\ rc.top + j = y
    <3>1. top \in Nat /\ top <= y /\ y < top + U /\ rc.top = top
      BY <2>6, <2>7, <2>9
    <3> HIDE DEF top
    <3>2. y - top >= 0 /\ top + (y - top) = y
      BY <2>9, <3>1
    <3>3. rc.height \in Nat /\ y < top + rc.height
      <4>1. CASE row < RowCount(e) - 1
        BY <2>7, <2>8, <3>1, <4>1
      <4>2. CASE row = RowCount(e) - 1
        <5>1. top + rc.height = e.biHeight
          BY <2>7, <3>1, <4>2
        <5>2. rc.height \in Nat /\ y < e.biHeight
          BY <2>5, <2>7, <2>8
        <5> QED
          BY <5>1, <5>2
      <4> QED
        BY <2>6, <2>8, <4>1, <4>2
    <3> QED
      BY <2>9, <3>1, <3>2, <3>3
  <2>11. k \in 0..rc.width * PixelBytes - 1
    BY <2>5, <2>7
  <2>12. (rc.top + j) * RowBytes(e) + rc.left * PixelBytes + k = a
    <3>1. y * RowBytes(e) \in Nat /\ c * UnitBytes \in Nat /\ k \in Int
      BY <2>5, <2>8, <2>9
    <3>2. (rc.top + j) * RowBytes(e) + rc.left * PixelBytes + k
          = y * RowBytes(e) + c * UnitBytes + k
      BY <2>7, <2>10
    <3> QED
      BY <2>5, <3>1, <3>2
  <2> HIDE DEF j
  <2>13. CopiedTo(blocks, i, j, k, a, e)
    BY <2>4, <2>10, <2>11, <2>12 DEF CopiedTo, rc
  <2> QED
    BY <2>13
<1> HIDE DEF drawn
<1>7. drawn = WholePicture(new, e)
  BY <1>4, <1>5, <1>6 DEF WholePicture
<1> QED
  BY <1>7 DEF drawn, view, blocks, found

\* A row of a DIB has room for the pixels.
LEMMA StrideIsEnough ==
    ASSUME NEW e \in Sizes
    PROVE  /\ Stride(e) \in Nat /\ RowBytes(e) <= Stride(e)
           /\ LinearSize(e) \in Nat /\ SizeImage(e) \in Nat /\ LinearSize(e) <= SizeImage(e)
<1> DEFINE R == RowBytes(e)
           A == RowAlign
           q == (R + A - 1) \div A
<1>1. R \in Nat \ {0} /\ A \in Nat \ {0} /\ e.biHeight \in Nat \ {0}
  BY Geometry, PictureAssumption
<1> HIDE DEF R, A
<1>2. q \in Nat /\ (R + A - 1) % A \in 0..A - 1 /\ R + A - 1 = (q * A) + ((R + A - 1) % A)
  <2>1. R + A - 1 \in Nat
    BY <1>1
  <2> QED
    BY <1>1, <2>1, Division, Zenon
<1>3. Stride(e) = q * A
  BY DEF Stride, R, A
<1> HIDE DEF q
<1>4. q * A \in Nat /\ R <= q * A
  BY <1>1, <1>2
<1>5. LinearSize(e) = R * e.biHeight /\ SizeImage(e) = Stride(e) * e.biHeight
  BY DEF LinearSize, SizeImage, R
<1>6. R * e.biHeight <= (q * A) * e.biHeight /\ R * e.biHeight \in Nat /\ (q * A) * e.biHeight \in Nat
  <2> DEFINE s == q * A
  <2>1. s \in Nat /\ R <= s
    BY <1>4
  <2> HIDE DEF s
  <2>2. R * e.biHeight <= s * e.biHeight /\ R * e.biHeight \in Nat /\ s * e.biHeight \in Nat
    BY <1>1, <2>1
  <2> QED
    BY <2>2 DEF s
<1> QED
  BY <1>3, <1>4, <1>5, <1>6 DEF R

-----------------------------------------------------------------------------
(* The properties that the run checks for small pictures.                  *)

\* The screen has pixels, and keeps its size.
SizeInv == d \in Sizes \cup {Null}

LEMMA SizeHolds == MCSpec => []SizeInv
<1>1. MCInit => SizeInv
  <2>1. Dimensions(1..MaxWidth, 1..MaxHeight) \subseteq Sizes
    BY MCCaptureAssumption DEF Sizes, Dimensions
  <2> QED
    BY <2>1 DEF MCInit, SizeInv
<1>2. SizeInv /\ [MCNext]_<<vars, d, touched>> => SizeInv'
  BY DEF SizeInv, MCNext, Touch
<1> QED
  BY <1>1, <1>2, PTL DEF MCSpec

LEMMA ViewedIsWhole ==
    ASSUME d \in Sizes
    PROVE  Viewed = WholePicture(New, d)
BY AnyPictureIsRestored DEF Viewed, Modified

\* After the changed blocks the viewer has what a whole picture would have brought:
\* BlocksRestorePicture, for screens, pixels and blocks of any size.
THEOREM PictureIsRestored == MCSpec => []BlocksRestorePicture
<1>1. SizeInv => BlocksRestorePicture
  BY ViewedIsWhole DEF SizeInv, BlocksRestorePicture
<1> QED
  BY <1>1, SizeHolds, PTL

\* A row of the screen that lies within the bytes the viewer was sent is shown as it was
\* captured, although the program takes rows to be unpadded: ShownIsCaptured, for screens
\* of any size.
THEOREM RowsAreShown == MCSpec => []ShownIsCaptured
<1>1. ASSUME d \in Sizes PROVE ShownIsCaptured
  <2> DEFINE R == RowBytes(d)
             D == (0..d.biHeight - 1) \X (0..R - 1)
  <2>1. Viewed = WholePicture(New, d)
    BY <1>1, ViewedIsWhole
  <2>2. DOMAIN Viewed = 0..LinearSize(d) - 1 /\ DOMAIN New = 0..SizeImage(d) - 1
        /\ \A a \in DOMAIN Viewed : Viewed[a] = New[a]
    BY <2>1 DEF WholePicture, New, Capture
  <2>3. /\ Stride(d) \in Nat /\ R \in Nat \ {0} /\ d.biHeight \in Nat \ {0}
        /\ LinearSize(d) \in Nat /\ SizeImage(d) \in Nat /\ LinearSize(d) <= SizeImage(d)
    BY <1>1, Geometry, StrideIsEnough
  <2>4. ASSUME NEW yk \in D
        PROVE  Shown(Viewed, d)[yk] = IF yk[1] * Stride(d) + yk[2] < LinearSize(d)
                                      THEN Shown(New, d)[yk] ELSE Outside
    <3> DEFINE a == yk[1] * Stride(d) + yk[2]
    <3>1. yk[1] \in Nat /\ yk[2] \in Nat
      BY <2>3
    <3>2. a \in Nat
      BY <2>3, <3>1
    <3> HIDE DEF R
    <3>3. Shown(Viewed, d)[yk] = IF a \in DOMAIN Viewed THEN Viewed[a] ELSE Outside
      BY DEF Shown, R
    <3>4. Shown(New, d)[yk] = IF a \in DOMAIN New THEN New[a] ELSE Outside
      BY DEF Shown, R
    <3> HIDE DEF a
    <3>5. CASE a < LinearSize(d)
      <4>1. a \in DOMAIN Viewed /\ a \in DOMAIN New
        BY <2>2, <2>3, <3>2, <3>5
      <4> QED
        BY <2>2, <3>3, <3>4, <3>5, <4>1 DEF a
    <3>6. CASE ~(a < LinearSize(d))
      <4>1. a \notin DOMAIN Viewed
        BY <2>2, <2>3, <3>2, <3>6
      <4> QED
        BY <3>3, <3>6, <4>1 DEF a
    <3> QED
      BY <3>5, <3>6
  <2>5. DOMAIN Shown(Viewed, d) = D
    BY DEF Shown
  <2> QED
    BY <2>4, <2>5 DEF ShownIsCaptured
<1>2. SizeInv => ShownIsCaptured
  BY <1>1 DEF SizeInv, ShownIsCaptured
<1> QED
  BY <1>2, SizeHolds, PTL

-----------------------------------------------------------------------------
(* OnScreenModified with the lists of a screen of any size.                *)

\* A list that OnScreenModified can have made.
LEMMA ListsAre ==
    ASSUME NEW cap \in Nat, NEW old \in Lists(cap)
    PROVE  old \in Seq(Nat) /\ Len(old) \in 0..cap /\ IsAscending(old)
<1>1. PICK n \in 0..cap : old \in [1..n -> 0..cap - 1]
  BY DEF Lists
<1>2. n \in Nat /\ 0..cap - 1 \subseteq Nat
  OBVIOUS
<1>3. old \in [1..n -> Nat]
  BY <1>1, <1>2
<1>4. old \in Seq(Nat) /\ Len(old) = n
  BY <1>2, <1>3
<1>5. \A i \in 1..Len(old) - 1 : old[i] <= old[i + 1]
  BY DEF Lists
<1>6. IsAscending(old)
  BY <1>4, <1>5, Neighbours
<1> QED
  BY <1>1, <1>4, <1>6

\* The list of a connection is both lists sorted into one, as far as its array goes:
\* MergeIsSortedUnion, for screens and blocks of any size and any list.
THEOREM ListIsSortedUnion == MCSpec => []MergeIsSortedUnion
<1>1. ASSUME d \in Sizes PROVE MergeIsSortedUnion
  <2> DEFINE cap == RowCount(d) * ColumnCount(d)
             found == GetModifiedBlocks(New, Old, d)
             new == Ascending(found)
  <2>1. cap \in Nat
    BY <1>1, Geometry
  <2>2. found \subseteq 0..cap - 1 /\ IsFiniteSet(found)
    BY <1>1, ModifiedAreBlocks
  <2>3. Modified = new
    BY DEF Modified
  <2> HIDE DEF cap, found
  <2>4. /\ new \in Seq(found) /\ Len(new) = Cardinality(found)
        /\ \A i, j \in 1..Cardinality(found) : i < j => new[i] < new[j]
    <3>1. found \subseteq Nat
      BY <2>2
    <3> QED
      BY <2>2, <3>1, AscendingIsList
  <2> HIDE DEF new
  <2>5. new \in Seq(Nat)
    <3>1. found \subseteq Nat
      BY <2>2
    <3> QED
      BY <2>4, <3>1, SeqSubset, Zenon
  <2>6. IsAscending(new)
    <3>1. \A i \in 1..Len(new) : new[i] \in Nat
      BY <2>5
    <3> QED
      BY <2>4, <3>1 DEF IsAscending
  <2>7. Len(new) \in Nat /\ Len(new) <= cap
    <3>1. IsFiniteSet(0..cap - 1) /\ Cardinality(0..cap - 1) = IF 0 > cap - 1 THEN 0 ELSE (cap - 1) - 0 + 1
      <4>1. 0 \in Int /\ cap - 1 \in Int
        BY <2>1
      <4> QED
        BY <4>1, FS_Interval
    <3>2. Cardinality(found) <= Cardinality(0..cap - 1)
      BY <2>2, <3>1, FS_Subset
    <3>3. Len(new) \in Nat
      BY <2>5
    <3> QED
      BY <2>1, <2>4, <3>1, <3>2, <3>3
  <2>8. ASSUME NEW old \in Lists(cap), NEW merged, merged = AddModifiedBlocks(old, new, cap)
        PROVE  /\ IsAscending(merged)
               /\ Len(merged) = Shorter(cap, Len(old) + Len(new))
               /\ \A b \in 0..cap - 1 :
                     Cardinality(UpTo(merged, b))
                        = Shorter(cap, Cardinality(UpTo(old, b)) + Cardinality(UpTo(new, b)))
    <3>1. old \in Seq(Nat) /\ Len(old) \in Nat /\ IsAscending(old)
      BY <2>1, ListsAre
    <3>2. CASE old = <<>>
      <4>1. merged = new /\ Len(old) = 0
        BY <2>8, <3>2 DEF AddModifiedBlocks
      <4>2. Len(merged) = Shorter(cap, Len(old) + Len(new))
        BY <2>1, <2>7, <4>1 DEF Shorter
      <4>3. ASSUME NEW b \in 0..cap - 1
            PROVE  Cardinality(UpTo(new, b))
                      = Shorter(cap, Cardinality(UpTo(old, b)) + Cardinality(UpTo(new, b)))
        <5>1. UpTo(old, b) = {}
          BY <4>1 DEF UpTo
        <5>2. Cardinality(UpTo(old, b)) = 0
          BY <5>1, FS_EmptySet
        <5>3. PICK x \in 0..Len(new) : Cardinality(UpTo(new, b)) = x
          BY <2>1, <2>5, <2>6, FirstEntries
        <5> QED
          BY <2>1, <2>7, <5>2, <5>3 DEF Shorter
      <4> QED
        BY <2>6, <4>1, <4>2, <4>3
    <3>3. CASE old # <<>>
      <4>1. merged = MergeSteps(old, new, cap)
        BY <2>8, <3>3 DEF AddModifiedBlocks, MergeModifiedBlocks
      <4>2. IsAscending(merged)
        BY <2>1, <2>5, <2>6, <3>1, <4>1, MergeIsAscending
      <4>3. Len(merged) = Shorter(cap, Len(old) + Len(new))
        <5>1. Nat \subseteq Nat
          OBVIOUS
        <5> QED
          BY <2>1, <2>5, <3>1, <4>1, <5>1, MergeType
      <4>4. ASSUME NEW b \in 0..cap - 1
            PROVE  Cardinality(UpTo(merged, b))
                      = Shorter(cap, Cardinality(UpTo(old, b)) + Cardinality(UpTo(new, b)))
        <5>1. b \in Nat
          BY <2>1
        <5> QED
          BY <2>1, <2>5, <2>6, <3>1, <4>1, <5>1, MergeCountsAll
      <4> QED
        BY <4>2, <4>3, <4>4
    <3> QED
      BY <3>2, <3>3
  <2>9. \A old \in Lists(cap) :
           LET merged == AddModifiedBlocks(old, new, cap)
           IN  /\ IsAscending(merged)
               /\ Len(merged) = Shorter(cap, Len(old) + Len(new))
               /\ \A b \in 0..cap - 1 :
                     Cardinality(UpTo(merged, b))
                        = Shorter(cap, Cardinality(UpTo(old, b)) + Cardinality(UpTo(new, b)))
    BY <2>8
  <2> QED
    BY <2>3, <2>9 DEF MergeIsSortedUnion, cap
<1>2. SizeInv => MergeIsSortedUnion
  BY <1>1 DEF SizeInv, MergeIsSortedUnion
<1> QED
  BY <1>2, SizeHolds, PTL
=============================================================================
