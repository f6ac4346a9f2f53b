----------------------------- MODULE RDProtocol -----------------------------
(***************************************************************************)
(* The vocabulary of the session protocol between RemoteDesktopClient and  *)
(* RemoteDesktopServer (common/def.h): command codes, connection states,   *)
(* and the two tables that decide which command is acceptable in which     *)
(* state.  Codes and states keep their numbers, because both tables        *)
(* compare them with < and >.                                              *)
(***************************************************************************)
EXTENDS Naturals

\* RD_CMD_CODE
RDCC_INVALID                  == 0
RDCC_PROTOCOL_VERSION         == 272   \* 0x110
RDCC_LOGON                    == 288   \* 0x120
RDCC_LOGON_RESULT             == 289   \* 0x121
RDCC_COMPRESS_MODE            == 304   \* 0x130
RDCC_TRANSFER_BITMAP          == 320   \* 0x140
RDCC_TRANSFER_MODIFY_BITMAP   == 321   \* 0x141
RDCC_TRANSFER_MOUSE_EVENT     == 322   \* 0x142
RDCC_TRANSFER_KEYBOARD_EVENT  == 323   \* 0x143
RDCC_TRANSFER_CLIPBOARD       == 324   \* 0x144
RDCC_TRANSFER_FILE            == 325   \* 0x145
RDCC_TRANSFER_DIRECTORY       == 326   \* 0x146
RDCC_TRANSFER_BITMAP_RESPONSE == 327   \* 0x147
RDCC_DISCONNECT               == 512   \* 0x200

\* RD_CONNECTION_STATE
RDCS_INVALID          == 0
RDCS_CONNECTED        == 256           \* 0x100
RDCS_PROTOCOL_VERSION == 272           \* 0x110
RDCS_LOGON            == 288           \* 0x120
RDCS_LOGON_RESULT     == 289           \* 0x121
RDCS_COMPRESS_MODE    == 304           \* 0x130
RDCS_TRANSFER         == 320           \* 0x140
RDCS_DISCONNECTED     == 512           \* 0x200

ConnectionState ==
    {RDCS_INVALID, RDCS_CONNECTED, RDCS_PROTOCOL_VERSION, RDCS_LOGON,
     RDCS_LOGON_RESULT, RDCS_COMPRESS_MODE, RDCS_TRANSFER, RDCS_DISCONNECTED}

\* CClientConnection::OnReciveCommand's early return and CheckCmdCodeValid:
\* the commands the server acts on in each state.  The final DISCONNECT test
\* of the source only ever rejects what the table already rejects.
ServerAccepts(state, code) ==
    \/ state = RDCS_CONNECTED        /\ code = RDCC_PROTOCOL_VERSION
    \/ state = RDCS_PROTOCOL_VERSION /\ code = RDCC_LOGON
    \/ state = RDCS_LOGON            /\ code = RDCC_COMPRESS_MODE
    \/ state = RDCS_COMPRESS_MODE    /\ code = RDCC_TRANSFER_BITMAP
    \/ state = RDCS_TRANSFER /\ code >= RDCC_TRANSFER_BITMAP /\ code <= RDCC_DISCONNECT

\* A faulty ClientAccepts: images of modified blocks are taken for unknown.
ClientAcceptsWholePictures(state, code) ==
    \/ state = RDCS_LOGON         /\ code = RDCC_LOGON_RESULT
    \/ state = RDCS_COMPRESS_MODE /\ code = RDCC_TRANSFER_BITMAP
    \/ state = RDCS_TRANSFER /\ code = RDCC_TRANSFER_BITMAP

\* CRemoteClient::OnReciveCommand's early return and CheckCmdCodeValid.
ClientAccepts(state, code) ==
    \/ state = RDCS_LOGON         /\ code = RDCC_LOGON_RESULT
    \/ state = RDCS_LOGON_RESULT  /\ code = RDCC_COMPRESS_MODE
    \/ state = RDCS_COMPRESS_MODE /\ code = RDCC_TRANSFER_BITMAP
    \/ state = RDCS_TRANSFER /\ code >= RDCC_TRANSFER_BITMAP /\ code <= RDCC_DISCONNECT
    \/ code = RDCC_DISCONNECT /\ state >= RDCS_CONNECTED /\ state # RDCS_DISCONNECTED
=============================================================================
