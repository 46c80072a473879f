--------------------------- MODULE HelperChannel ---------------------------
(***************************************************************************)
(* The library and its privileged helper: drmtap_helper_grab and           *)
(* drmtap_helper_get_cursor (src/src/privilege_helper.c) on one side, the  *)
(* command loop of src/helper/drmtap-helper.c on the other, and between    *)
(* them the socket pair read and written by src/src/wire.h.                *)
(*                                                                         *)
(* A reply is a sequence of parts, metadata first and perhaps a payload,   *)
(* each tagged with the call whose command it answers.  The wire carries   *)
(* no such tag: nothing but the order of the bytes tells the client which  *)
(* command a reply belongs to, and that order is what the properties are   *)
(* about.  The helper may die between any two steps.                       *)
(***************************************************************************)
EXTENDS Naturals, Sequences

CONSTANTS
  Binaries,    \* the helpers that may be installed: "new", "old" (no CMD_GET_CURSOR2)
  Signals,     \* whether signal handlers without SA_RESTART interrupt the client's recv
  NoMemory,    \* whether the malloc for the cursor image may fail
  MaxCalls     \* bound: calls made in one behaviour

ASSUME ChannelAssumption == /\ Binaries \subseteq {"old", "new"}
                            /\ Signals \subseteq BOOLEAN
                            /\ NoMemory \subseteq BOOLEAN
                            /\ MaxCalls \in Nat

VARIABLES
  host,       \* the installed helper, and what may befall the client
  cpc,        \* where the client's call stands
  calls,      \* calls begun so far; tags the commands
  kind,       \* what the last call asks for
  result,     \* how it ended
  noCursor2,  \* ctx->helper_no_cursor2
  cursor2ok,  \* ctx->helper_cursor2_ok
  retried,    \* ctx->helper_cursor2_retried
  h,          \* the helper: "none" (helper_fd < 0), "up", or "dead" and not reaped
  sending,    \* parts of its current reply it has not written yet
  toHelper,   \* commands in the socket
  toClient,   \* parts in the socket
  torn,       \* the client has misread a part: the bytes that follow mean nothing
  mishap,     \* during the last call a helper died or could not be spawned
  deaths,     \* helpers that died in this context, counted to 2
  spawned     \* helpers spawned by the last call, counted to SpawnCap

latch   == <<noCursor2, cursor2ok, retried>>
pipe    == <<h, sending, toHelper, toClient, torn>>
history == <<mishap, deaths, spawned>>
vars    == <<host, cpc, calls, kind, result, latch, pipe, history>>

SpawnCap == 7

Hosts == [binary : Binaries, signals : Signals, nomem : NoMemory]

(* Nothing on the client's side makes it leave a reply unread.             *)
Steady == ~host.signals /\ ~host.nomem

-----------------------------------------------------------------------------
(* Commands and replies.                                                   *)

(* const int extended = !ctx->helper_no_cursor2                            *)
Extended == kind = "cursor" /\ ~noCursor2

Command == [n |-> calls, kind |-> IF Extended THEN "cursor2" ELSE kind]

(* What grab_and_send and cursor_and_send may send: an error or a DMA-BUF  *)
(* descriptor rides on the metadata alone; pixels follow theirs, and may   *)
(* be more than the client expects when the mode changed meanwhile; a      *)
(* cursor is hidden or comes with its image.                               *)
Replies(k) == IF k = "grab"
              THEN {<<"error">>, <<"dmabuf">>, <<"pixels", "payload">>, <<"large", "payload">>}
              ELSE {<<"none">>, <<"image", "payload">>}

Return(r, n) == /\ cpc' = "idle"
                /\ result' = [ret |-> r, of |-> n, kind |-> kind]

Fail(r) == Return(r, 0)

-----------------------------------------------------------------------------
(* Helper lifecycle.                                                       *)

(* What drmtap_helper_stop and drmtap_helper_spawn leave behind: no helper *)
(* and no channel, or a fresh helper on an empty one.  A stop kills the    *)
(* old process, so nothing it had in flight survives.                      *)
Channel(state) == /\ h' = state
                  /\ sending' = <<>>
                  /\ toHelper' = <<>>
                  /\ toClient' = <<>>
                  /\ torn' = FALSE

Spawn == /\ Channel("up")
         /\ spawned' = IF spawned < SpawnCap THEN spawned + 1 ELSE spawned
         /\ UNCHANGED <<mishap, deaths>>

(* find_helper, socketpair or fork failed.                                 *)
SpawnFailed == /\ Channel("none")
               /\ mishap' = TRUE
               /\ UNCHANGED <<deaths, spawned>>

(* drmtap_helper_stop and nothing else.                                    *)
Stop == Channel("none") /\ UNCHANGED history

-----------------------------------------------------------------------------
(* The client.                                                             *)

Begin(k) ==
  /\ cpc = "idle"
  /\ ~torn
  /\ calls < MaxCalls
  /\ cpc' = "connect"
  /\ calls' = calls + 1
  /\ kind' = k
  /\ result' = [ret |-> "none", of |-> 0, kind |-> "none"]
  /\ mishap' = FALSE
  /\ spawned' = 0
  /\ UNCHANGED <<host, latch, pipe, deaths>>

(* if (ctx->helper_fd < 0) drmtap_helper_spawn(ctx)                        *)
Connect ==
  /\ cpc = "connect"
  /\ \/ h # "none" /\ cpc' = "send" /\ UNCHANGED <<result, pipe, history>>
     \/ h = "none" /\ Spawn /\ cpc' = "send" /\ UNCHANGED result
     \/ h = "none" /\ SpawnFailed /\ Fail("lost")
  /\ UNCHANGED <<host, calls, kind, latch>>

(* A send reaches any live helper.  A dead one makes the first send fail:  *)
(* the helper is replaced and the same command sent once more.             *)
SendCommand ==
  /\ cpc \in {"send", "resend"}
  /\ h = "up"
  /\ toHelper' = Append(toHelper, Command)
  /\ cpc' = "recv"
  /\ UNCHANGED <<host, calls, kind, result, latch, h, sending, toClient, torn, history>>

(* Mutant: a refused send is the end of the call.                          *)
SendRefusedGivesUp ==
  /\ cpc = "send"
  /\ h = "dead"
  /\ Fail("lost")
  /\ UNCHANGED <<host, calls, kind, latch, pipe, history>>

SendRefused ==
  /\ cpc = "send"
  /\ h = "dead"
  /\ \/ Spawn /\ cpc' = "resend" /\ UNCHANGED result
     \/ SpawnFailed /\ Fail("lost")
  /\ UNCHANGED <<host, calls, kind, latch>>

ResendRefused ==
  /\ cpc = "resend"
  /\ h = "dead"
  /\ Fail("lost")
  /\ UNCHANGED <<host, calls, kind, latch, pipe, history>>

(* The next part is the metadata of a reply of the kind the call expects.  *)
Reading(k) == /\ cpc = "recv"
              /\ toClient # <<>>
              /\ Head(toClient).kind = k
              /\ Head(toClient).body # "payload"
              /\ toClient' = Tail(toClient)
              /\ UNCHANGED <<h, sending, toHelper, torn>>

(* Mutant: an image too large for the caller is left in the socket.        *)
RecvGrabUndrained ==
  /\ kind = "grab"
  /\ Reading("grab")
  /\ LET m == Head(toClient) IN
       \/ m.body = "dmabuf" /\ (Return("ok", m.n) \/ Fail("nofd"))
       \/ m.body = "error" /\ Fail("refused")
       \/ m.body = "pixels" /\ cpc' = "payload" /\ UNCHANGED result
       \/ m.body = "large" /\ Fail("nospace")
  /\ UNCHANGED <<host, calls, kind, latch, history>>

(* recv_fd_and_meta and the ladder after it.  A descriptor is lost when    *)
(* the process has no room for it (MSG_CTRUNC), its metadata is not.       *)
RecvGrab ==
  /\ kind = "grab"
  /\ Reading("grab")
  /\ LET m == Head(toClient) IN
       \/ m.body = "dmabuf" /\ (Return("ok", m.n) \/ Fail("nofd"))
       \/ m.body = "error" /\ Fail("refused")
       \/ m.body = "pixels" /\ cpc' = "payload" /\ UNCHANGED result
       \/ m.body = "large" /\ cpc' = "drain" /\ UNCHANGED result
  /\ UNCHANGED <<host, calls, kind, latch, history>>

(* recv_all of a cursor's metadata, then the malloc for its image.         *)
RecvCursor ==
  /\ kind = "cursor"
  /\ Reading(Command.kind)
  /\ cursor2ok' = (cursor2ok \/ Extended)
  /\ LET m == Head(toClient) IN
       \/ m.body = "none" /\ Return("ok", m.n)
       \/ m.body = "image" /\ cpc' = "payload" /\ UNCHANGED result
       \/ m.body = "image" /\ host.nomem /\ Fail("nomem")
  /\ UNCHANGED <<host, calls, kind, noCursor2, retried, history>>

(* Mutant: the death of the helper goes unnoticed.                         *)
EofMissed == FALSE

(* End of file: the helper is gone and the socket is drained.              *)
Eof == h = "dead" /\ toClient = <<>>

(* Mutant: a grab that has waited long enough gives up and keeps the       *)
(* helper.                                                                 *)
GrabTimesOut ==
  /\ cpc = "recv"
  /\ kind = "grab"
  /\ Fail("lost")
  /\ UNCHANGED <<host, calls, kind, latch, pipe, history>>

GrabLost ==
  /\ cpc = "recv"
  /\ kind = "grab"
  /\ Eof
  /\ Fail("lost")
  /\ UNCHANGED <<host, calls, kind, latch, pipe, history>>

(* No cursor metadata.  Unless this helper has answered CMD_GET_CURSOR2    *)
(* before, it may be an old binary: replace it and ask again, the same way *)
(* the first time, with CMD_GET_CURSOR from then on.                       *)
CursorLost ==
  /\ cpc = "recv"
  /\ kind = "cursor"
  /\ Eof
  /\ ~(Extended /\ ~cursor2ok)
  /\ Fail("lost")
  /\ UNCHANGED <<host, calls, kind, latch, pipe, history>>

(* Mutants: the first failure is evidence enough; or none ever is.         *)
CursorRetryEager ==
  /\ cpc = "recv"
  /\ Extended
  /\ ~cursor2ok
  /\ Eof
  /\ Spawn
  /\ cpc' = "connect"
  /\ noCursor2' = TRUE
  /\ UNCHANGED <<host, calls, kind, cursor2ok, retried, result>>

CursorRetryForever ==
  /\ cpc = "recv"
  /\ Extended
  /\ ~cursor2ok
  /\ Eof
  /\ Spawn
  /\ cpc' = "connect"
  /\ UNCHANGED <<host, calls, kind, latch, result>>

CursorRetry ==
  /\ cpc = "recv"
  /\ Extended
  /\ ~cursor2ok
  /\ Eof
  /\ \/ /\ SpawnFailed
        /\ Fail("lost")
        /\ UNCHANGED <<noCursor2, retried>>
     \/ /\ Spawn
        /\ cpc' = "connect"
        /\ IF retried THEN noCursor2' = TRUE /\ UNCHANGED retried
                      ELSE retried' = TRUE /\ UNCHANGED noCursor2
        /\ UNCHANGED result
  /\ UNCHANGED <<host, calls, kind, cursor2ok>>

(* Exactly data_size bytes, into the caller's buffer or nowhere.           *)
RecvPayload ==
  /\ cpc \in {"payload", "drain"}
  /\ toClient # <<>>
  /\ Head(toClient).body = "payload"
  /\ toClient' = Tail(toClient)
  /\ IF cpc = "payload" THEN Return("ok", Head(toClient).n) ELSE Fail("nospace")
  /\ UNCHANGED <<host, calls, kind, latch, h, sending, toHelper, torn, history>>

PayloadLost ==
  /\ cpc = "payload"
  /\ Eof
  /\ Fail("lost")
  /\ UNCHANGED <<host, calls, kind, latch, pipe, history>>

(* A drain that cannot finish stops the helper.                            *)
DrainLost ==
  /\ cpc = "drain"
  /\ Eof
  /\ Stop
  /\ Fail("lost")
  /\ UNCHANGED <<host, calls, kind, latch>>

(* recvmsg in wire_recv_fd and recv in the drain loop take EINTR for a     *)
(* failure; wire_recv_all does not.  The drain stops the helper.           *)
RecvInterrupted ==
  /\ host.signals
  /\ cpc = "recv"
  /\ kind = "grab"
  /\ h = "up" /\ toClient = <<>>
  /\ Fail("interrupted")
  /\ UNCHANGED <<host, calls, kind, latch, pipe, history>>

DrainInterrupted ==
  /\ host.signals
  /\ cpc = "drain"
  /\ h = "up" /\ toClient = <<>>
  /\ Stop
  /\ Fail("interrupted")
  /\ UNCHANGED <<host, calls, kind, latch>>

(* The next part is not what the call expects.  Whatever it makes of it,   *)
(* the bytes that follow mean nothing: no call is modelled on this channel *)
(* any more.                                                               *)
Misread ==
  /\ cpc \in {"recv", "payload", "drain"}
  /\ toClient # <<>>
  /\ LET m == Head(toClient) IN
       IF cpc = "recv" THEN m.body = "payload" \/ m.kind # Command.kind
                       ELSE m.body # "payload"
  /\ torn' = TRUE
  /\ toClient' = Tail(toClient)
  /\ Fail("garbage")
  /\ UNCHANGED <<host, calls, kind, latch, h, sending, toHelper, history>>

(* drmtap_close, and a new context in place of the old.                    *)
Close ==
  /\ cpc = "idle"
  /\ Channel("none")
  /\ noCursor2' = FALSE /\ cursor2ok' = FALSE /\ retried' = FALSE
  /\ deaths' = 0
  /\ UNCHANGED <<host, cpc, calls, kind, result, mishap, spawned>>

-----------------------------------------------------------------------------
(* The helper.                                                             *)

Gone == /\ h' = "dead"
        /\ sending' = <<>>
        /\ toHelper' = <<>>
        /\ UNCHANGED <<toClient, torn>>

(* wire_cmd_valid: an unknown command type closes the connection without a *)
(* reply.                                                                  *)
Rejects(c) == c.kind = "cursor2" /\ host.binary = "old"

Take ==
  /\ h = "up"
  /\ sending = <<>>
  /\ toHelper # <<>>
  /\ LET c == Head(toHelper) IN
       \/ Rejects(c) /\ Gone
       \/ /\ ~Rejects(c)
          /\ toHelper' = Tail(toHelper)
          /\ \E reply \in Replies(c.kind) :
               sending' = [i \in DOMAIN reply |->
                             [n |-> c.n, kind |-> c.kind, body |-> reply[i]]]
          /\ UNCHANGED <<h, toClient, torn>>
  /\ UNCHANGED <<host, cpc, calls, kind, result, latch, history>>

HelperSend ==
  /\ h = "up"
  /\ sending # <<>>
  /\ toClient' = Append(toClient, Head(sending))
  /\ sending' = Tail(sending)
  /\ UNCHANGED <<host, cpc, calls, kind, result, latch, h, toHelper, torn, history>>

(* It dies: before it reaches its loop (a failed exec, a refused device, a *)
(* confinement it cannot install), inside an ioctl, or killed.             *)
HelperDies ==
  /\ h = "up"
  /\ Gone
  /\ mishap' = TRUE
  /\ deaths' = IF deaths < 2 THEN deaths + 1 ELSE deaths
  /\ UNCHANGED <<host, cpc, calls, kind, result, latch, spawned>>

-----------------------------------------------------------------------------
Init ==
  /\ host \in Hosts
  /\ cpc = "idle"
  /\ calls = 0
  /\ kind = "none"
  /\ result = [ret |-> "none", of |-> 0, kind |-> "none"]
  /\ noCursor2 = FALSE /\ cursor2ok = FALSE /\ retried = FALSE
  /\ h = "none" /\ sending = <<>> /\ toHelper = <<>> /\ toClient = <<>> /\ torn = FALSE
  /\ mishap = FALSE /\ deaths = 0 /\ spawned = 0

(* The steps of a call already begun.                                      *)
ClientStep == \/ Connect \/ SendCommand \/ SendRefused \/ ResendRefused
              \/ RecvGrab \/ RecvCursor \/ GrabLost \/ CursorLost \/ CursorRetry
              \/ RecvPayload \/ PayloadLost \/ DrainLost
              \/ RecvInterrupted \/ DrainInterrupted \/ Misread

HelperStep == Take \/ HelperSend

Next == \/ \E k \in {"grab", "cursor"} : Begin(k)
        \/ ClientStep \/ Close
        \/ HelperStep \/ HelperDies

Spec == Init /\ [][Next]_vars

(* The client runs its call, the helper serves its loop: the ioctls they   *)
(* make return.  Nobody has to call, close or die.                         *)
FairSpec == Spec /\ WF_vars(ClientStep) /\ WF_vars(HelperStep)

-----------------------------------------------------------------------------
(* Properties.                                                             *)

(* Between calls a live helper owes nothing and nothing waits in the       *)
(* socket: every return path of a call has read its whole reply, or has    *)
(* torn the channel down.  This is what keeps replies and calls in step.   *)
QuietBetweenCalls ==
  Steady /\ cpc = "idle" => sending = <<>> /\ toHelper = <<>> /\ toClient = <<>>

(* "... so the next grab respawns a clean one instead of reusing a         *)
(* desynchronized socket": a call that succeeds got the answer to its own  *)
(* command.                                                                *)
AnswersOwnCall == result.ret = "ok" => result.of = calls

(* A helper that died between two calls costs the next one nothing, and an *)
(* old binary costs a cursor call nothing: transport errors are reported   *)
(* only when a helper dies or cannot be spawned during the call itself.    *)
LossNeedsMishap == result.ret = "lost" => mishap

(* The legacy command is latched on evidence: a helper of the current      *)
(* binary must die twice, and one that answered is never taken for an old  *)
(* one.                                                                    *)
LatchNeedsEvidence == noCursor2 => /\ host.binary = "old" \/ deaths >= 2
                                   /\ ~cursor2ok

(* The respawns of one call are bounded, each costing 100 ms in            *)
(* drmtap_helper_stop: two helpers for a grab, six for a cursor.           *)
SpawnsBounded == spawned <= IF kind = "cursor" THEN 6 ELSE 2

(* Every call returns, however often helpers die under it.                 *)
CallsReturn == cpc # "idle" ~> cpc = "idle"

(* The abstract service: drmtap_helper_grab and drmtap_helper_get_cursor   *)
(* answer the question they asked or fail, whatever the helper does.  A    *)
(* client that may be interrupted promises nothing (AnswersOwnCall).       *)
Service == INSTANCE HelperService
             WITH calls <- IF Steady THEN calls ELSE 0,
                  busy <- Steady /\ cpc # "idle",
                  asked <- IF Steady THEN kind ELSE "none",
                  answer <- IF Steady
                            THEN [ok |-> result.ret = "ok", of |-> result.of,
                                  kind |-> result.kind]
                            ELSE [ok |-> FALSE, of |-> 0, kind |-> "none"]

(* The channel, with its respawns, retries and drains, implements it.      *)
ServiceSpec == Service!Spec

=============================================================================
