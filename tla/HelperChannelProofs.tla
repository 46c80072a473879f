------------------------ MODULE HelperChannelProofs ------------------------
(***************************************************************************)
(* Proofs about HelperChannel.  The inductive invariant Inv has one part   *)
(* per question: where the parts of a reply may be (InStep, for a client   *)
(* nothing interrupts), where a probe of CMD_GET_CURSOR2 and its answer    *)
(* may be (ProbeInv, for every client), what a helper found dead says      *)
(* (LossInv), what the latch rests on (EvidenceInv), and how many helpers  *)
(* the current call may still spawn (BudgetInv).                           *)
(***************************************************************************)
EXTENDS HelperChannel, SequenceTheorems, TLAPS

-----------------------------------------------------------------------------
(* The inductive invariant.                                                *)

Kinds    == {"grab", "cursor", "cursor2"}
Bodies   == {"error", "dmabuf", "pixels", "large", "none", "image", "payload"}
Commands == [n : Nat, kind : Kinds]
Parts    == [n : Nat, kind : Kinds, body : Bodies]

TypeOK ==
  /\ host \in Hosts
  /\ cpc \in {"idle", "connect", "send", "resend", "recv", "payload", "drain"}
  /\ calls \in Nat
  /\ kind \in {"none", "grab", "cursor"}
  /\ noCursor2 \in BOOLEAN /\ cursor2ok \in BOOLEAN /\ retried \in BOOLEAN
  /\ h \in {"none", "up", "dead"}
  /\ sending \in Seq(Parts)
  /\ toHelper \in Seq(Commands)
  /\ toClient \in Seq(Parts)
  /\ torn \in BOOLEAN /\ mishap \in BOOLEAN
  /\ deaths \in 0 .. 2
  /\ spawned \in 0 .. SpawnCap

(* The socket goes with its helper, and a misread channel ends its call.   *)
SocketInv ==
  /\ h # "up" => sending = <<>> /\ toHelper = <<>>
  /\ h = "none" => toClient = <<>> /\ cpc \in {"idle", "connect"}
  /\ torn => cpc = "idle"
  /\ cpc # "idle" => kind # "none"
  /\ cpc = "resend" => sending = <<>> /\ toHelper = <<>>

(* The metadata that answers CMD_GET_CURSOR2.                              *)
ProbeReply(p) == p.kind = "cursor2" /\ p.body # "payload"

Probed == cpc = "recv" /\ Extended

(* One probe is under way at most, and only in the call that sent it.      *)
ProbeInv ==
  /\ \A i \in 1 .. Len(toClient) : ProbeReply(toClient[i]) => host.binary # "old"
  /\ \A i \in 1 .. Len(sending) : ProbeReply(sending[i]) => host.binary # "old"
  /\ ~torn =>
       /\ \A i \in 1 .. Len(toHelper) :
            toHelper[i].kind = "cursor2" => Probed /\ i = Len(toHelper)
       /\ \A i \in 1 .. Len(sending) :
            ProbeReply(sending[i]) =>
              /\ Probed /\ i = 1
              /\ \A j \in 1 .. Len(toHelper) : toHelper[j].kind # "cursor2"
       /\ \A i \in 1 .. Len(toClient) :
            ProbeReply(toClient[i]) =>
              /\ Probed
              /\ \A j \in 1 .. Len(toHelper) : toHelper[j].kind # "cursor2"
              /\ \A j \in 1 .. Len(sending) : ~ProbeReply(sending[j])
              /\ \A j \in 1 .. Len(toClient) : ProbeReply(toClient[j]) => j = i

(* A helper found dead in a call died in it, or is old and was probed.     *)
LossInv ==
  /\ result.ret = "lost" => mishap
  /\ cpc \in {"resend", "recv", "payload", "drain"} /\ h = "dead" =>
       mishap \/ (Probed /\ host.binary = "old")

EvidenceInv ==
  /\ noCursor2 => (host.binary = "old" \/ deaths >= 2) /\ ~cursor2ok
  /\ cursor2ok => host.binary # "old"
  /\ host.binary # "old" =>
       /\ h = "dead" => deaths >= 1
       /\ retried => deaths >= IF h = "dead" THEN 2 ELSE 1

(* The rounds CursorRetry may still add to a cursor call.                  *)
RoundsLeft == IF kind # "cursor" \/ noCursor2 \/ cursor2ok THEN 0
              ELSE IF retried THEN 1 ELSE 2

Budget == (IF kind = "cursor" THEN 6 ELSE 2) - 2 * RoundsLeft

BudgetInv ==
  /\ SpawnsBounded
  /\ cpc = "connect" /\ h = "none" => spawned = 0
  /\ cpc \in {"connect", "send"} => spawned + 1 <= Budget
  /\ cpc \in {"resend", "recv", "payload", "drain"} => spawned <= Budget

(* The reply to the command of the current call, and what is left of it.   *)
Part(b) == [n |-> calls, kind |-> Command.kind, body |-> b]

Firsts == IF kind = "grab" THEN {"error", "dmabuf", "pixels", "large"}
                           ELSE {"none", "image"}

Long == {"pixels", "large", "image"}

Quiet == sending = <<>> /\ toHelper = <<>> /\ toClient = <<>>

Asked == /\ h = "up"
         /\ sending = <<>> /\ toHelper = <<Command>> /\ toClient = <<>>

PartLeft(b) == /\ toHelper = <<>>
               /\ \/ sending = <<Part(b)>> /\ toClient = <<>>
                  \/ sending = <<>> /\ toClient = <<Part(b)>>
                  \/ h = "dead" /\ sending = <<>> /\ toClient = <<>>

PairLeft(b) == /\ toHelper = <<>>
               /\ \/ sending = <<Part(b), Part("payload")>> /\ toClient = <<>>
                  \/ sending = <<Part("payload")>> /\ toClient = <<Part(b)>>
                  \/ sending = <<>> /\ toClient = <<Part(b), Part("payload")>>
                  \/ h = "dead" /\ sending = <<>> /\ toClient \in {<<>>, <<Part(b)>>}

ReplyLeft == \E b \in Firsts : IF b \in Long THEN PairLeft(b) ELSE PartLeft(b)

(* Calls and replies in step: what is in the pipe belongs to the call that *)
(* is waiting for it, and nothing is when no call is.                      *)
InStep ==
  Steady =>
    /\ ~torn
    /\ cpc \in {"idle", "connect", "send", "resend"} => Quiet
    /\ cpc = "recv" => Asked \/ ReplyLeft
    /\ cpc \in {"payload", "drain"} => PartLeft("payload")

Inv == /\ TypeOK /\ SocketInv /\ ProbeInv /\ LossInv
       /\ EvidenceInv /\ BudgetInv /\ InStep

-----------------------------------------------------------------------------
(* Sequences of one or two elements.                                       *)

(* The first element written to an empty socket.                           *)
LEMMA AppendEmpty == ASSUME NEW a PROVE Append(<<>>, a) = <<a>>
OBVIOUS

(* The second one.                                                         *)
LEMMA AppendOne == ASSUME NEW a, NEW b PROVE Append(<<a>>, b) = <<a, b>>
<1> DEFINE s == Append(<<a>>, b)
           t == <<a, b>>
<1>1. /\ s \in Seq({a, b}) /\ Len(s) = 2
      /\ s[1] = a /\ s[2] = b
  <2>1. <<a>> \in Seq({a, b}) /\ b \in {a, b} /\ Len(<<a>>) = 1 /\ <<a>>[1] = a
    OBVIOUS
  <2> HIDE DEF s
  <2> QED
    BY <2>1 DEF s
<1>2. /\ t \in Seq({a, b}) /\ Len(t) = 2
      /\ t[1] = a /\ t[2] = b
  OBVIOUS
<1> HIDE DEF s, t
<1>3. \A i \in 1 .. Len(s) : s[i] = t[i]
  <2> SUFFICES ASSUME NEW i \in 1 .. 2 PROVE s[i] = t[i]
    BY <1>1
  <2>1. i = 1 \/ i = 2
    OBVIOUS
  <2> QED
    BY <1>1, <1>2, <2>1
<1>4. s = t
  BY <1>1, <1>2, <1>3
<1> QED
  BY <1>4 DEF s, t

(* Taking one, or the first of two.                                        *)
LEMMA HeadTail == ASSUME NEW a, NEW b
                  PROVE  /\ Head(<<a>>) = a /\ Tail(<<a>>) = <<>>
                         /\ Head(<<a, b>>) = a /\ Tail(<<a, b>>) = <<b>>
OBVIOUS

(* The counters of HelperDies and Spawn stop at their bounds.              *)
LEMMA Counts == /\ 0 \in 0 .. 2 /\ 0 \in 0 .. SpawnCap
                /\ \A n \in 0 .. SpawnCap : n < SpawnCap => n + 1 \in 0 .. SpawnCap
BY DEF SpawnCap

(* A reply, tagged.                                                        *)
Tagged(n, c, reply) == [i \in DOMAIN reply |-> [n |-> n, kind |-> c, body |-> reply[i]]]

(* A reply carries the tag of its command on each part: one part, or a     *)
(* first one and a payload.                                                *)
LEMMA TaggedReply ==
  ASSUME NEW n \in Nat, NEW c \in Kinds, NEW reply \in Replies(c), NEW s,
         s = Tagged(n, c, reply)
  PROVE  /\ s \in Seq(Parts) /\ Len(s) \in {1, 2}
         /\ \A i \in 1 .. Len(s) : s[i].kind = c /\ (s[i].body # "payload" => i = 1)
<1>1. \/ \E b \in Bodies : reply = <<b>>
      \/ \E b \in Bodies : reply = <<b, "payload">>
  BY DEF Replies, Bodies
<1>2. ASSUME NEW b \in Bodies, reply = <<b>>
      PROVE  s = <<[n |-> n, kind |-> c, body |-> b]>>
  BY <1>2 DEF Tagged
<1>3. ASSUME NEW b \in Bodies, reply = <<b, "payload">>
      PROVE  s = <<[n |-> n, kind |-> c, body |-> b], [n |-> n, kind |-> c, body |-> "payload"]>>
  BY <1>3 DEF Tagged
<1>4. \A b \in Bodies : [n |-> n, kind |-> c, body |-> b] \in Parts
  BY DEF Parts
<1>5. "payload" \in Bodies
  BY DEF Bodies
<1>6. ASSUME NEW b \in Bodies, reply = <<b>>
      PROVE  /\ s \in Seq(Parts) /\ Len(s) \in {1, 2}
             /\ \A i \in 1 .. Len(s) : s[i].kind = c /\ (s[i].body # "payload" => i = 1)
  <2>1. PICK p \in Parts : s = <<p>> /\ p.kind = c
    BY <1>2, <1>4, <1>6
  <2>2. s \in Seq(Parts) /\ Len(s) = 1 /\ s[1] = p
    BY <2>1
  <2> QED
    BY <2>1, <2>2
<1>7. ASSUME NEW b \in Bodies, reply = <<b, "payload">>
      PROVE  /\ s \in Seq(Parts) /\ Len(s) \in {1, 2}
             /\ \A i \in 1 .. Len(s) : s[i].kind = c /\ (s[i].body # "payload" => i = 1)
  <2>1. PICK p \in Parts, q \in Parts :
          s = <<p, q>> /\ p.kind = c /\ q.kind = c /\ q.body = "payload"
    BY <1>3, <1>4, <1>5, <1>7
  <2>2. s \in Seq(Parts) /\ Len(s) = 2 /\ s[1] = p /\ s[2] = q
    BY <2>1
  <2> QED
    BY <2>1, <2>2
<1> QED
  BY <1>1, <1>6, <1>7

(* The helper takes a command it knows.                                    *)
Serves == /\ ~Rejects(Head(toHelper))
          /\ toHelper # <<>>
          /\ toHelper' = Tail(toHelper)
          /\ \E reply \in Replies(Head(toHelper).kind) :
               sending' = Tagged(Head(toHelper).n, Head(toHelper).kind, reply)
          /\ UNCHANGED <<h, toClient, torn>>

(* The helper's loop turns a command away or serves it.                    *)
LEMMA TakeCases == ASSUME Take PROVE (Rejects(Head(toHelper)) /\ Gone) \/ Serves
BY DEF Take, Serves, Tagged

(* What it leaves behind when it serves one.                               *)
LEMMA Served ==
  ASSUME TypeOK, Serves
  PROVE  /\ toHelper[1] \in Commands /\ toHelper[1] = Head(toHelper)
         /\ toHelper' \in Seq(Commands)
         /\ Len(toHelper) \in Nat \ {0} /\ Len(toHelper') = Len(toHelper) - 1
         /\ \A i \in 1 .. Len(toHelper') : toHelper'[i] = toHelper[i + 1]
         /\ sending' \in Seq(Parts)
         /\ \A i \in 1 .. Len(sending') :
              sending'[i].kind = toHelper[1].kind /\ (sending'[i].body # "payload" => i = 1)
         /\ UNCHANGED <<h, toClient, torn>>
<1>1. /\ toHelper \in Seq(Commands) /\ toHelper # <<>> /\ toHelper' = Tail(toHelper)
      /\ UNCHANGED <<h, toClient, torn>>
  BY DEF TypeOK, Serves
<1>2. /\ toHelper[1] \in Commands /\ toHelper[1] = Head(toHelper)
      /\ toHelper' \in Seq(Commands)
      /\ Len(toHelper) \in Nat \ {0} /\ Len(toHelper') = Len(toHelper) - 1
      /\ \A i \in 1 .. Len(toHelper') : toHelper'[i] = toHelper[i + 1]
  BY <1>1
<1>3. PICK reply \in Replies(toHelper[1].kind) :
        sending' = Tagged(toHelper[1].n, toHelper[1].kind, reply)
  BY <1>2 DEF Serves
<1>4. toHelper[1].n \in Nat /\ toHelper[1].kind \in Kinds
  BY <1>2 DEF Commands
<1>5. /\ sending' \in Seq(Parts)
      /\ \A i \in 1 .. Len(sending') :
           sending'[i].kind = toHelper[1].kind /\ (sending'[i].body # "payload" => i = 1)
  BY <1>3, <1>4, TaggedReply
<1> QED
  BY <1>1, <1>2, <1>5

-----------------------------------------------------------------------------
(* Every action preserves the invariant.                                   *)

(* A call begins on a quiet channel with its own count of helpers.         *)
LEMMA BeginInv == ASSUME Inv, NEW k \in {"grab", "cursor"}, Begin(k) PROVE Inv'
<1>1. TypeOK'
  <2>1. calls' \in Nat /\ kind' \in {"none", "grab", "cursor"} /\ cpc' \in {"idle", "connect"}
    BY DEF Begin, TypeOK, Inv
  <2>2. UNCHANGED <<host, noCursor2, cursor2ok, retried, h, sending, toHelper, toClient, torn, deaths>>
    BY DEF Begin, pipe, latch
  <2>3. mishap' \in BOOLEAN /\ spawned' \in 0 .. SpawnCap
    BY Counts DEF Begin
  <2> QED
    BY <2>1, <2>2, <2>3 DEF TypeOK, Inv
<1>2. SocketInv'
  BY DEF Begin, SocketInv, Inv, pipe
<1>3. ProbeInv'
  BY DEF Begin, ProbeInv, Probed, Inv, pipe
<1>4. LossInv'
  BY DEF Begin, LossInv
<1>5. EvidenceInv'
  BY DEF Begin, EvidenceInv, Inv, pipe, latch
<1>6. BudgetInv'
  BY DEF Begin, BudgetInv, SpawnsBounded, Budget, RoundsLeft
<1>7. InStep'
  BY DEF Begin, InStep, Steady, Quiet, Inv, pipe
<1> QED
  BY <1>1, <1>2, <1>3, <1>4, <1>5, <1>6, <1>7 DEF Inv

(* Connecting finds a helper, or spawns the first one of the call.         *)
LEMMA ConnectInv == ASSUME Inv, Connect PROVE Inv'
<1>1. TypeOK'
  BY EmptySeq, Counts, ChannelAssumption, ZenonT(60) DEF Connect, Spawn, SpawnFailed, Channel,
     Fail, Return, TypeOK, Inv, vars, pipe, latch, history, Hosts
<1>2. SocketInv'
  BY DEF Connect, Spawn, SpawnFailed, Channel, Fail, Return, SocketInv, Inv, pipe
<1>3. ProbeInv'
  <2>1. Connect => UNCHANGED <<host, torn, noCursor2, kind>> \/ Quiet'
    BY DEF Connect, Spawn, SpawnFailed, Channel, Quiet, pipe, latch
  <2> QED
    BY <2>1 DEF Connect, Spawn, SpawnFailed, Channel, ProbeInv, Probed, Inv, pipe
<1>4. LossInv'
  BY DEF Connect, Spawn, SpawnFailed, LossInv, Inv, history
<1>5. EvidenceInv'
  BY DEF Connect, Spawn, SpawnFailed, Channel, EvidenceInv, Inv, pipe, latch, history
<1>6. BudgetInv'
  BY DEF Connect, Spawn, SpawnFailed, BudgetInv, SpawnsBounded, Budget, RoundsLeft,
     Inv, latch, history
<1>7. InStep'
  BY DEF Connect, Spawn, SpawnFailed, Channel, Fail, Return, InStep, Steady, Quiet,
     Inv, pipe
<1> QED
  BY <1>1, <1>2, <1>3, <1>4, <1>5, <1>6, <1>7 DEF Inv

(* A command reaches an empty channel: the client waits for its reply.     *)
LEMMA SendCommandInv == ASSUME Inv, SendCommand PROVE Inv'
<1>1. TypeOK'
  <2>1. Command \in Commands
    BY DEF SendCommand, TypeOK, SocketInv, Command, Commands, Kinds, Inv
  <2> QED
    BY <2>1 DEF SendCommand, TypeOK, Inv, latch, history
<1>2. SocketInv'
  BY DEF SendCommand, SocketInv, Inv
<1>3. ProbeInv'
  BY DEF SendCommand, Command, Extended, TypeOK, ProbeInv, Probed, Inv, latch
<1>4. LossInv'
  BY DEF SendCommand, LossInv, Inv, history
<1>5. EvidenceInv'
  BY DEF SendCommand, EvidenceInv, Inv, latch, history
<1>6. BudgetInv'
  BY DEF SendCommand, TypeOK, BudgetInv, SpawnsBounded, Budget, RoundsLeft, Inv, latch,
     history
<1>7. InStep'
  <2>1. ASSUME Steady PROVE toHelper' = <<Command>>
    BY <2>1, AppendEmpty DEF SendCommand, InStep, Quiet, Inv
  <2>2. Command' = Command /\ (Steady' <=> Steady)
    BY DEF SendCommand, Command, Extended, Steady, latch
  <2> QED
    BY <2>1, <2>2 DEF SendCommand, InStep, Quiet, Asked, Inv
<1> QED
  BY <1>1, <1>2, <1>3, <1>4, <1>5, <1>6, <1>7 DEF Inv

(* A dead helper costs the call one respawn and the command is still unsent.*)
LEMMA SendRefusedInv == ASSUME Inv, SendRefused PROVE Inv'
<1>1. TypeOK'
  BY EmptySeq, Counts, ChannelAssumption DEF SendRefused, Spawn, SpawnFailed, Channel,
     Fail, Return, TypeOK, Inv, vars, pipe, latch, history, Hosts
<1>2. SocketInv'
  BY DEF SendRefused, Spawn, SpawnFailed, Channel, Fail, Return, SocketInv, Inv
<1>3. ProbeInv'
  BY DEF SendRefused, Spawn, SpawnFailed, Channel, ProbeInv
<1>4. LossInv'
  BY DEF SendRefused, Spawn, SpawnFailed, Channel, LossInv, Inv
<1>5. EvidenceInv'
  BY DEF SendRefused, Spawn, SpawnFailed, EvidenceInv, Inv, latch
<1>6. BudgetInv'
  BY DEF SendRefused, Spawn, SpawnFailed, Fail, Return, TypeOK, BudgetInv,
     SpawnsBounded, Budget, RoundsLeft, Inv, latch
<1>7. InStep'
  BY DEF SendRefused, Spawn, SpawnFailed, Channel, Fail, Return, InStep, Quiet
<1> QED
  BY <1>1, <1>2, <1>3, <1>4, <1>5, <1>6, <1>7 DEF Inv

(* The helper spawned for the resend died within the call.                 *)
LEMMA ResendRefusedInv == ASSUME Inv, ResendRefused PROVE Inv'
<1>1. TypeOK'
  BY DEF ResendRefused, Fail, Return, TypeOK, Inv, pipe, latch, history
<1>2. SocketInv'
  BY DEF ResendRefused, SocketInv, Inv, pipe
<1>3. ProbeInv'
  BY DEF ResendRefused, ProbeInv, Probed, Inv, pipe
<1>4. LossInv'
  BY DEF ResendRefused, LossInv, Probed, Inv, history
<1>5. EvidenceInv'
  BY DEF ResendRefused, EvidenceInv, Inv, latch, history
<1>6. BudgetInv'
  BY DEF ResendRefused, Fail, Return, BudgetInv, SpawnsBounded, Inv, history
<1>7. InStep'
  BY DEF ResendRefused, Fail, Return, InStep, Steady, Quiet, Inv, pipe
<1> QED
  BY <1>1, <1>2, <1>3, <1>4, <1>5, <1>6, <1>7 DEF Inv

(* A grab reads the metadata of its own reply and what is left is its payload.*)
LEMMA RecvGrabInv == ASSUME Inv, RecvGrab PROVE Inv'
<1>1. TypeOK'
  BY DEF RecvGrab, Reading, Fail, Return, TypeOK, Inv, latch, history
<1>2. SocketInv'
  BY DEF RecvGrab, Reading, Fail, Return, SocketInv, Inv
<1>3. ProbeInv'
  BY DEF RecvGrab, Reading, ProbeInv, Probed, Extended, Inv
<1>4. LossInv'
  BY DEF RecvGrab, Reading, Fail, Return, LossInv, Probed, Extended, Inv, history
<1>5. EvidenceInv'
  BY DEF RecvGrab, Reading, EvidenceInv, Inv, latch, history
<1>6. BudgetInv'
  BY DEF RecvGrab, Fail, Return, BudgetInv, SpawnsBounded, Budget, RoundsLeft, Inv,
     history
<1>7. InStep'
  <2> SUFFICES ASSUME Steady PROVE InStep'
    BY DEF RecvGrab, InStep, Steady
  <2>1. PICK b \in Firsts : IF b \in Long THEN PairLeft(b) ELSE PartLeft(b)
    BY DEF RecvGrab, Reading, InStep, Asked, ReplyLeft, Inv
  <2>2. \A x : Part(x)' = Part(x)
    BY DEF RecvGrab, Part, Command, Extended
  <2>3. CASE b \in Long
    <3>1. toHelper' = <<>> /\ Head(toClient) = Part(b) /\ PartLeft("payload")'
      BY <2>1, <2>2, <2>3, HeadTail, ChannelAssumption DEF RecvGrab, Reading, PairLeft,
         PartLeft, Inv, latch
    <3> QED
      BY <2>3, <3>1 DEF RecvGrab, Reading, InStep, Part, Long, Inv
  <2>4. CASE b \notin Long
    <3>1. Quiet' /\ Head(toClient) = Part(b)
      BY <2>1, <2>4, HeadTail DEF RecvGrab, Reading, PartLeft, Quiet
    <3> QED
      BY <2>1, <2>4, <3>1 DEF RecvGrab, Reading, Fail, Return, InStep, Part, Long, Inv
  <2> QED
    BY <2>3, <2>4
<1> QED
  BY <1>1, <1>2, <1>3, <1>4, <1>5, <1>6, <1>7 DEF Inv

(* So does a cursor call; an answer to the probe settles what the helper knows.*)
LEMMA RecvCursorInv == ASSUME Inv, RecvCursor PROVE Inv'
<1>1. TypeOK'
  BY DEF RecvCursor, Reading, Fail, Return, TypeOK, Inv, history
<1>2. SocketInv'
  BY DEF RecvCursor, Reading, Fail, Return, SocketInv, Inv
<1>3. ProbeInv'
  BY ChannelAssumption, SMTT(30) DEF RecvCursor, Reading, Fail, Return, Command, Extended,
     TypeOK, SocketInv, ProbeInv, ProbeReply, Probed, Extended, Parts, Commands, Inv,
     vars, pipe, latch, history, Hosts
<1>4. LossInv'
  BY DEF RecvCursor, Reading, Fail, Return, Command, ProbeInv, LossInv, ProbeReply,
     Probed, Inv, history
<1>5. EvidenceInv'
  BY DEF RecvCursor, Reading, Command, Extended, TypeOK, ProbeInv, EvidenceInv,
     ProbeReply, Inv, history
<1>6. BudgetInv'
  BY DEF RecvCursor, Reading, Fail, Return, TypeOK, BudgetInv, SpawnsBounded, Budget,
     RoundsLeft, Inv, history
<1>7. InStep'
  <2> SUFFICES ASSUME Steady PROVE InStep'
    BY DEF RecvCursor, InStep, Steady
  <2>1. PICK b \in Firsts : IF b \in Long THEN PairLeft(b) ELSE PartLeft(b)
    BY DEF RecvCursor, Reading, InStep, Asked, ReplyLeft, Inv
  <2>2. \A x : Part(x)' = Part(x)
    BY DEF RecvCursor, Part, Command, Extended
  <2>3. CASE b \in Long
    <3>1. toHelper' = <<>> /\ Head(toClient) = Part(b) /\ PartLeft("payload")'
      BY <2>1, <2>2, <2>3, HeadTail, ChannelAssumption, ZenonT(60) DEF RecvCursor, Reading,
         PairLeft, PartLeft, Inv, vars, pipe, latch, history, Hosts
    <3> QED
      BY <2>3, <3>1 DEF RecvCursor, Reading, InStep, Steady, Part, Long, Inv
  <2>4. CASE b \notin Long
    <3>1. Quiet' /\ Head(toClient) = Part(b)
      BY <2>1, <2>4, HeadTail DEF RecvCursor, Reading, PartLeft, Quiet
    <3> QED
      BY <2>1, <2>4, <3>1 DEF RecvCursor, Reading, Return, InStep, Part, Long, Inv
  <2> QED
    BY <2>3, <2>4
<1> QED
  BY <1>1, <1>2, <1>3, <1>4, <1>5, <1>6, <1>7 DEF Inv

(* The helper died under a grab, and no grab is refused by an old one.     *)
LEMMA GrabLostInv == ASSUME Inv, GrabLost PROVE Inv'
<1>1. TypeOK'
  BY DEF GrabLost, Fail, Return, TypeOK, Inv, pipe, latch, history
<1>2. SocketInv'
  BY DEF GrabLost, Eof, SocketInv, Inv, pipe
<1>3. ProbeInv'
  BY DEF GrabLost, Eof, SocketInv, ProbeInv, Inv, pipe
<1>4. LossInv'
  BY DEF GrabLost, Eof, LossInv, Probed, Extended, Inv, history
<1>5. EvidenceInv'
  BY DEF GrabLost, Eof, EvidenceInv, Inv, latch, history
<1>6. BudgetInv'
  BY DEF GrabLost, Fail, Return, BudgetInv, SpawnsBounded, Inv, history
<1>7. InStep'
  BY DEF GrabLost, Eof, Fail, Return, SocketInv, InStep, Quiet, Inv, pipe
<1> QED
  BY <1>1, <1>2, <1>3, <1>4, <1>5, <1>6, <1>7 DEF Inv

(* A call that will not retry has seen its helper die.                     *)
LEMMA CursorLostInv == ASSUME Inv, CursorLost PROVE Inv'
<1>1. TypeOK'
  BY DEF CursorLost, Fail, Return, TypeOK, Inv, pipe, latch, history
<1>2. SocketInv'
  BY DEF CursorLost, Eof, SocketInv, Inv, pipe
<1>3. ProbeInv'
  BY DEF CursorLost, Eof, SocketInv, ProbeInv, Inv, pipe
<1>4. LossInv'
  BY DEF CursorLost, Eof, LossInv, EvidenceInv, Probed, Inv, history
<1>5. EvidenceInv'
  BY DEF CursorLost, Eof, EvidenceInv, Inv, latch, history
<1>6. BudgetInv'
  BY DEF CursorLost, Fail, Return, BudgetInv, SpawnsBounded, Inv, history
<1>7. InStep'
  BY DEF CursorLost, Eof, Fail, Return, SocketInv, InStep, Quiet, Inv, pipe
<1> QED
  BY <1>1, <1>2, <1>3, <1>4, <1>5, <1>6, <1>7 DEF Inv

(* A retry spends a round of the budget and latches on a second death.     *)
LEMMA CursorRetryInv == ASSUME Inv, CursorRetry PROVE Inv'
<1>1. TypeOK'
  BY EmptySeq, Counts DEF CursorRetry, Spawn, SpawnFailed, Channel, Fail, Return,
     TypeOK, Inv
<1>2. SocketInv'
  BY DEF CursorRetry, Spawn, SpawnFailed, Channel, Fail, Return, Extended, SocketInv
<1>3. ProbeInv'
  BY DEF CursorRetry, Spawn, SpawnFailed, Channel, ProbeInv
<1>4. LossInv'
  BY DEF CursorRetry, Spawn, SpawnFailed, LossInv, Inv
<1>5. EvidenceInv'
  BY DEF CursorRetry, Eof, Spawn, SpawnFailed, Channel, EvidenceInv, Inv
<1>6. BudgetInv'
  BY DEF CursorRetry, Spawn, SpawnFailed, Channel, Fail, Return, Extended, TypeOK,
     BudgetInv, SpawnsBounded, Budget, RoundsLeft, Inv
<1>7. InStep'
  BY DEF CursorRetry, Spawn, SpawnFailed, Channel, Fail, Return, InStep, Quiet
<1> QED
  BY <1>1, <1>2, <1>3, <1>4, <1>5, <1>6, <1>7 DEF Inv

(* The payload ends the reply.                                             *)
LEMMA RecvPayloadInv == ASSUME Inv, RecvPayload PROVE Inv'
<1>1. TypeOK'
  BY DEF RecvPayload, Fail, Return, TypeOK, Inv, latch, history
<1>2. SocketInv'
  BY DEF RecvPayload, Fail, Return, SocketInv, Inv
<1>3. ProbeInv'
  BY DEF RecvPayload, ProbeInv, Probed, Inv, latch
<1>4. LossInv'
  BY DEF RecvPayload, Fail, Return, LossInv
<1>5. EvidenceInv'
  BY DEF RecvPayload, EvidenceInv, Inv, latch, history
<1>6. BudgetInv'
  BY DEF RecvPayload, Fail, Return, BudgetInv, SpawnsBounded, Inv, history
<1>7. InStep'
  BY DEF RecvPayload, Fail, Return, TypeOK, InStep, Steady, Quiet, PartLeft, Inv
<1> QED
  BY <1>1, <1>2, <1>3, <1>4, <1>5, <1>6, <1>7 DEF Inv

(* A helper that sent metadata died before its payload.                    *)
LEMMA PayloadLostInv == ASSUME Inv, PayloadLost PROVE Inv'
<1>1. TypeOK'
  BY DEF PayloadLost, Fail, Return, TypeOK, Inv, pipe, latch, history
<1>2. SocketInv'
  BY DEF PayloadLost, Eof, SocketInv, Inv, pipe
<1>3. ProbeInv'
  BY DEF PayloadLost, Eof, SocketInv, ProbeInv, Inv, pipe
<1>4. LossInv'
  BY DEF PayloadLost, Eof, LossInv, Probed, Inv, history
<1>5. EvidenceInv'
  BY DEF PayloadLost, Eof, EvidenceInv, Inv, latch, history
<1>6. BudgetInv'
  BY DEF PayloadLost, Fail, Return, BudgetInv, SpawnsBounded, Inv, history
<1>7. InStep'
  BY DEF PayloadLost, Eof, Fail, Return, SocketInv, InStep, Quiet, Inv, pipe
<1> QED
  BY <1>1, <1>2, <1>3, <1>4, <1>5, <1>6, <1>7 DEF Inv

(* A drain cut short leaves no channel.                                    *)
LEMMA DrainLostInv == ASSUME Inv, DrainLost PROVE Inv'
<1>1. TypeOK'
  BY EmptySeq DEF DrainLost, Stop, Channel, Fail, Return, TypeOK, Inv, latch, history
<1>2. SocketInv'
  BY DEF DrainLost, Stop, Channel, Fail, Return, SocketInv
<1>3. ProbeInv'
  BY DEF DrainLost, Stop, Channel, ProbeInv
<1>4. LossInv'
  BY DEF DrainLost, Eof, Stop, LossInv, Probed, Inv, history
<1>5. EvidenceInv'
  BY DEF DrainLost, Eof, Stop, EvidenceInv, Inv, latch, history
<1>6. BudgetInv'
  BY DEF DrainLost, Stop, Fail, Return, BudgetInv, SpawnsBounded, Inv, history
<1>7. InStep'
  BY DEF DrainLost, Stop, Channel, Fail, Return, InStep, Quiet
<1> QED
  BY <1>1, <1>2, <1>3, <1>4, <1>5, <1>6, <1>7 DEF Inv

(* Signals leave a reply behind only where the client is not steady.       *)
LEMMA RecvInterruptedInv == ASSUME Inv, RecvInterrupted PROVE Inv'
<1>1. TypeOK'
  BY DEF RecvInterrupted, Fail, Return, TypeOK, Inv, pipe, latch, history
<1>2. SocketInv'
  BY DEF RecvInterrupted, Fail, Return, SocketInv, pipe
<1>3. ProbeInv'
  BY DEF RecvInterrupted, ProbeInv, Probed, Extended, Inv, pipe
<1>4. LossInv'
  BY DEF RecvInterrupted, Fail, Return, LossInv
<1>5. EvidenceInv'
  BY DEF RecvInterrupted, EvidenceInv, Inv, pipe, latch, history
<1>6. BudgetInv'
  BY DEF RecvInterrupted, Fail, Return, BudgetInv, SpawnsBounded, Inv, history
<1>7. InStep'
  BY DEF RecvInterrupted, InStep, Steady
<1> QED
  BY <1>1, <1>2, <1>3, <1>4, <1>5, <1>6, <1>7 DEF Inv

(* A drain interrupted leaves no channel.                                  *)
LEMMA DrainInterruptedInv == ASSUME Inv, DrainInterrupted PROVE Inv'
<1>1. TypeOK'
  BY EmptySeq DEF DrainInterrupted, Stop, Channel, Fail, Return, TypeOK, Inv, latch,
     history
<1>2. SocketInv'
  BY DEF DrainInterrupted, Stop, Channel, Fail, Return, SocketInv
<1>3. ProbeInv'
  BY DEF DrainInterrupted, Stop, Channel, ProbeInv
<1>4. LossInv'
  BY DEF DrainInterrupted, Fail, Return, LossInv
<1>5. EvidenceInv'
  BY DEF DrainInterrupted, Stop, Channel, EvidenceInv, Inv, latch, history
<1>6. BudgetInv'
  BY DEF DrainInterrupted, Stop, Fail, Return, BudgetInv, SpawnsBounded, Inv, history
<1>7. InStep'
  BY DEF DrainInterrupted, InStep, Steady
<1> QED
  BY <1>1, <1>2, <1>3, <1>4, <1>5, <1>6, <1>7 DEF Inv

(* A misread channel is torn, and only an unsteady client misreads.        *)
LEMMA MisreadInv == ASSUME Inv, Misread PROVE Inv'
<1>1. TypeOK'
  BY DEF Misread, Fail, Return, TypeOK, Inv, latch, history
<1>2. SocketInv'
  BY DEF Misread, Fail, Return, SocketInv, Inv
<1>3. ProbeInv'
  BY DEF Misread, ProbeInv, Inv
<1>4. LossInv'
  BY DEF Misread, Fail, Return, LossInv
<1>5. EvidenceInv'
  BY DEF Misread, EvidenceInv, Inv, latch, history
<1>6. BudgetInv'
  BY DEF Misread, Fail, Return, BudgetInv, SpawnsBounded, Inv, history
<1>7. InStep'
  BY DEF Misread, InStep, Steady, Asked, ReplyLeft, PartLeft, PairLeft, Part, Firsts,
     Inv
<1> QED
  BY <1>1, <1>2, <1>3, <1>4, <1>5, <1>6, <1>7 DEF Inv

(* A new context starts with a new channel.                                *)
LEMMA CloseInv == ASSUME Inv, Close PROVE Inv'
<1>1. TypeOK'
  BY EmptySeq, Counts DEF Close, Channel, TypeOK, Inv
<1>2. SocketInv'
  BY DEF Close, Channel, SocketInv
<1>3. ProbeInv'
  BY DEF Close, Channel, ProbeInv
<1>4. LossInv'
  BY DEF Close, LossInv, Inv
<1>5. EvidenceInv'
  BY DEF Close, Channel, EvidenceInv
<1>6. BudgetInv'
  BY DEF Close, BudgetInv, SpawnsBounded, Inv
<1>7. InStep'
  BY DEF Close, Channel, InStep, Quiet
<1> QED
  BY <1>1, <1>2, <1>3, <1>4, <1>5, <1>6, <1>7 DEF Inv

(* The command the helper takes becomes its reply, or its end.             *)
LEMMA TakeInv == ASSUME Inv, Take PROVE Inv'
<1>1. TypeOK'
  <2>1. CASE Rejects(Head(toHelper)) /\ Gone
    BY <2>1 DEF Take, Gone, TypeOK, Inv, latch, history
  <2>2. CASE Serves
    BY <2>2, Served DEF Take, TypeOK, Inv, latch, history
  <2> QED
    BY <2>1, <2>2, TakeCases
<1>2. SocketInv'
  BY DEF Take, Gone, SocketInv, Inv
<1>3. ProbeInv'
  <2>1. CASE Rejects(Head(toHelper)) /\ Gone
    BY <2>1 DEF Take, Gone, ProbeInv, Probed, Extended, Inv, latch
  <2>2. CASE Serves
    <3>1. /\ toHelper[1].kind = "cursor2" => host.binary # "old"
          /\ toHelper[1].kind = "cursor2" /\ ~torn => Len(toHelper) = 1
      <4>1. /\ ~Rejects(toHelper[1])
            /\ 1 \in 1 .. Len(toHelper)
        BY <2>2 DEF Serves
      <4> QED
        BY <4>1 DEF Rejects, ProbeInv, Inv
    <3>2. /\ UNCHANGED <<host, cpc, kind, noCursor2, torn, toClient>>
          /\ sending = <<>>
      BY <2>2, Served DEF Take, Inv, latch
    <3>3. Len(sending') \in Nat
      BY <2>2
    <3>4. /\ \A i \in 1 .. Len(toClient') : ProbeReply(toClient'[i]) => host'.binary # "old"
          /\ \A i \in 1 .. Len(sending') : ProbeReply(sending'[i]) => host'.binary # "old"
      BY <2>2, <3>1, <3>2, Served DEF ProbeInv, ProbeReply, Inv
    <3>5. ASSUME ~torn, toHelper[1].kind = "cursor2" PROVE ProbeInv'
      <4>1. toHelper' = <<>>
        BY <2>2, <3>1, <3>5, Served, ChannelAssumption DEF Inv
      <4>2. Probed /\ Probed' /\ \A i \in 1 .. Len(toClient) : ~ProbeReply(toClient[i])
        BY <2>2, <3>2, <3>5, Served DEF ProbeInv, Probed, Extended, Inv
      <4> QED
        BY <2>2, <3>2, <3>4, <4>1, <4>2, Served DEF ProbeInv, ProbeReply, Inv
    <3>6. ASSUME ~torn, toHelper[1].kind # "cursor2" PROVE ProbeInv'
      <4>1. \A i \in 1 .. Len(sending') : ~ProbeReply(sending'[i])
        BY <2>2, <3>6, Served DEF ProbeReply, Inv
      <4>2. Probed' = Probed
        BY <3>2 DEF Probed, Extended
      <4>3. \A i \in 1 .. Len(toHelper') :
              /\ i + 1 \in 1 .. Len(toHelper) /\ toHelper'[i] = toHelper[i + 1]
              /\ i + 1 = Len(toHelper) => i = Len(toHelper')
        BY <2>2, Served DEF Inv
      <4>4. \A i \in 1 .. Len(toHelper') :
              toHelper'[i].kind = "cursor2" => Probed /\ i = Len(toHelper')
        BY <3>6, <4>3 DEF ProbeInv, Inv
      <4>5. ASSUME NEW i \in 1 .. Len(toClient), ProbeReply(toClient[i])
            PROVE  /\ Probed
                   /\ \A j \in 1 .. Len(toHelper') : toHelper'[j].kind # "cursor2"
                   /\ \A j \in 1 .. Len(toClient) : ProbeReply(toClient[j]) => j = i
        BY <3>6, <4>3, <4>5 DEF ProbeInv, Inv
      <4> QED
        BY <3>2, <3>4, <4>1, <4>2, <4>4, <4>5 DEF ProbeInv
    <3> QED
      BY <3>2, <3>4, <3>5, <3>6 DEF ProbeInv
  <2> QED
    BY <2>1, <2>2, TakeCases
<1>4. LossInv'
  BY DEF Take, Rejects, SocketInv, ProbeInv, LossInv, Probed, Extended, Inv, latch,
     history
<1>5. EvidenceInv'
  BY DEF Take, Rejects, EvidenceInv, Inv, latch, history
<1>6. BudgetInv'
  BY DEF Take, Gone, BudgetInv, SpawnsBounded, Budget, RoundsLeft, Inv, latch, history
<1>7. InStep'
  BY ChannelAssumption DEF Take, Gone, Replies, TypeOK, InStep, Steady, Quiet, Asked,
     ReplyLeft, PartLeft, PairLeft, Part, Firsts, Long, Command, Extended, Inv, latch
<1> QED
  BY <1>1, <1>2, <1>3, <1>4, <1>5, <1>6, <1>7 DEF Inv

(* A part moves from the helper to the socket, in order.                   *)
LEMMA HelperSendInv == ASSUME Inv, HelperSend PROVE Inv'
<1>1. TypeOK'
  BY DEF HelperSend, TypeOK, Inv, latch, history
<1>2. SocketInv'
  BY DEF HelperSend, SocketInv, Inv
<1>3. ProbeInv'
  <2>1. /\ sending[1] \in Parts /\ sending[1] = Head(sending) /\ Len(sending) \in Nat \ {0}
        /\ Len(sending') = Len(sending) - 1
        /\ \A i \in 1 .. Len(sending') : sending'[i] = sending[i + 1]
        /\ Len(toClient) \in Nat /\ Len(toClient') = Len(toClient) + 1
        /\ toClient'[Len(toClient')] = sending[1]
        /\ \A i \in 1 .. Len(toClient) : toClient'[i] = toClient[i]
    BY DEF HelperSend, TypeOK, Inv
  <2>2. UNCHANGED <<host, torn, toHelper, cpc, kind, noCursor2>>
    BY DEF HelperSend, latch
  <2>3. 1 \in 1 .. Len(sending) /\ \A i \in 1 .. Len(sending') : i + 1 \in 1 .. Len(sending) /\ i + 1 # 1
    BY <2>1
  <2>4. \A i \in 1 .. Len(toClient') : toClient'[i] = IF i = Len(toClient') THEN sending[1] ELSE toClient[i]
    BY <2>1
  <2>5. \A i \in 1 .. Len(toClient') : i = Len(toClient') \/ i \in 1 .. Len(toClient)
    BY <2>1
  <2> HIDE DEF Inv
  <2>6. ProbeInv
    BY DEF Inv
  <2>7. /\ \A i \in 1 .. Len(toClient') : ProbeReply(toClient'[i]) => host.binary # "old"
        /\ \A i \in 1 .. Len(sending') : ProbeReply(sending'[i]) => host.binary # "old"
    BY <2>1, <2>3, <2>4, <2>5, <2>6 DEF ProbeInv
  <2>8. ASSUME ~torn PROVE \A i \in 1 .. Len(sending') : ~ProbeReply(sending'[i])
    BY <2>1, <2>3, <2>6, <2>8 DEF ProbeInv
  <2>9. ASSUME ~torn, NEW i \in 1 .. Len(toClient'), ProbeReply(toClient'[i])
        PROVE  /\ Probed
               /\ \A j \in 1 .. Len(toHelper) : toHelper[j].kind # "cursor2"
               /\ \A j \in 1 .. Len(toClient') : ProbeReply(toClient'[j]) => j = i
    BY <2>1, <2>3, <2>4, <2>5, <2>6, <2>9 DEF ProbeInv
  <2>10. Probed' = Probed
    BY <2>2 DEF Probed, Extended
  <2> QED
    BY <2>2, <2>6, <2>7, <2>8, <2>9, <2>10 DEF ProbeInv
<1>4. LossInv'
  BY DEF HelperSend, LossInv, Inv, history
<1>5. EvidenceInv'
  BY DEF HelperSend, EvidenceInv, Inv, latch, history
<1>6. BudgetInv'
  BY DEF HelperSend, BudgetInv, SpawnsBounded, Budget, RoundsLeft, Inv, latch, history
<1>7. InStep'
  <2> SUFFICES ASSUME Steady PROVE InStep'
    BY DEF HelperSend, InStep, Steady
  <2>1. \A x : Part(x)' = Part(x)
    BY DEF HelperSend, Part, Command, Extended, latch
  <2>2. ASSUME NEW b, PartLeft(b) PROVE PartLeft(b)'
    BY <2>1, <2>2, HeadTail, AppendEmpty DEF HelperSend, PartLeft
  <2>3. ASSUME NEW b, PairLeft(b) PROVE PairLeft(b)'
    <3> DEFINE p == Part(b)
               q == Part("payload")
    <3>1. UNCHANGED <<toHelper, h, p, q>> /\ toHelper = <<>> /\ h = "up"
      BY <2>1, <2>3 DEF HelperSend, PairLeft
    <3> HIDE DEF p, q
    <3>2. sending = <<p, q>> /\ toClient = <<>> => sending' = <<q>> /\ toClient' = <<p>>
      BY DEF HelperSend
    <3>3. sending = <<q>> /\ toClient = <<p>> => sending' = <<>> /\ toClient' = <<p, q>>
      BY AppendOne DEF HelperSend
    <3>4. (sending' = <<q>> /\ toClient' = <<p>>) \/ (sending' = <<>> /\ toClient' = <<p, q>>)
      BY <2>3, <3>2, <3>3 DEF HelperSend, PairLeft, p, q
    <3> QED
      BY <3>1, <3>4 DEF PairLeft, p, q
  <2>4. ReplyLeft => ReplyLeft'
    BY <2>2, <2>3 DEF HelperSend, ReplyLeft, Firsts
  <2>5. ~Quiet /\ ~Asked
    BY DEF HelperSend, Quiet, Asked
  <2> QED
    BY <2>2, <2>4, <2>5 DEF HelperSend, InStep, Inv
<1> QED
  BY <1>1, <1>2, <1>3, <1>4, <1>5, <1>6, <1>7 DEF Inv

(* A death loses what was not written and is counted.                      *)
LEMMA HelperDiesInv == ASSUME Inv, HelperDies PROVE Inv'
<1>1. TypeOK'
  BY DEF HelperDies, Gone, TypeOK, Inv, latch
<1>2. SocketInv'
  BY DEF HelperDies, Gone, SocketInv, Inv
<1>3. ProbeInv'
  BY DEF HelperDies, Gone, ProbeInv, Probed, Extended, Inv, latch
<1>4. LossInv'
  BY DEF HelperDies, LossInv
<1>5. EvidenceInv'
  BY DEF HelperDies, TypeOK, EvidenceInv, Inv, latch
<1>6. BudgetInv'
  BY DEF HelperDies, Gone, BudgetInv, SpawnsBounded, Budget, RoundsLeft, Inv, latch
<1>7. InStep'
  BY DEF HelperDies, Gone, InStep, Steady, Quiet, Asked, ReplyLeft, PartLeft, PairLeft,
     Part, Firsts, Command, Extended, Inv, latch
<1> QED
  BY <1>1, <1>2, <1>3, <1>4, <1>5, <1>6, <1>7 DEF Inv

(* The channel starts empty and nothing has been lost.                     *)
LEMMA InitInv == ASSUME Init PROVE Inv
<1> USE ChannelAssumption DEF Init, Hosts
<1>1. TypeOK
  BY EmptySeq, Counts DEF TypeOK
<1>2. SocketInv /\ ProbeInv
  BY DEF SocketInv, ProbeInv
<1>3. LossInv /\ EvidenceInv /\ BudgetInv
  BY DEF LossInv, EvidenceInv, BudgetInv, SpawnsBounded
<1>4. InStep
  BY DEF InStep, Quiet
<1> QED
  BY <1>1, <1>2, <1>3, <1>4 DEF Inv

(* A step that changes nothing changes no part of the invariant.           *)
LEMMA StutterInv == ASSUME Inv, UNCHANGED vars PROVE Inv'
<1> USE DEF Inv, vars, latch, pipe, history
<1>1. TypeOK' /\ SocketInv'
  BY DEF TypeOK, SocketInv
<1>2. ProbeInv'
  BY DEF ProbeInv, Probed, Extended
<1>3. LossInv' /\ EvidenceInv'
  BY DEF LossInv, EvidenceInv, Probed, Extended
<1>4. BudgetInv'
  BY DEF BudgetInv, SpawnsBounded, Budget, RoundsLeft
<1>5. InStep'
  BY DEF InStep, Steady, Quiet, Asked, ReplyLeft, PartLeft, PairLeft, Part, Firsts,
     Command, Extended
<1> QED
  BY <1>1, <1>2, <1>3, <1>4, <1>5

(* No step breaks the invariant.                                           *)
LEMMA NextInv == ASSUME Inv, [Next]_vars PROVE Inv'
<1>1. CASE \E k \in {"grab", "cursor"} : Begin(k)
  BY <1>1, BeginInv
<1>2. CASE ClientStep
  BY <1>2, ConnectInv, SendCommandInv, SendRefusedInv, ResendRefusedInv, RecvGrabInv,
     RecvCursorInv, GrabLostInv, CursorLostInv, CursorRetryInv, RecvPayloadInv,
     PayloadLostInv, DrainLostInv, RecvInterruptedInv, DrainInterruptedInv,
     MisreadInv DEF ClientStep
<1>3. CASE HelperStep
  BY <1>3, TakeInv, HelperSendInv DEF HelperStep
<1>4. CASE Close \/ HelperDies
  BY <1>4, CloseInv, HelperDiesInv
<1>5. CASE UNCHANGED vars
  BY <1>5, StutterInv
<1> QED
  BY <1>1, <1>2, <1>3, <1>4, <1>5 DEF Next

(* The invariant holds throughout every behaviour.                         *)
THEOREM SpecInv == Spec => []Inv
BY PTL, InitInv, NextInv DEF Spec

(* Every variable keeps its type.                                          *)
THEOREM TypeCorrect == Spec => []TypeOK
<1>1. Inv => TypeOK
  BY DEF Inv
<1> QED
  BY <1>1, PTL, SpecInv

-----------------------------------------------------------------------------
(* What the channel promises.                                              *)

(* Nothing is left in the socket, and the helper owes nothing, between the *)
(* calls of a client that no signal and no failed malloc makes abandon a   *)
(* reply: the drain of drmtap_helper_grab, the payload read after every    *)
(* metadata and the respawn after every failed send and receive add up.    *)
THEOREM SocketQuiet == Spec => []QuietBetweenCalls
<1>1. Inv => QuietBetweenCalls
  BY DEF Inv, InStep, Quiet, QuietBetweenCalls
<1> QED
  BY <1>1, PTL, SpecInv

(* A call reports a lost transport only when, during that very call, a     *)
(* helper died or could not be spawned: neither a helper that died before  *)
(* nor an old binary that hangs up on CMD_GET_CURSOR2 costs a call.        *)
THEOREM LossIsReal == Spec => []LossNeedsMishap
<1>1. Inv => LossNeedsMishap
  BY DEF Inv, LossInv, LossNeedsMishap
<1> QED
  BY <1>1, PTL, SpecInv

(* helper_no_cursor2 is set for an old binary or after two deaths, and     *)
(* never once the helper has answered CMD_GET_CURSOR2.                     *)
THEOREM LatchIsFounded == Spec => []LatchNeedsEvidence
<1>1. Inv => LatchNeedsEvidence
  BY DEF Inv, EvidenceInv, LatchNeedsEvidence
<1> QED
  BY <1>1, PTL, SpecInv

(* A grab spawns at most two helpers and a cursor call six, whenever they  *)
(* die.                                                                    *)
THEOREM FewSpawns == Spec => []SpawnsBounded
<1>1. Inv => SpawnsBounded
  BY DEF Inv, BudgetInv
<1> QED
  BY <1>1, PTL, SpecInv

-----------------------------------------------------------------------------
(* The channel implements HelperService.                                   *)

(* A step inside a call, or outside any.                                   *)
Stays == /\ UNCHANGED <<host, calls, kind, result>>
         /\ cpc' = "idle" <=> cpc = "idle"

(* The step that ends a call: without an answer, or with one that carries  *)
(* the tag of its own command.                                             *)
Ends == /\ UNCHANGED <<host, calls, kind>>
        /\ cpc # "idle" /\ cpc' = "idle"
        /\ \/ result'.ret # "ok" /\ result'.of = 0
           \/ Steady => result'.ret = "ok" /\ result'.of = calls
        /\ result'.kind = kind

(* A failure carries no answer.                                            *)
LEMMA FailEnds == ASSUME NEW r, r # "ok", Fail(r), cpc # "idle", UNCHANGED <<host, calls, kind>>
                  PROVE  Ends
BY DEF Fail, Return, Ends

(* What the client reads in step is the reply to its own command.          *)
LEMMA ReadsOwnReply ==
  ASSUME Inv, Steady, cpc \in {"recv", "payload", "drain"}, toClient # <<>>
  PROVE  Head(toClient).n = calls
<1>1. CASE cpc = "recv"
  <2>1. PICK b \in Firsts : IF b \in Long THEN PairLeft(b) ELSE PartLeft(b)
    BY <1>1 DEF Inv, InStep, Asked, ReplyLeft
  <2>2. toClient = <<Part(b)>> \/ toClient = <<Part(b), Part("payload")>> \/ toClient = <<Part("payload")>>
    BY <2>1 DEF PairLeft, PartLeft
  <2> QED
    BY <2>2 DEF Part
<1>2. CASE cpc \in {"payload", "drain"}
  <2>1. toClient = <<Part("payload")>>
    BY <1>2 DEF Inv, InStep, PartLeft
  <2> QED
    BY <2>1 DEF Part
<1> QED
  BY <1>1, <1>2

(* A step of a call stays inside it or ends it with its own answer.         *)
LEMMA ClientStepStaysOrEnds == ASSUME Inv, ClientStep PROVE Stays \/ Ends
<1>1. CASE Connect
  BY <1>1, FailEnds DEF Connect, Stays
<1>2. CASE SendCommand
  BY <1>2 DEF SendCommand, Stays
<1>3. CASE SendRefused \/ ResendRefused
  BY <1>3, FailEnds DEF SendRefused, ResendRefused, Stays
<1>4. CASE RecvGrab
  BY <1>4, FailEnds, ReadsOwnReply DEF RecvGrab, Reading, Stays, Ends, Return
<1>5. CASE RecvCursor
  BY <1>5, FailEnds, ReadsOwnReply DEF RecvCursor, Reading, Stays, Ends, Return
<1>6. CASE GrabLost \/ CursorLost \/ PayloadLost \/ RecvInterrupted
  BY <1>6, FailEnds DEF GrabLost, CursorLost, PayloadLost, RecvInterrupted
<1>7. CASE CursorRetry
  BY <1>7, FailEnds DEF CursorRetry, Stays
<1>8. CASE RecvPayload
  BY <1>8, FailEnds, ReadsOwnReply DEF RecvPayload, Ends, Return
<1>9. CASE DrainLost \/ DrainInterrupted \/ Misread
  BY <1>9, FailEnds DEF DrainLost, DrainInterrupted, Misread
<1> QED
  BY <1>1, <1>2, <1>3, <1>4, <1>5, <1>6, <1>7, <1>8, <1>9 DEF ClientStep

(* The abstract service does not see the former, and serves the latter.    *)
LEMMA StaysStutters == ASSUME Stays PROVE UNCHANGED Service!svars
BY DEF Stays, Service!svars, Steady

(* The end of a call is the service's.                                     *)
LEMMA EndsFinishes == ASSUME Inv, Ends PROVE Service!Finish \/ UNCHANGED Service!svars
BY DEF Ends, Service!Finish, Service!Failed, Service!svars, Steady

(* So is its beginning.                                                    *)
LEMMA BeginBegins ==
  ASSUME Inv, NEW k \in {"grab", "cursor"}, Begin(k)
  PROVE  Service!Begin \/ UNCHANGED Service!svars
BY DEF Begin, Service!Begin, Service!Questions, Service!Pending, Service!svars, Steady

(* Whatever happens to the helper, calls are answered one at a time, each  *)
(* with the reply to its own command or not at all: the channel, with its  *)
(* respawns, resends, retries and drains, implements HelperService.        *)
THEOREM ImplementsService == Spec => ServiceSpec
<1>1. Init => Service!Init
  <2> SUFFICES ASSUME Init PROVE Service!Init
    OBVIOUS
  <2>1. cpc = "idle" /\ calls = 0 /\ kind = "none" /\ result.ret # "ok"
        /\ result.of = 0 /\ result.kind = "none"
    BY DEF Init
  <2>2. (IF Steady THEN kind ELSE "none") = "none" /\ (IF Steady THEN calls ELSE 0) = 0
    BY <2>1
  <2>3. (Steady /\ cpc # "idle") = FALSE
    BY <2>1
  <2>4. (result.ret = "ok") = FALSE
    BY <2>1
  <2> QED
    BY <2>1, <2>2, <2>3, <2>4 DEF Service!Init, Service!Pending
<1>2. Inv /\ [Next]_vars => [Service!Next]_Service!svars
  <2> SUFFICES ASSUME Inv, [Next]_vars
               PROVE  Service!Next \/ UNCHANGED Service!svars
    OBVIOUS
  <2>1. CASE \E k \in {"grab", "cursor"} : Begin(k)
    BY <2>1, BeginBegins DEF Service!Next
  <2>2. CASE ClientStep
    BY <2>2, ClientStepStaysOrEnds, StaysStutters, EndsFinishes DEF Service!Next
  <2>3. CASE Close \/ HelperStep \/ HelperDies \/ UNCHANGED vars
    <3>1. Stays
      BY <2>3 DEF Close, HelperStep, Take, HelperSend, HelperDies, vars, Stays
    <3> QED
      BY <3>1, StaysStutters
  <2> QED
    BY <2>1, <2>2, <2>3 DEF Next
<1> QED
  BY <1>1, <1>2, PTL, SpecInv DEF Spec, ServiceSpec, Service!Spec


=============================================================================
