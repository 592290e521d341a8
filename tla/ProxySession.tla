---------------------------- MODULE ProxySession ----------------------------
(***************************************************************************)
(* ProxySessionState of session.py: the translation of sequence numbers    *)
(* between the EQ client and the login server, as operators on a record    *)
(*   seqToClient    sequence of the next packet handed to the client       *)
(*   seqFromServer  server sequence expected next; client Acks become      *)
(*                  Acks of the one before it                              *)
(*   csOffset       client packets injected by the proxy                   *)
(*   asm, pendingList   the fragment assembler, and whether the response   *)
(*                  being assembled is a server list                       *)
(* Operators that change the session return the new record.                *)
(* Operators named ..._Fault... are faulty variants of the one that follows   *)
(* them: the properties are checked to tell them apart.                    *)
(***************************************************************************)
EXTENDS FragmentAssembler

NewSession ==
  [seqToClient |-> 0, seqFromServer |-> 0, csOffset |-> 0,
   asm |-> Idle, pendingList |-> FALSE]

(* Subtraction stopped at zero: max(a - b, 0). *)
Monus(a, b) == IF a >= b THEN a - b ELSE 0

Larger(a, b) == IF a >= b THEN a ELSE b

----------------------------------------------------------------------------
(* Client -> server *)

RewriteAck_FaultUnclamped(s) == s.seqFromServer - 1
RewriteAck_FaultExpected(s) == s.seqFromServer

(* Whatever the client acknowledged, the server is told seqFromServer - 1. *)
RewriteAck(s) == Monus(s.seqFromServer, 1)

ShiftPacketSeq(s, n) == IF s.csOffset = 0 THEN n ELSE (n + s.csOffset) % SeqMod

AdjustSub(s, sub) ==
  IF sub.op = "Ack" THEN [sub EXCEPT !.seq = RewriteAck(s)]
  ELSE [sub EXCEPT !.seq = ShiftPacketSeq(s, sub.seq)]

(* A datagram is the sequence of its sub-packets: one for a standalone Ack  *)
(* or Packet, several for a Combined. adjust_combined, adjust_ack and       *)
(* adjust_client_packet rewrite each of them in place.                      *)
Adjust(s, d) == [i \in DOMAIN d |-> AdjustSub(s, d[i])]

----------------------------------------------------------------------------
(* Server -> client *)

AdjustServerAck_FaultUntranslated(s, n) == n

AdjustServerAck(s, n) == IF s.csOffset = 0 THEN n ELSE Monus(n, s.csOffset)

(* The packet leaves with sequence s.seqToClient; the server's own counts   *)
(* only when it is the expected one.                                        *)
RewriteServerPacket(s, n) ==
  [s EXCEPT !.seqToClient = @ + 1,
            !.seqFromServer = IF n = @ THEN @ + 1 ELSE @]

(* recv_fragment() fails while it reads the header of a fragment too short  *)
(* to have one: only seqFromServer has changed by then.                     *)
HeaderUnreadable(s, f) == ~s.asm.active /\ f.short

PendingList(s, f) == IF s.asm.active THEN s.pendingList ELSE f.head

(* This fragment completes a response... *)
Completes(s, f) ==
  /\ ~HeaderUnreadable(s, f)
  /\ Stores(s.asm, f)
  /\ Complete(Add(s.asm, f))

(* ... and the response is the server list, forwarded as one packet. *)
CompletesList(s, f) == Completes(s, f) /\ PendingList(s, f)

RecvFragment_FaultNoReset(s, f) ==
  LET following == (f.seq + 1) % SeqMod
  IN  CASE HeaderUnreadable(s, f) -> [s EXCEPT !.seqFromServer = following]
        [] OTHER ->
             [s EXCEPT !.seqFromServer = following, !.asm = Add(s.asm, f),
                       !.pendingList = PendingList(s, f),
                       !.seqToClient = IF CompletesList(s, f) THEN @ + 1 ELSE @]

RecvFragment(s, f) ==
  LET following == (f.seq + 1) % SeqMod
  IN  CASE HeaderUnreadable(s, f) -> [s EXCEPT !.seqFromServer = following]
        [] Completes(s, f) ->
             [s EXCEPT !.seqFromServer = following,
                       !.asm = Idle, !.pendingList = FALSE,
                       !.seqToClient = IF PendingList(s, f) THEN @ + 1 ELSE @]
        [] OTHER ->
             [s EXCEPT !.seqFromServer = following,
                       !.asm = Add(s.asm, f), !.pendingList = PendingList(s, f)]

----------------------------------------------------------------------------
(* Retry bookkeeping *)

NoteSuppressed_FaultShown(s, n) ==
  [s EXCEPT !.seqFromServer = Larger(@, n + 1), !.seqToClient = @ + 1]
NoteSuppressed_FaultUncounted(s, n) == s

NoteSuppressedServerPacket(s, n) ==
  [s EXCEPT !.seqFromServer = Larger(@, n + 1)]

NoteInjected_FaultUncounted(s) == s

NoteInjectedClientPacket(s) == [s EXCEPT !.csOffset = @ + 1]

=============================================================================
