------------------------- MODULE FragmentAssembler -------------------------
(***************************************************************************)
(* The reassembler of fragmented server responses, class                   *)
(* FragmentAssembler of soe_protocol.py, as operators on a record.         *)
(*                                                                         *)
(* A fragment is a record                                                  *)
(*   seq    its 16-bit sequence number                                     *)
(*   head   whether the sender built it as the first of its response       *)
(*   total  the number read from its first four data bytes: the length of  *)
(*          the response in a head, payload bytes in any other fragment    *)
(*   short  whether it has fewer than four data bytes                      *)
(*   chunk  the piece of the response it carries, a positive number       *)
(* Lengths are counted in chunks: every chunk is one unit of data.         *)
(* Operators named ..._Fault... are faulty variants of the one that follows   *)
(* them: the properties are checked to tell them apart.                    *)
(***************************************************************************)
EXTENDS Integers

CONSTANT SeqMod   \* sequence numbers are taken modulo SeqMod (2^16 on the wire)

ASSUME SeqModAssumption == SeqMod \in Nat /\ SeqMod > 1

(* What is stored of a chunk cut at the wrong place: the four length bytes  *)
(* are stripped from a fragment exactly when it is stored as the first one. *)
Mangled == 0

Idle == [active |-> FALSE, first |-> 0, total |-> 0, frags |-> {}]

Distance(from, to) == (to - from) % SeqMod

StartsNewSequence_FaultNoWrap(a, f) == a.active /\ f.seq < a.first

(* The fragment is behind the first one by less than half the number space: *)
(* it opens a new response.                                                 *)
StartsNewSequence(a, f) ==
  /\ a.active
  /\ f.seq # a.first
  /\ Distance(a.first, f.seq) > (SeqMod \div 2) - 1

StoredAs(f, asFirst) ==
  [seq |-> f.seq, chunk |-> IF asFirst = f.head THEN f.chunk ELSE Mangled]

(* fragments[seq] = ... : a later fragment replaces an earlier one. *)
Store(frags, f, asFirst) ==
  {g \in frags : g.seq # f.seq} \cup {StoredAs(f, asFirst)}

(* The state after add(f). *)
Add(a, f) ==
  CASE ~a.active \/ StartsNewSequence(a, f) ->
         IF f.short
           THEN [a EXCEPT !.frags = {}]
           ELSE [active |-> TRUE, first |-> f.seq, total |-> f.total,
                 frags |-> Store({}, f, TRUE)]
    [] a.active /\ f.seq = a.first ->
         IF f.short \/ f.total # a.total
           THEN a
           ELSE [a EXCEPT !.frags = Store(a.frags, f, TRUE)]
    [] OTHER -> [a EXCEPT !.frags = Store(a.frags, f, FALSE)]

(* add() looks for a complete response only after it has stored something. *)
Stores(a, f) ==
  IF ~a.active \/ StartsNewSequence(a, f) THEN ~f.short
  ELSE f.seq = a.first => ~f.short /\ f.total = a.total

Slot_FaultNoWrap(a, k) == a.first + k

Slot(a, k) == (a.first + k) % SeqMod

Complete_FaultOneMore(a) ==
  /\ a.active
  /\ \A k \in 0 .. a.total : \E g \in a.frags : g.seq = Slot(a, k)

(* _contiguous_len() >= total_len *)
Complete(a) ==
  /\ a.active
  /\ \A k \in 0 .. (a.total - 1) : \E g \in a.frags : g.seq = Slot(a, k)

(* _reassemble(): the stored chunks from the first fragment on. *)
Reassembled(a) ==
  [k \in 1 .. a.total |->
     (CHOOSE g \in a.frags : g.seq = Slot(a, k - 1)).chunk]

=============================================================================
