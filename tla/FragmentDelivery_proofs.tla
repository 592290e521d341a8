----------------------- MODULE FragmentDelivery_proofs -----------------------
(***************************************************************************)
(* FragmentDelivery at every position of the sequence space: lists whose   *)
(* head comes first, and whose fragments are repeated no later than the    *)
(* list is complete, are forwarded whole, once each and in order.          *)
(***************************************************************************)
EXTENDS FragmentDelivery, TLAPS

----------------------------------------------------------------------------
(* Counting modulo SeqMod *)

LEMMA SmallMultiple ==
  ASSUME NEW m \in Nat, m > 0, NEW d \in Int, -m < m * d, m * d < m
  PROVE  d = 0
<1>1. ASSUME d >= 1 PROVE FALSE
  <2>1. PICK e \in Nat : d = e + 1
    BY <1>1
  <2>2. m * d = m * e + m
    BY <2>1
  <2>3. m * e >= 0
    BY <2>1
  <2>4. QED
    BY <2>2, <2>3
<1>2. ASSUME d <= -1 PROVE FALSE
  <2>1. PICK e \in Nat : d = -e - 1
    BY <1>2
  <2>2. m * d = -(m * e) - m
    BY <2>1
  <2>3. m * e >= 0
    BY <2>1
  <2>4. QED
    BY <2>2, <2>3
<1>3. QED
  BY <1>1, <1>2

LEMMA Quotient ==
  ASSUME NEW m \in Nat, m > 0, NEW x \in Int
  PROVE  \E q \in Int, r \in 0 .. (m - 1) : x = m * q + r /\ r = (x % m)
<1>1. x = m * (x \div m) + (x % m) /\ (x \div m) \in Int /\ (x % m) \in 0 .. (m - 1)
  OBVIOUS
<1>2. QED
  BY <1>1

(* The remainder is the only number of its residue class below m. *)
LEMMA Remainder ==
  ASSUME NEW m \in Nat, m > 0, NEW x \in Int,
         NEW q \in Int, NEW r \in 0 .. (m - 1), x = m * q + r
  PROVE  r = (x % m)
<1>1. PICK p \in Int, s \in 0 .. (m - 1) : x = m * p + s /\ s = (x % m)
  BY Quotient
<1>2. PICK d \in Int : d = p - q
  OBVIOUS
<1>3. m * d = r - s
  <2>1. m * d = m * p - m * q
    BY <1>2
  <2>2. QED
    BY <1>1, <2>1
<1>4. -m < r - s /\ r - s < m
  OBVIOUS
<1>5. d = 0
  BY <1>3, <1>4, SmallMultiple
<1>6. m * d = 0
  BY <1>5
<1>7. r = s
  BY <1>3, <1>6
<1>8. QED
  BY <1>1, <1>7

(* A number behind another in the sequence space keeps its distance. *)
LEMMA ModDistance ==
  ASSUME NEW m \in Nat, m > 0, NEW h \in Nat, NEW j \in 0 .. (m - 1)
  PROVE  /\ ((h % m) + j) % m = (h + j) % m
         /\ (((h + j) % m) - (h % m)) % m = j
<1>1. PICK q \in Int, r \in 0 .. (m - 1) : h = m * q + r /\ r = (h % m)
  BY Quotient
<1>2. PICK p \in Int, s \in 0 .. (m - 1) : h + j = m * p + s /\ s = ((h + j) % m)
  <2>1. h + j \in Int
    OBVIOUS
  <2>2. QED
    BY <2>1, Quotient
<1>3. PICK d \in Int, e \in Int : d = p - q /\ e = q - p
  OBVIOUS
<1>4. m * d = m * p - m * q /\ m * e = m * q - m * p
  BY <1>3
<1>5. s = ((r + j) % m)
  <2>1. r + j = m * d + s
    BY <1>1, <1>2, <1>4
  <2>2. r + j \in Int
    OBVIOUS
  <2>3. QED
    BY <2>1, <2>2, Remainder
<1>6. j = ((s - r) % m)
  <2>1. s - r = m * e + j
    BY <1>1, <1>2, <1>4
  <2>2. s - r \in Int
    OBVIOUS
  <2>3. QED
    BY <2>1, <2>2, Remainder
<1>7. QED
  BY <1>1, <1>2, <1>5, <1>6

LEMMA ModApart ==
  ASSUME NEW m \in Nat, m > 0, NEW h \in Nat,
         NEW i \in 0 .. (m - 1), NEW j \in 0 .. (m - 1), (h + i) % m = (h + j) % m
  PROVE  i = j
<1>1. (((h + i) % m) - (h % m)) % m = i
  BY ModDistance
<1>2. (((h + j) % m) - (h % m)) % m = j
  BY ModDistance
<1>3. QED
  BY <1>1, <1>2

----------------------------------------------------------------------------
(* The fragments of the list being sent *)

Assemblers ==
  [active : BOOLEAN, first : Nat, total : Nat, frags : SUBSET [seq : Nat, chunk : Nat]]

Sessions ==
  [seqToClient : Nat, seqFromServer : Nat, csOffset : Nat, asm : Assemblers,
   pendingList : BOOLEAN]

(* The sequence of fragment k of list l, before it is reduced to the wire's. *)
Place(l, k) == base + Chunk(l, k) - 1

Piece(l, k) == [seq |-> Place(l, k) % SeqMod, chunk |-> Chunk(l, k)]

Pieces(l, parts) == {Piece(l, k) : k \in parts}

Whole(l) == [k \in Parts |-> Chunk(l, k)]

(* ListsIntact and ListForwarded are not inductive: what is forwarded next   *)
(* depends on the assembler, which holds exactly the pieces that have come   *)
(* of the list being sent, and nothing once that list is complete.           *)
Assembling ==
  IF got = {} \/ got = Parts
    THEN session.asm = Idle
    ELSE /\ 1 \in got
         /\ session.asm = [active |-> TRUE, first |-> Place(list, 1) % SeqMod,
                           total |-> NFrags, frags |-> Pieces(list, got)]
         /\ session.pendingList

DeliveryInv ==
  /\ session \in Sessions
  /\ base \in 0 .. (SeqMod - 1) /\ list \in Nat \ {0} /\ got \subseteq Parts
  /\ Assembling
  /\ forwarded \in Seq({Whole(n) : n \in Nat \ {0}})
  /\ ListsIntact /\ ListForwarded

----------------------------------------------------------------------------
(* Where the fragments lie *)

LEMMA PlacesOfList ==
  ASSUME base \in Nat, NEW l \in Nat \ {0}
  PROVE  \E h \in Nat : /\ Place(l, 1) = h
                        /\ \A k \in Parts : Place(l, k) = h + (k - 1) /\ Chunk(l, k) \in Nat
<1>1. NFrags \in Nat /\ NFrags > 1
  BY DeliveryAssumption
<1>2. PICK e \in Nat : l = e + 1
  OBVIOUS
<1>3. PICK p \in Nat : p = (l - 1) * NFrags
  <2>1. e * NFrags \in Nat
    BY <1>1
  <2>2. QED
    BY <1>2, <2>1
<1>4. \A k \in Parts : Chunk(l, k) = p + k
  BY <1>1, <1>3 DEF Chunk, Parts
<1>5. 1 \in Parts /\ \A k \in Parts : k \in Nat /\ k > 0
  BY <1>1 DEF Parts
<1>6. PICK b \in Nat : b = base
  OBVIOUS
<1>7. Place(l, 1) = b + p /\ \A k \in Parts : Place(l, k) = b + p + (k - 1)
  BY <1>4, <1>5, <1>6 DEF Place
<1>8. QED
  BY <1>4, <1>5, <1>6, <1>7

(* A list takes at most half the sequence space. *)
LEMMA HalfSpace ==
  /\ SeqMod \in Nat /\ SeqMod > 0 /\ 1 \in Parts
  /\ \A k \in Parts : /\ k \in Nat /\ k - 1 \in 0 .. (SeqMod - 1)
                      /\ k - 1 <= (SeqMod \div 2) - 1
<1>1. PICK m \in Nat, n \in Nat : m = SeqMod /\ n = NFrags /\ m > 1 /\ n > 1
  BY SeqModAssumption, DeliveryAssumption
<1>2. PICK half \in Nat : half = SeqMod \div 2 /\ half <= m
  BY <1>1
<1>3. n <= half
  BY <1>1, <1>2, DeliveryAssumption
<1>4. QED
  BY <1>1, <1>2, <1>3 DEF Parts

LEMMA PlaceDistance ==
  ASSUME base \in Nat, NEW l \in Nat \ {0}, NEW k \in Parts
  PROVE  /\ Distance(Place(l, 1) % SeqMod, Place(l, k) % SeqMod) = k - 1
         /\ ((Place(l, 1) % SeqMod) + (k - 1)) % SeqMod = Place(l, k) % SeqMod
<1>1. PICK h \in Nat : Place(l, 1) = h /\ Place(l, k) = h + (k - 1)
  BY PlacesOfList
<1>2. PICK m \in Nat, j \in Nat : m = SeqMod /\ m > 0 /\ j = k - 1 /\ j \in 0 .. (m - 1)
  BY HalfSpace
<1>3. /\ ((h % m) + j) % m = (h + j) % m
      /\ (((h + j) % m) - (h % m)) % m = j
  BY <1>2, ModDistance, ZenonT(60)
<1>4. QED
  BY <1>1, <1>2, <1>3 DEF Distance

LEMMA PlacesApart ==
  ASSUME base \in Nat, NEW l \in Nat \ {0}, NEW i \in Parts, NEW j \in Parts,
         Place(l, i) % SeqMod = Place(l, j) % SeqMod
  PROVE  i = j
<1>1. PICK h \in Nat : Place(l, i) = h + (i - 1) /\ Place(l, j) = h + (j - 1)
  BY PlacesOfList
<1>2. i - 1 = j - 1
  BY <1>1, HalfSpace, ModApart
<1>3. QED
  BY <1>2, HalfSpace

LEMMA PlaceType ==
  ASSUME base \in Nat, NEW l \in Nat \ {0}, NEW k \in Parts
  PROVE  (Place(l, k) % SeqMod) \in Nat /\ Chunk(l, k) \in Nat
         /\ Piece(l, k) \in [seq : Nat, chunk : Nat]
<1>1. PICK h \in Nat : Place(l, k) = h + (k - 1) /\ Chunk(l, k) \in Nat
  BY PlacesOfList
<1>2. PICK p \in Nat : p = Place(l, k)
  BY <1>1, HalfSpace
<1>3. (p % SeqMod) \in Nat
  BY SeqModAssumption
<1>4. QED
  BY <1>1, <1>2, <1>3 DEF Piece

----------------------------------------------------------------------------
(* The assembler on these fragments *)

(* The assembler that holds these fragments of a list. *)
Holding(l, parts) ==
  [active |-> TRUE, first |-> Place(l, 1) % SeqMod, total |-> NFrags,
   frags |-> Pieces(l, parts)]

LEMMA CutParts ==
  ASSUME NEW l, NEW k \in Parts, NEW f \in Cut(l, k)
  PROVE  /\ f.seq = Place(l, k) % SeqMod /\ f.chunk = Chunk(l, k)
         /\ f.head <=> k = 1
         /\ f.head \in BOOLEAN
         /\ k = 1 => f.total = NFrags /\ ~f.short
<1>1. NFrags # 1
  BY DeliveryAssumption
<1>2. f.seq = (base + Chunk(l, k) - 1) % SeqMod
  BY DEF Cut
<1>3. f.chunk = Chunk(l, k)
  BY DEF Cut
<1>4. f.head = (k = 1)
  BY DEF Cut
<1>5. f.total \in IF k = 1 THEN {NFrags} ELSE GarbageTotals
  BY DEF Cut
<1>6. f.short \in IF k = NFrags THEN BOOLEAN ELSE {FALSE}
  BY DEF Cut
<1>7. QED
  BY <1>1, <1>2, <1>3, <1>4, <1>5, <1>6 DEF Place

LEMMA PieceAt ==
  ASSUME base \in Nat, NEW l \in Nat \ {0}, NEW parts \in SUBSET Parts, NEW k \in Parts,
         NEW g \in Pieces(l, parts), g.seq = Place(l, k) % SeqMod
  PROVE  k \in parts /\ g = Piece(l, k)
<1>1. PICK i \in parts : g = Piece(l, i)
  BY DEF Pieces
<1>2. Place(l, i) % SeqMod = Place(l, k) % SeqMod
  BY <1>1 DEF Piece
<1>3. i = k
  BY <1>2, PlacesApart
<1>4. QED
  BY <1>1, <1>3

LEMMA StorePiece ==
  ASSUME base \in Nat, NEW l \in Nat \ {0}, NEW parts \in SUBSET Parts, NEW k \in Parts,
         NEW f \in Cut(l, k)
  PROVE  Store(Pieces(l, parts), f, f.head) = Pieces(l, parts \cup {k})
<1>1. f.seq = Place(l, k) % SeqMod /\ f.chunk = Chunk(l, k)
  BY CutParts
<1>2. StoredAs(f, f.head) = Piece(l, k)
  BY <1>1 DEF StoredAs, Piece
<1>3. \A g \in Pieces(l, parts) : g.seq = f.seq => g = Piece(l, k)
  BY <1>1, PlacesApart DEF Pieces, Piece
<1>4. QED
  BY <1>2, <1>3 DEF Store, Pieces

LEMMA FirstPiece ==
  ASSUME base \in Nat, NEW l \in Nat \ {0}, NEW f \in Cut(l, 1)
  PROVE  Add(Idle, f) = Holding(l, {1}) /\ Stores(Idle, f)
<1>1. 1 \in Parts
  BY HalfSpace
<1>2. f.seq = Place(l, 1) % SeqMod /\ f.total = NFrags /\ ~f.short /\ f.head = TRUE
  BY <1>1, CutParts
<1>3. Store({}, f, TRUE) = Pieces(l, {1})
  <2>1. Store(Pieces(l, {}), f, f.head) = Pieces(l, {} \cup {1})
    BY <1>1, StorePiece
  <2>2. Pieces(l, {}) = {}
    BY DEF Pieces
  <2>3. QED
    BY <1>2, <2>1, <2>2
<1>4. ~Idle.active
  BY DEF Idle
<1>5. QED
  BY <1>2, <1>3, <1>4 DEF Add, Stores, Holding

LEMMA FragsReplaced ==
  ASSUME NEW active, NEW first, NEW total, NEW old, NEW new
  PROVE  [[active |-> active, first |-> first, total |-> total, frags |-> old]
            EXCEPT !.frags = new]
           = [active |-> active, first |-> first, total |-> total, frags |-> new]
  OBVIOUS

LEMMA NextPiece ==
  ASSUME base \in Nat, NEW l \in Nat \ {0}, NEW parts \in SUBSET Parts, 1 \in parts,
         NEW k \in Parts, NEW f \in Cut(l, k)
  PROVE  /\ Add(Holding(l, parts), f) = Holding(l, parts \cup {k})
         /\ Stores(Holding(l, parts), f)
<1> DEFINE a == Holding(l, parts)
<1>1. /\ f.seq = Place(l, k) % SeqMod /\ f.head \in BOOLEAN /\ (f.head <=> k = 1)
      /\ k = 1 => f.total = NFrags /\ ~f.short
  BY CutParts
<1>2. /\ a.active /\ a.first = Place(l, 1) % SeqMod /\ a.total = NFrags
      /\ a.frags = Pieces(l, parts)
  BY DEF Holding
<1>2a. [a EXCEPT !.frags = Pieces(l, parts \cup {k})] = Holding(l, parts \cup {k})
  <2>1. PICK first, old, new, active :
          first = Place(l, 1) % SeqMod /\ old = Pieces(l, parts)
          /\ new = Pieces(l, parts \cup {k}) /\ active = TRUE
    OBVIOUS
  <2>2. [[active |-> active, first |-> first, total |-> NFrags, frags |-> old]
            EXCEPT !.frags = new]
           = [active |-> active, first |-> first, total |-> NFrags, frags |-> new]
    BY FragsReplaced
  <2>3. /\ Holding(l, parts) =
              [active |-> active, first |-> first, total |-> NFrags, frags |-> old]
        /\ Holding(l, parts \cup {k}) =
              [active |-> active, first |-> first, total |-> NFrags, frags |-> new]
    BY <2>1 DEF Holding
  <2>4. QED
    BY <2>1, <2>2, <2>3, Zenon
<1>3. ~StartsNewSequence(a, f)
  <2>1. Distance(a.first, f.seq) = k - 1
    BY <1>1, <1>2, PlaceDistance
  <2>2. PICK half \in Int : half = SeqMod \div 2 /\ k - 1 <= half - 1 /\ k \in Nat
    BY HalfSpace, SeqModAssumption
  <2>3. QED
    BY <2>1, <2>2 DEF StartsNewSequence
<1>4. Store(a.frags, f, f.head) = Pieces(l, parts \cup {k})
  BY <1>2, StorePiece
<1>5. f.seq = a.first <=> k = 1
  BY <1>1, <1>2, HalfSpace, PlacesApart
<1> HIDE DEF a
<1>6. CASE k = 1
  <2>1. f.head = TRUE
    BY <1>1, <1>6
  <2>2. Add(a, f) = [a EXCEPT !.frags = Store(a.frags, f, TRUE)]
    BY <1>1, <1>2, <1>3, <1>5, <1>6 DEF Add
  <2>3. Add(a, f) = Holding(l, parts \cup {k})
    BY <1>2a, <1>4, <2>1, <2>2
  <2>4. Stores(a, f)
    BY <1>1, <1>2, <1>3, <1>5, <1>6 DEF Stores
  <2>5. QED
    BY <2>3, <2>4 DEF a
<1>7. CASE k # 1
  <2>1. f.head = FALSE
    BY <1>1, <1>7
  <2>2. Add(a, f) = [a EXCEPT !.frags = Store(a.frags, f, FALSE)]
    BY <1>2, <1>3, <1>5, <1>7 DEF Add
  <2>3. Add(a, f) = Holding(l, parts \cup {k})
    BY <1>2a, <1>4, <2>1, <2>2
  <2>4. Stores(a, f)
    BY <1>2, <1>3, <1>5, <1>7 DEF Stores
  <2>5. QED
    BY <2>3, <2>4 DEF a
<1>8. QED
  BY <1>6, <1>7

(* The list is complete when the last of its fragments is stored, no sooner. *)
LEMMA CompletePieces ==
  ASSUME base \in Nat, NEW l \in Nat \ {0}, NEW parts \in SUBSET Parts
  PROVE  Complete(Holding(l, parts)) <=> parts = Parts
<1> DEFINE a == Holding(l, parts)
<1>1. \A k \in Parts : Slot(a, k - 1) = Place(l, k) % SeqMod
  BY PlaceDistance DEF Slot, Holding
<1>2. \A k \in Parts : (\E g \in a.frags : g.seq = Slot(a, k - 1)) <=> k \in parts
  <2> SUFFICES ASSUME NEW k \in Parts
               PROVE  (\E g \in Pieces(l, parts) : g.seq = Place(l, k) % SeqMod) <=> k \in parts
    BY <1>1 DEF Holding
  <2>1. Piece(l, k).seq = Place(l, k) % SeqMod
    BY DEF Piece
  <2>2. k \in parts => Piece(l, k) \in Pieces(l, parts)
    BY DEF Pieces
  <2>3. QED
    BY <2>1, <2>2, PieceAt
<1>3. a.active /\ a.total = NFrags
  BY DEF Holding
<1>4. \A j \in 0 .. (NFrags - 1) : j + 1 \in Parts /\ (j + 1) - 1 = j
  BY DeliveryAssumption DEF Parts
<1>5. \A k \in Parts : k - 1 \in 0 .. (NFrags - 1)
  BY DeliveryAssumption DEF Parts
<1> HIDE DEF a
<1>6. Complete(a) <=> \A k \in Parts : k \in parts
  <2>1. ASSUME Complete(a), NEW k \in Parts PROVE k \in parts
    BY <1>2, <1>3, <1>5, <2>1 DEF Complete
  <2>2. ASSUME \A k \in Parts : k \in parts PROVE Complete(a)
    <3> SUFFICES ASSUME NEW j \in 0 .. (NFrags - 1)
                 PROVE  \E g \in a.frags : g.seq = Slot(a, j)
      BY <1>3 DEF Complete
    <3>1. PICK k \in Parts : j = k - 1
      BY <1>4
    <3>2. QED
      BY <1>2, <2>2, <3>1
  <2>3. QED
    BY <2>1, <2>2
<1>7. QED
  BY <1>6 DEF a

LEMMA ReassembledWhole ==
  ASSUME base \in Nat, NEW l \in Nat \ {0}
  PROVE  Reassembled(Holding(l, Parts)) = Whole(l)
<1> DEFINE a == Holding(l, Parts)
           At(k) == CHOOSE g \in a.frags : g.seq = Slot(a, k - 1)
<1>1. \A k \in Parts : Slot(a, k - 1) = Place(l, k) % SeqMod
  BY PlaceDistance DEF Slot, Holding
<1>2. ASSUME NEW k \in Parts PROVE At(k) = Piece(l, k)
  <2>1. Piece(l, k) \in a.frags /\ Piece(l, k).seq = Slot(a, k - 1)
    BY <1>1 DEF Holding, Pieces, Piece
  <2>2. \A g \in a.frags : g.seq = Slot(a, k - 1) => g = Piece(l, k)
    BY <1>1, PieceAt DEF Holding
  <2>3. QED
    BY <2>1, <2>2
<1>3. a.total = NFrags
  BY DEF Holding
<1>4. \A k \in Parts : At(k).chunk = Chunk(l, k)
  <2> SUFFICES ASSUME NEW k \in Parts PROVE At(k).chunk = Chunk(l, k)
    OBVIOUS
  <2>1. At(k) = Piece(l, k)
    BY <1>2
  <2> HIDE DEF At
  <2>2. QED
    BY <2>1 DEF Piece
<1>5. Reassembled(a) = [k \in 1 .. a.total |-> At(k).chunk]
  BY DEF Reassembled
<1> HIDE DEF a, At
<1>6. Reassembled(a) = [k \in Parts |-> Chunk(l, k)]
  BY <1>3, <1>4, <1>5 DEF Parts
<1>7. QED
  BY <1>6 DEF a, Whole

LEMMA IdleType == Idle \in Assemblers
<1>1. PICK idle : idle = FALSE
  OBVIOUS
<1>2. idle \in BOOLEAN
  BY <1>1
<1>3. [active |-> idle, first |-> 0, total |-> 0, frags |-> {}] \in Assemblers
  BY <1>2 DEF Assemblers
<1>4. QED
  BY <1>1, <1>3 DEF Idle

LEMMA HoldingType ==
  ASSUME base \in Nat, NEW l \in Nat \ {0}, NEW parts \in SUBSET Parts
  PROVE  Holding(l, parts) \in Assemblers
<1>1. PICK active : active = TRUE
  OBVIOUS
<1>2. active \in BOOLEAN
  BY <1>1
<1>3. PICK first, frags : first = Place(l, 1) % SeqMod /\ frags = Pieces(l, parts)
  OBVIOUS
<1>4. first \in Nat
  BY <1>3, HalfSpace, PlaceType
<1>5. frags \in SUBSET [seq : Nat, chunk : Nat]
  BY <1>3, PlaceType DEF Pieces
<1>6. [active |-> active, first |-> first, total |-> NFrags, frags |-> frags] \in Assemblers
  BY <1>2, <1>4, <1>5, DeliveryAssumption DEF Assemblers
<1>7. Holding(l, parts) = [active |-> active, first |-> first, total |-> NFrags, frags |-> frags]
  BY <1>1, <1>3 DEF Holding
<1>8. QED
  BY <1>6, <1>7

LEMMA Received ==
  ASSUME NEW s \in Sessions, NEW f, f.seq \in Nat, f.head \in BOOLEAN, NEW a \in Assemblers,
         a = Add(s.asm, f), Stores(s.asm, f), ~HeaderUnreadable(s, f)
  PROVE  /\ RecvFragment(s, f) \in Sessions
         /\ CompletesList(s, f) <=> Complete(a) /\ PendingList(s, f)
         /\ RecvFragment(s, f).asm = IF Complete(a) THEN Idle ELSE a
         /\ RecvFragment(s, f).pendingList = IF Complete(a) THEN FALSE ELSE PendingList(s, f)
<1>1. PICK m \in Nat : m = SeqMod /\ m > 1
  BY SeqModAssumption
<1>2. PICK following \in Nat : following = (f.seq + 1) % SeqMod
  <2>1. f.seq + 1 \in Nat
    OBVIOUS
  <2>2. ((f.seq + 1) % m) \in Nat
    BY <1>1, <2>1
  <2>3. QED
    BY <1>1, <2>2
<1>3. Completes(s, f) <=> Complete(a)
  BY DEF Completes
<1>4. PICK pending : pending = PendingList(s, f)
  OBVIOUS
<1>5. pending \in BOOLEAN
  <2>1. s.pendingList \in BOOLEAN
    BY DEF Sessions
  <2>2. PICK p, q : p = s.pendingList /\ q = f.head
    OBVIOUS
  <2>3. pending = IF s.asm.active THEN p ELSE q
    BY <1>4, <2>2 DEF PendingList
  <2>4. QED
    BY <2>1, <2>2, <2>3
<1>6. PICK sent \in Nat : sent = IF pending THEN s.seqToClient + 1 ELSE s.seqToClient
  BY <1>5 DEF Sessions
<1>7. PICK r : r = RecvFragment(s, f)
  OBVIOUS
<1>8. CASE Complete(a)
  <2>1. r = [s EXCEPT !.seqFromServer = following, !.asm = Idle, !.pendingList = FALSE,
                      !.seqToClient = IF PendingList(s, f) THEN @ + 1 ELSE @]
    BY <1>2, <1>3, <1>8, <1>7, Zenon DEF RecvFragment
  <2>2. PICK no : no = FALSE
    OBVIOUS
  <2>3. no \in BOOLEAN
    BY <2>2
  <2>4. r = [s EXCEPT !.seqFromServer = following, !.asm = Idle, !.pendingList = no,
                      !.seqToClient = sent]
    BY <2>1, <2>2, <1>4, <1>6
  <2>5. r \in Sessions /\ r.asm = Idle /\ r.pendingList = no
    BY <1>2, <2>3, <2>4, IdleType DEF Sessions
  <2>6. QED
    BY <1>3, <1>8, <1>7, <2>2, <2>5 DEF CompletesList
<1>9. CASE ~Complete(a)
  <2>1. r = [s EXCEPT !.seqFromServer = following, !.asm = a, !.pendingList = pending]
    BY <1>2, <1>3, <1>4, <1>9, <1>7, Zenon DEF RecvFragment
  <2>2. r \in Sessions /\ r.asm = a /\ r.pendingList = pending
    BY <1>2, <1>5, <2>1 DEF Sessions
  <2>3. QED
    BY <1>3, <1>4, <1>7, <1>9, <2>2 DEF CompletesList
<1>10. QED
  BY <1>8, <1>9

----------------------------------------------------------------------------
(* The invariant *)

LEMMA DeliveryInit == Init => DeliveryInv
<1> SUFFICES ASSUME Init PROVE DeliveryInv
  OBVIOUS
<1>1. session \in Sessions /\ session.asm = Idle
  <2>1. PICK no : no = FALSE
    OBVIOUS
  <2>2. no \in BOOLEAN
    BY <2>1
  <2>3. session = [seqToClient |-> 0, seqFromServer |-> 0, csOffset |-> 0,
                   asm |-> Idle, pendingList |-> no]
    BY <2>1 DEF Init, NewSession
  <2>4. QED
    BY <2>2, <2>3, IdleType DEF Sessions
<1>2. got # Parts /\ got = {}
  BY HalfSpace DEF Init
<1>3. /\ base \in 0 .. (SeqMod - 1) /\ list = 1 /\ list \in Nat \ {0}
      /\ forwarded = <<>>
  BY DEF Init
<1>4. forwarded \in Seq({Whole(n) : n \in Nat \ {0}}) /\ Len(forwarded) = 0
  BY <1>3
<1>5. QED
  BY <1>1, <1>2, <1>3, <1>4 DEF DeliveryInv, Assembling, ListsIntact, ListForwarded

(* A fragment reaches the proxy while the list is incomplete: the head, or   *)
(* any fragment once the head has come, whether for the first time or again. *)
LEMMA FragmentStep ==
  ASSUME DeliveryInv, got # Parts, NEW k \in Parts, k = 1 \/ 1 \in got,
         NEW f \in Cut(list, k), HandleFragment(f),
         got' = got \cup {k}, base' = base, list' = list
  PROVE  DeliveryInv'
<1>1. base \in Nat /\ list \in Nat \ {0} /\ got \in SUBSET Parts /\ session \in Sessions
  BY SeqModAssumption DEF DeliveryInv
<1>2. PICK l \in Nat \ {0}, parts \in SUBSET Parts :
        l = list /\ parts = got \cup {k}
  BY <1>1
<1>3. 1 \in parts
  BY <1>2
<1>4. /\ f.seq \in Nat /\ f.head \in BOOLEAN /\ (f.head <=> k = 1)
      /\ k = 1 => ~f.short
  BY <1>1, CutParts, PlaceType
<1>5. /\ Add(session.asm, f) = Holding(l, parts) /\ Stores(session.asm, f)
      /\ ~HeaderUnreadable(session, f) /\ PendingList(session, f)
  <2>1. CASE got = {}
    <3>1. session.asm = Idle /\ k = 1 /\ parts = {1}
      BY <1>2, <2>1 DEF DeliveryInv, Assembling
    <3>2. f \in Cut(l, 1)
      BY <1>2, <3>1
    <3>3. Add(Idle, f) = Holding(l, {1}) /\ Stores(Idle, f)
      BY <1>1, <3>2, FirstPiece
    <3>4. ~Idle.active
      BY DEF Idle
    <3>5. QED
      BY <1>4, <3>1, <3>3, <3>4 DEF HeaderUnreadable, PendingList
  <2>2. CASE got # {}
    <3>1. session.asm = Holding(l, got) /\ session.pendingList /\ 1 \in got
      BY <1>2, <2>2 DEF DeliveryInv, Assembling, Holding
    <3>2. Holding(l, got).active
      BY DEF Holding
    <3>3. /\ Add(Holding(l, got), f) = Holding(l, got \cup {k})
          /\ Stores(Holding(l, got), f)
      BY <1>1, <1>2, <3>1, NextPiece
    <3>4. QED
      BY <1>2, <3>1, <3>2, <3>3 DEF HeaderUnreadable, PendingList
  <2>3. QED
    BY <2>1, <2>2
<1>6. PICK a \in Assemblers : a = Holding(l, parts)
  BY <1>1, HoldingType
<1>7. Complete(a) <=> parts = Parts
  BY <1>1, <1>6, CompletePieces
<1>8. PICK s \in Sessions : s = session
  BY <1>1
<1>9. /\ session' \in Sessions
      /\ CompletesList(session, f) <=> parts = Parts
      /\ session'.asm = IF parts = Parts THEN Idle ELSE a
      /\ parts # Parts => session'.pendingList
  <2>1. /\ RecvFragment(s, f) \in Sessions
        /\ CompletesList(s, f) <=> Complete(a) /\ PendingList(s, f)
        /\ RecvFragment(s, f).asm = IF Complete(a) THEN Idle ELSE a
        /\ RecvFragment(s, f).pendingList = IF Complete(a) THEN FALSE ELSE PendingList(s, f)
    BY <1>4, <1>5, <1>6, <1>8, Received
  <2>2. session' = RecvFragment(s, f)
    BY <1>8 DEF HandleFragment
  <2>3. QED
    BY <1>5, <1>7, <1>8, <2>1, <2>2
<1>10. Assembling'
  <2>1. Pieces(list, got)' = Pieces(l, parts) /\ Place(list, 1)' = Place(l, 1)
    BY <1>2 DEF Pieces, Piece, Place, Chunk
  <2>2. got' = parts /\ got' # {}
    BY <1>2
  <2>3. QED
    BY <1>2, <1>3, <1>6, <1>9, <2>1, <2>2 DEF Assembling, Holding
<1>11. PICK sent \in Seq({Whole(n) : n \in Nat \ {0}}) : sent = forwarded
  BY DEF DeliveryInv
<1>12. Len(sent) = l - 1
  BY <1>2, <1>11 DEF DeliveryInv, ListForwarded
<1>13. /\ forwarded' \in Seq({Whole(n) : n \in Nat \ {0}})
       /\ ListsIntact' /\ ListForwarded'
  <2>1. CASE parts = Parts
    <3>1. forwarded' = Append(sent, Whole(l))
      <4>1. forwarded' = Append(sent, Reassembled(Holding(l, parts)))
        BY <1>5, <1>9, <1>11, <2>1 DEF HandleFragment
      <4>2. QED
        BY <1>1, <2>1, <4>1, ReassembledWhole
    <3>2. PICK whole \in {Whole(n) : n \in Nat \ {0}} : whole = Whole(l)
      OBVIOUS
    <3>3. PICK after : after = Append(sent, whole)
      OBVIOUS
    <3>4. /\ after \in Seq({Whole(n) : n \in Nat \ {0}}) /\ Len(after) = l
          /\ DOMAIN after = 1 .. l /\ after[l] = whole
          /\ \A n \in 1 .. (l - 1) : after[n] = sent[n]
      BY <1>12, <3>3
    <3>5. \A n \in 1 .. (l - 1) : sent[n] = [j \in Parts |-> Chunk(n, j)]
      BY <1>11, <1>12 DEF DeliveryInv, ListsIntact
    <3>6. \A n \in 1 .. l : after[n] = [j \in Parts |-> Chunk(n, j)]
      <4> SUFFICES ASSUME NEW n \in 1 .. l PROVE after[n] = [j \in Parts |-> Chunk(n, j)]
        OBVIOUS
      <4>1. n \in 1 .. (l - 1) \/ n = l
        OBVIOUS
      <4>2. whole = [j \in Parts |-> Chunk(l, j)]
        BY <3>2 DEF Whole
      <4>3. QED
        BY <3>4, <3>5, <4>1, <4>2
    <3>7. forwarded' = after /\ got' = Parts
      BY <1>2, <2>1, <3>1, <3>2, <3>3
    <3>8. ListsIntact' /\ ListForwarded'
      BY <1>2, <3>4, <3>6, <3>7 DEF ListsIntact, ListForwarded, Chunk, Parts
    <3>9. QED
      BY <3>4, <3>7, <3>8
  <2>2. CASE parts # Parts
    <3>1. forwarded' = forwarded /\ got' # Parts
      BY <1>2, <1>9, <2>2 DEF HandleFragment
    <3>2. QED
      BY <1>2, <1>11, <1>12, <3>1 DEF DeliveryInv, ListsIntact, ListForwarded, Chunk, Parts, Whole
  <2>3. QED
    BY <2>1, <2>2
<1>14. QED
  BY <1>1, <1>2, <1>9, <1>10, <1>13 DEF DeliveryInv, Parts

LEMMA DeliveryNext ==
  ASSUME HeadFirst, ~LateRepeats
  PROVE  DeliveryInv /\ [Next]_vars => DeliveryInv'
<1> SUFFICES ASSUME DeliveryInv, [Next]_vars PROVE DeliveryInv'
  OBVIOUS
<1>1. ASSUME NEW k \in Parts, Arrives(k) PROVE DeliveryInv'
  <2>1. PICK f \in Cut(list, k) : HandleFragment(f)
    BY <1>1 DEF Arrives
  <2>2. /\ got # Parts /\ (k = 1 \/ 1 \in got)
        /\ got' = got \cup {k} /\ base' = base /\ list' = list
    BY <1>1 DEF Arrives
  <2>3. QED
    BY <2>1, <2>2, FragmentStep
<1>2. ASSUME NEW k \in Parts, Repeats(k) PROVE DeliveryInv'
  <2>1. PICK f \in Cut(list, k) : HandleFragment(f)
    BY <1>2 DEF Repeats
  <2>2. got # Parts /\ k \in got /\ got' = got \cup {k} /\ base' = base /\ list' = list
    BY <1>2 DEF Repeats
  <2>3. 1 \in got
    BY <2>2 DEF DeliveryInv, Assembling
  <2>4. QED
    BY <2>1, <2>2, <2>3, FragmentStep
<1>3. ASSUME NextList PROVE DeliveryInv'
  <2>1. /\ got = Parts /\ got' = {} /\ list' = list + 1
        /\ UNCHANGED <<session, base, forwarded>>
    BY <1>3 DEF NextList
  <2>2. session'.asm = Idle
    BY <2>1 DEF DeliveryInv, Assembling
  <2>3. Len(forwarded) = list /\ list \in Nat \ {0}
    BY <2>1 DEF DeliveryInv, ListForwarded
  <2>4. got' # Parts
    BY <2>1, HalfSpace
  <2>5. Len(forwarded') = list' - 1 /\ list' \in Nat \ {0}
    BY <2>1, <2>3
  <2>6. ListForwarded'
    BY <2>4, <2>5 DEF ListForwarded, Parts
  <2>7. ListsIntact'
    BY <2>1 DEF DeliveryInv, ListsIntact, Chunk, Parts
  <2>8. Assembling'
    BY <2>1, <2>2 DEF Assembling
  <2>9. forwarded' \in Seq({Whole(n) : n \in Nat \ {0}})'
    BY <2>1 DEF DeliveryInv, Whole, Chunk, Parts
  <2>10. QED
    BY <2>1, <2>5, <2>6, <2>7, <2>8, <2>9 DEF DeliveryInv, Parts
<1>4. ASSUME UNCHANGED vars PROVE DeliveryInv'
  BY <1>4 DEF vars, DeliveryInv, Assembling, ListsIntact, ListForwarded, Pieces, Piece,
              Place, Chunk, Parts, Whole
<1>5. QED
  BY <1>1, <1>2, <1>3, <1>4 DEF Next

LEMMA DeliveryInvariant ==
  ASSUME HeadFirst, ~LateRepeats
  PROVE  Spec => []DeliveryInv
<1>1. Init => DeliveryInv
  BY DeliveryInit
<1>2. DeliveryInv /\ [Next]_vars => DeliveryInv'
  BY DeliveryNext
<1>3. QED
  BY <1>1, <1>2, PTL DEF Spec

(* Wherever the first list starts in the sequence space, across its wrap, and *)
(* whatever the network repeats and reorders behind the head: recv_fragment   *)
(* hands the client lists the server sent, uncut and unmixed, in their order. *)
THEOREM ListsArriveWhole ==
  ASSUME HeadFirst, ~LateRepeats
  PROVE  Spec => []ListsIntact
<1>1. DeliveryInv => ListsIntact
  BY DEF DeliveryInv
<1>2. Spec => []DeliveryInv
  BY DeliveryInvariant
<1>3. QED
  BY <1>1, <1>2, PTL

(* A list is forwarded exactly when its last missing fragment has come: the   *)
(* fragments that came more than once neither complete it early nor send it   *)
(* to the client a second time.                                               *)
THEOREM ListsArriveOnce ==
  ASSUME HeadFirst, ~LateRepeats
  PROVE  Spec => []ListForwarded
<1>1. DeliveryInv => ListForwarded
  BY DEF DeliveryInv
<1>2. Spec => []DeliveryInv
  BY DeliveryInvariant
<1>3. QED
  BY <1>1, <1>2, PTL

============================
