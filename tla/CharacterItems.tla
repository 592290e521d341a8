--------------------------- MODULE CharacterItems ---------------------------
(***************************************************************************)
(* What a character carries: the flags and counts that an inventory dump   *)
(* yields, and the readiness that the Characters table derives from them.  *)
(* An item that nothing is known of is not in the domain.                  *)
(***************************************************************************)
EXTENDS Naturals, Sequences, FiniteSetsExt, Tables

CONSTANTS
  BoolItems,     \* INVENTORY_TRACKED_ITEMS
  CountItems,    \* INVENTORY_COUNTED_ITEMS
  CountValues    \* the counts that are compared

ASSUME ItemsAssumption ==
  /\ CountValues \subseteq Nat
  /\ BoolItems # {}
  /\ BoolItems \cap CountItems = {}
  /\ {"neck", "void", "thurg"} \cap CountItems = {}
  /\ {"mb3", "mb4", "pearl"} \cap BoolItems = {}

-----------------------------------------------------------------------------
(* parse_inventory_file.  A dump is [nameColumn, countColumn, rows], a row is *)
(* [name, count]; a count that is no number is read as 0.                     *)

Rows(dump, item) == {i \in DOMAIN dump.rows : dump.nameColumn /\ dump.rows[i].name = item}

CountIn(row) == IF row.readable THEN row.count ELSE 0

ParsedInventory(dump) ==
  [w \in BoolItems |-> Rows(dump, w) # {}] @@
  [w \in CountItems |->
     IF dump.countColumn THEN MapThenSumSet(LAMBDA i : CountIn(dump.rows[i]), Rows(dump, w)) ELSE 0]

-----------------------------------------------------------------------------
(* count_display: the tier of a count, "" when it is unknown. *)

Thresholds ==
  "lizard" :> <<1, 2>> @@ "pearl" :> <<20, 60>> @@ "peridot" :> <<20, 60>> @@
  "mb3" :> <<3, 6>> @@ "mb4" :> <<1, 2>> @@ "mb5" :> <<1, 2>>

CountTier(items, w) ==
  IF w \notin DOMAIN items THEN ""
  ELSE LET n == items[w]
       IN  CASE n >= Thresholds[w][2] -> "lots"
             [] n < Thresholds[w][2] /\ n >= Thresholds[w][1] -> "some"
             [] n < Thresholds[w][1] -> IF w = "lizard" /\ n = 0 THEN "" ELSE "few"

Carries(items, w) == w \in DOMAIN items /\ items[w]

HasBattery(items) == "mb4" \in DOMAIN items /\ items["mb4"] > 0

(* A changed case: the cell is blank when the bundle is not begun. *)
BundleTier_FaultBlank(items) ==
  CASE ~Carries(items, "neck") \/ ~Carries(items, "void") -> ""
    [] OTHER -> IF HasBattery(items) THEN "lots" ELSE "some"

(* The complete-heal bundle of a cleric: blank without the necklace. *)
BundleTier(items) ==
  CASE ~Carries(items, "neck") -> ""
    [] OTHER -> IF Carries(items, "void") /\ HasBattery(items) THEN "lots" ELSE "some"

Rank == "lots" :> 0 @@ "some" :> 1 @@ "few" :> 2 @@ "" :> 3

VialRank(items) == IF "thurg" \notin DOMAIN items THEN 3 ELSE IF items["thurg"] THEN 0 ELSE 2

(* The worst of the ranks, but a green one lifts the rest to yellow. *)
RollUp(ranks) ==
  CASE 3 \in ranks -> "?"
    [] ranks = {0} -> "lots"
    [] ranks \subseteq {1, 2} /\ 2 \in ranks -> "few"
    [] OTHER -> "some"

Readiness(class, items) ==
  CASE class = "Cleric" ->
         RollUp({Rank[CountTier(items, "mb3")], VialRank(items)}
                  \cup {Rank[tier] : tier \in {BundleTier(items)} \ {""}})
    [] class = "Magician" -> RollUp({Rank[CountTier(items, "pearl")]})
    [] OTHER -> ""

ReadinessSortRank == "lots" :> 0 @@ "some" :> 1 @@ "?" :> 2 @@ "few" :> 3 @@ "" :> 4

-----------------------------------------------------------------------------
(* Properties *)

(* What may be known of a character. *)
Inventories ==
  {flags @@ counts : flags \in UNION {[known -> BOOLEAN] : known \in SUBSET BoolItems},
                     counts \in UNION {[known -> CountValues] : known \in SUBSET CountItems}}

(* The items among what is known of a character. *)
Recorded(seen) == [w \in DOMAIN seen \cap (BoolItems \cup CountItems) |-> seen[w]] \in Inventories

(* The same inventory with more of one item.  The necklace is left out: a     *)
(* cleric who gets it is asked for the rest of the bundle from then on.       *)
Improved(items) ==
  {[items EXCEPT ![w] = TRUE] : w \in (DOMAIN items \cap BoolItems) \ {"neck"}} \cup
  {[items EXCEPT ![w] = n] : w \in DOMAIN items \cap CountItems, n \in CountValues}

AtLeast(items, old) ==
  \A w \in DOMAIN old \cap CountItems : items[w] >= old[w]

NoLessReady(new, old) ==
  \A class \in {"Cleric", "Magician"} :
    ReadinessSortRank[Readiness(class, new)] <= ReadinessSortRank[Readiness(class, old)]

MoreIsNoLessReady ==
  \A old \in Inventories : \A new \in Improved(old) : AtLeast(new, old) => NoLessReady(new, old)

=============================================================================
