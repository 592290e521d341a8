-------------------------- MODULE LogWatcher_proofs --------------------------
(***************************************************************************)
(* Proofs about the local accounts and characters and the watcher of the   *)
(* logs: for every set of names, of threads and of log lines, and every    *)
(* file the program may find, what is in memory, in the files and at the   *)
(* SSO agrees as the runs of LogWatcher check it on a small instance.      *)
(*                                                                         *)
(* The invariant is LogInv, one part for each kind of state: AccountInv    *)
(* (the map of names), ThreadInv and FileInv (types, and where the threads *)
(* may stand), SaveInv (which save has which characters), PairInv (whose   *)
(* login is pending) and ReadInv (what the lines read so far have said).   *)
(* CarriedInv, about the items of the characters, stands beside it.        *)
(***************************************************************************)
EXTENDS LogWatcher, SequenceTheorems, WellFoundedInduction, TLAPS

-----------------------------------------------------------------------------
(* Least and greatest positions *)

LEMMA FirstOne ==
  ASSUME NEW S \in SUBSET Nat, S # {}
  PROVE  \E x \in S : \A y \in S : x <= y
<1>1. PICK x \in S : \A y \in S : ~(<<y, x>> \in OpToRel(<, Nat))
  BY NatLessThanWellFounded, WFMin, Zenon
<1>2. ASSUME NEW y \in S
      PROVE  x <= y
  <2>1. ~(y < x)
    BY <1>1 DEF OpToRel
  <2> QED BY <2>1
<1> QED BY <1>2

LEMMA LastOne ==
  ASSUME NEW n \in Nat, NEW S \in SUBSET (1 .. n), S # {}
  PROVE  \E x \in S : \A y \in S : y <= x
<1> DEFINE T == {n - x : x \in S}
<1>1. T \in SUBSET Nat /\ T # {}
  <2>1. \A x \in S : n - x \in Nat
    OBVIOUS
  <2> QED BY <2>1
<1>2. PICK z \in T : \A y \in T : z <= y
  BY <1>1, FirstOne
<1>3. PICK x \in S : z = n - x
  OBVIOUS
<1>4. ASSUME NEW y \in S
      PROVE  y <= x
  <2>1. n - y \in T
    OBVIOUS
  <2>2. n - x <= n - y
    BY <1>2, <1>3, <2>1
  <2> QED BY <2>2
<1> QED BY <1>4

-----------------------------------------------------------------------------
(* The accounts: rows at their positions *)

AccountTable(t) ==
  /\ t = [i \in DOMAIN t |-> t[i]]
  /\ \E n \in Nat : DOMAIN t \subseteq 1 .. n
  /\ \A i \in DOMAIN t : t[i] \in AccountRows

LEMMA SeqIsTable ==
  ASSUME NEW t \in Seq(AccountRows)
  PROVE  AccountTable(t)
<1>1. PICK n \in Nat : DOMAIN t = 1 .. n
  BY LenProperties
<1>2. \A i \in DOMAIN t : t[i] \in AccountRows
  BY ElementOfSeq, LenProperties
<1>3. t = [i \in DOMAIN t |-> t[i]]
  BY LenProperties
<1> QED BY <1>1, <1>2, <1>3 DEF AccountTable

LEMMA LoweredTable ==
  ASSUME NEW t, AccountTable(t)
  PROVE  /\ AccountTable(Lowered(t))
         /\ DOMAIN Lowered(t) = DOMAIN t
<1> DEFINE low == Lowered(t)
<1>1. low = [i \in DOMAIN t |-> [name |-> Lower[t[i].name], aliases |-> {Lower[x] : x \in t[i].aliases}]]
  BY DEF Lowered
<1>2. ASSUME NEW i \in DOMAIN t
      PROVE  low[i] \in AccountRows
  <2>1. t[i].name \in Accounts /\ t[i].aliases \in SUBSET DOMAIN Lower
    BY DEF AccountTable, AccountRows
  <2>2. Lower[t[i].name] \in Accounts /\ \A x \in t[i].aliases : Lower[x] \in DOMAIN Lower
    BY <2>1, LowerAssumption
  <2>3. {Lower[x] : x \in t[i].aliases} \in SUBSET DOMAIN Lower
    BY <2>2
  <2> QED BY <1>1, <2>2, <2>3 DEF AccountRows
<1>3. DOMAIN low = DOMAIN t /\ low = [i \in DOMAIN low |-> low[i]]
  BY <1>1
<1>4. AccountTable(low)
  <2> HIDE DEF low
  <2> QED BY <1>2, <1>3 DEF AccountTable
<1> QED BY <1>3, <1>4

(* Max finds a greatest position, and the one after it is free. *)
LEMMA NextFree ==
  ASSUME NEW t, AccountTable(t)
  PROVE  /\ Max(DOMAIN t \cup {0}) \in Nat
         /\ \A i \in DOMAIN t : i \in 1 .. Max(DOMAIN t \cup {0})
<1> DEFINE S == DOMAIN t \cup {0}
<1>1. PICK n \in Nat : DOMAIN t \subseteq 1 .. n
  BY DEF AccountTable
<1>2. \E x \in S : \A y \in S : x >= y
  <2>1. CASE DOMAIN t = {}
    BY <2>1
  <2>2. CASE DOMAIN t # {}
    <3>1. PICK x \in DOMAIN t : \A y \in DOMAIN t : y <= x
      BY <1>1, <2>2, LastOne
    <3> QED BY <1>1, <3>1
  <2> QED BY <2>1, <2>2
<1>3. Max(S) \in S /\ \A y \in S : Max(S) >= y
  BY <1>2 DEF Max
<1>4. S \subseteq Nat
  BY <1>1
<1> HIDE DEF S
<1>5. \A i \in DOMAIN t : i \in S /\ i \in 1 .. n
  BY <1>1 DEF S
<1>6. PICK m \in Nat : m = Max(S)
  BY <1>3, <1>4
<1>7. \A i \in DOMAIN t : m >= i /\ i \in 1 .. n
  BY <1>3, <1>5, <1>6
<1>8. \A i \in DOMAIN t : i \in 1 .. m
  BY <1>7
<1> QED BY <1>6, <1>8 DEF S

LEMMA AddedTable ==
  ASSUME NEW t, AccountTable(t), NEW new \in AccountRows
  PROVE  /\ AccountTable(Added(t, new))
         /\ \E p \in Nat : /\ p \notin DOMAIN t /\ DOMAIN Added(t, new) = DOMAIN t \cup {p}
                           /\ Added(t, new)[p] = new
                           /\ \A i \in DOMAIN t : Added(t, new)[i] = t[i]
<1>1. PICK m \in Nat : m = Max(DOMAIN t \cup {0}) /\ \A i \in DOMAIN t : i \in 1 .. m
  BY NextFree
<1>2. PICK longer : longer = Added(t, new)
  OBVIOUS
<1>3. longer = (m + 1) :> new @@ t
  BY <1>1, <1>2 DEF Added
<1>4. m + 1 \notin DOMAIN t
  <2>1. m + 1 \notin 1 .. m
    OBVIOUS
  <2> QED BY <1>1, <2>1
<1>5. /\ DOMAIN longer = DOMAIN t \cup {m + 1} /\ longer = [i \in DOMAIN longer |-> longer[i]]
      /\ longer[m + 1] = new /\ \A i \in DOMAIN t : longer[i] = t[i]
  BY <1>3, <1>4 DEF @@, :>
<1>6. DOMAIN longer \subseteq 1 .. (m + 1) /\ m + 1 \in Nat
  <2>1. 1 .. m \subseteq 1 .. (m + 1) /\ m + 1 \in 1 .. (m + 1)
    OBVIOUS
  <2> QED BY <1>1, <1>5, <2>1
<1>7. \A i \in DOMAIN longer : longer[i] \in AccountRows
  BY <1>5 DEF AccountTable
<1>8. AccountTable(longer)
  BY <1>5, <1>6, <1>7 DEF AccountTable
<1>9. \E p \in Nat : /\ p \notin DOMAIN t /\ DOMAIN longer = DOMAIN t \cup {p} /\ longer[p] = new
                     /\ \A i \in DOMAIN t : longer[i] = t[i]
  BY <1>4, <1>5, <1>6
<1> QED BY <1>2, <1>8, <1>9

LEMMA EditedTable ==
  ASSUME NEW t, AccountTable(t), NEW k \in DOMAIN t, NEW aliases \in SUBSET DOMAIN Lower
  PROVE  AccountTable([t EXCEPT ![k].aliases = aliases])
<1> DEFINE now == [t EXCEPT ![k].aliases = aliases]
<1>1. t[k] \in AccountRows
  BY DEF AccountTable
<1>2. [t[k] EXCEPT !.aliases = aliases] \in AccountRows
  BY <1>1 DEF AccountRows
<1>3. /\ DOMAIN now = DOMAIN t /\ now = [i \in DOMAIN now |-> now[i]]
      /\ now[k] = [t[k] EXCEPT !.aliases = aliases]
      /\ \A i \in DOMAIN t \ {k} : now[i] = t[i]
  OBVIOUS
<1> HIDE DEF now
<1>4. AccountTable(now)
  BY <1>2, <1>3 DEF AccountTable
<1> QED BY <1>4 DEF now

LEMMA LessTable ==
  ASSUME NEW t, AccountTable(t), NEW gone
  PROVE  AccountTable(Without(t, gone))
BY DEF AccountTable, Without

LEMMA SavedTable ==
  ASSUME NEW t, AccountTable(t)
  PROVE  AccountTable(Saved(t))
<1> DEFINE s == Saved(t)
<1>1. s = [i \in DOMAIN t |-> [t[i] EXCEPT !.aliases = AliasCell(@)]]
  BY DEF Saved
<1>2. ASSUME NEW i \in DOMAIN t
      PROVE  s[i] \in AccountRows
  <2>1. t[i] \in AccountRows
    BY DEF AccountTable
  <2>2. AliasCell(t[i].aliases) \in SUBSET DOMAIN Lower
    <3>1. t[i].aliases \in SUBSET DOMAIN Lower
      BY <2>1 DEF AccountRows
    <3>2. {""} \in SUBSET DOMAIN Lower
      <4>1. {"", NoAccount} \subseteq DOMAIN Lower
        BY LowerAssumption
      <4> QED BY <4>1
    <3> QED BY <3>1, <3>2 DEF AliasCell
  <2>3. s[i] = [t[i] EXCEPT !.aliases = AliasCell(t[i].aliases)]
    BY <1>1
  <2> HIDE DEF s
  <2> QED BY <2>1, <2>2, <2>3 DEF AccountRows
<1>3. DOMAIN s = DOMAIN t /\ s = [i \in DOMAIN s |-> s[i]]
  BY <1>1
<1>4. AccountTable(s)
  <2> HIDE DEF s
  <2> QED BY <1>2, <1>3 DEF AccountTable
<1> QED BY <1>4

-----------------------------------------------------------------------------
(* The map of names *)

(* A map for these accounts, exact but for the names that have stood twice    *)
(* and the aliases of rows that the load has replaced.                        *)
Maps(map, accts, twice, lost) ==
  /\ map = [n \in DOMAIN map |-> map[n]]
  /\ \A n \in DOMAIN map \ lost :
       \E i \in DOMAIN accts : accts[i].name = map[n] /\ n \in Names(accts[i])
  /\ \A i \in DOMAIN accts : Names(accts[i]) \ twice \subseteq DOMAIN map
  /\ Shared(accts) \subseteq twice

Holders(accts, n) == {i \in DOMAIN accts : n \in Names(accts[i])}

LEMMA MapOfName ==
  ASSUME NEW accts, AccountTable(accts), NEW n \in DOMAIN MapOf(accts)
  PROVE  \E i \in DOMAIN accts : accts[i].name = MapOf(accts)[n] /\ n \in Names(accts[i])
<1>1. PICK k \in DOMAIN accts : n \in Names(accts[k])
  BY DEF MapOf
<1>2. PICK len \in Nat : DOMAIN accts \subseteq 1 .. len
  BY DEF AccountTable
<1>3. Holders(accts, n) \in SUBSET (1 .. len) /\ Holders(accts, n) # {}
  BY <1>1, <1>2 DEF Holders
<1>4. PICK i \in Holders(accts, n) : \A j \in Holders(accts, n) : j <= i
  BY <1>3, LastOne
<1> DEFINE c == CHOOSE x \in DOMAIN accts :
                  n \in Names(accts[x]) /\ \A j \in DOMAIN accts : n \in Names(accts[j]) => j <= x
<1>5. c \in DOMAIN accts /\ n \in Names(accts[c])
  BY <1>4 DEF Holders
<1>6. MapOf(accts)[n] = accts[c].name
  BY DEF MapOf
<1> QED BY <1>5, <1>6

LEMMA MapOfDomain ==
  ASSUME NEW accts
  PROVE  /\ DOMAIN MapOf(accts) = UNION {Names(accts[i]) : i \in DOMAIN accts}
         /\ MapOf(accts) = [n \in DOMAIN MapOf(accts) |-> MapOf(accts)[n]]
BY DEF MapOf

(* What is read of the rows of an account is the last of them. *)
LEMMA LastRow ==
  ASSUME NEW rows, AccountTable(rows), NEW i \in First(rows)
  PROVE  \E j \in DOMAIN rows \ Replaced(rows) :
           rows[j].name = rows[i].name /\ Merged(rows)[i] = rows[j]
<1>1. PICK len \in Nat : DOMAIN rows \subseteq 1 .. len
  BY DEF AccountTable
<1> DEFINE S == {j \in DOMAIN rows : rows[j].name = rows[i].name}
<1>2. i \in S /\ S \in SUBSET (1 .. len)
  BY <1>1 DEF First
<1>3. PICK j \in S : \A k \in S : k <= j
  BY <1>2, LastOne
<1>4. j \notin Replaced(rows)
  <2>1. \A k \in DOMAIN rows : j < k => k \notin S
    BY <1>1, <1>3
  <2> QED BY <2>1 DEF Replaced
<1>5. Merged(rows)[i] = rows[CHOOSE x \in DOMAIN rows \ Replaced(rows) : rows[x].name = rows[i].name]
  BY DEF Merged
<1> QED BY <1>4, <1>5

LEMMA FirstRow ==
  ASSUME NEW rows, AccountTable(rows), NEW k \in DOMAIN rows
  PROVE  \E i \in First(rows) : rows[i].name = rows[k].name
<1> DEFINE S == {j \in DOMAIN rows : rows[j].name = rows[k].name}
<1>1. S \in SUBSET Nat /\ S # {}
  BY DEF AccountTable
<1>2. PICK i \in S : \A j \in S : i <= j
  BY <1>1, FirstOne
<1>3. i \in First(rows)
  BY <1>2 DEF First
<1> QED BY <1>3

(* One row of an account is not replaced, and one of them is the first. *)
LEMMA OneRow ==
  ASSUME NEW rows, AccountTable(rows), NEW i \in DOMAIN rows, NEW j \in DOMAIN rows,
         rows[i].name = rows[j].name
  PROVE  /\ i \notin Replaced(rows) /\ j \notin Replaced(rows) => i = j
         /\ i \in First(rows) /\ j \in First(rows) => i = j
<1>1. i \in Nat /\ j \in Nat
  BY DEF AccountTable
<1>2. i < j \/ i = j \/ j < i
  BY <1>1
<1>3. i \notin Replaced(rows) => ~(i < j)
  BY DEF Replaced
<1>4. j \notin Replaced(rows) => ~(j < i)
  BY DEF Replaced
<1>5. i \in First(rows) /\ j \in First(rows) => i <= j /\ j <= i
  BY DEF First
<1> QED BY <1>1, <1>2, <1>3, <1>4, <1>5

LEMMA MergedTable ==
  ASSUME NEW rows, AccountTable(rows)
  PROVE  AccountTable(Merged(rows)) /\ DOMAIN Merged(rows) = First(rows)
<1>1. DOMAIN Merged(rows) = First(rows) /\ First(rows) \subseteq DOMAIN rows
      /\ Merged(rows) = [i \in First(rows) |-> Merged(rows)[i]]
  BY DEF Merged, First
<1>2. \A i \in First(rows) : Merged(rows)[i] \in AccountRows
  BY LastRow DEF AccountTable
<1> QED BY <1>1, <1>2 DEF AccountTable

LEMMA SharedName ==
  ASSUME NEW rows, NEW n, n \in Shared(rows)
  PROVE  \E i \in DOMAIN rows, j \in DOMAIN rows :
           /\ n \in Names(rows[i]) \cap Names(rows[j])
           /\ i = j => n = rows[i].name /\ n \in rows[i].aliases
BY DEF Shared

LEMMA LoadedMaps ==
  ASSUME NEW rows, AccountTable(rows)
  PROVE  Maps(MapOf(rows), Merged(rows), Shared(rows), Orphans(rows))
<1> DEFINE now == Merged(rows)
           map == MapOf(rows)
<1>1. DOMAIN now = First(rows) /\ First(rows) \subseteq DOMAIN rows
  BY MergedTable DEF First
<1>2. ASSUME NEW n \in DOMAIN map \ Orphans(rows)
      PROVE  \E i \in DOMAIN now : now[i].name = map[n] /\ n \in Names(now[i])
  <2>1. PICK k \in DOMAIN rows : rows[k].name = map[n] /\ n \in Names(rows[k])
    BY MapOfName
  <2>2. PICK i \in First(rows) : rows[i].name = rows[k].name
    BY FirstRow
  <2>3. PICK j \in DOMAIN rows \ Replaced(rows) : rows[j].name = rows[i].name /\ now[i] = rows[j]
    BY LastRow
  <2>4. CASE k \in Replaced(rows)
    <3>1. n \notin rows[k].aliases
      BY <2>4 DEF Orphans
    <3>2. n = rows[k].name
      BY <2>1, <3>1 DEF Names
    <3> QED BY <1>1, <2>1, <2>2, <2>3, <3>2 DEF Names
  <2>5. CASE k \notin Replaced(rows)
    <3>1. j = k
      BY <2>2, <2>3, <2>5, OneRow
    <3> QED BY <1>1, <2>1, <2>3, <3>1
  <2> QED BY <2>4, <2>5
<1>3. ASSUME NEW i \in DOMAIN now
      PROVE  Names(now[i]) \subseteq DOMAIN map
  <2>1. PICK j \in DOMAIN rows : now[i] = rows[j]
    BY <1>1, LastRow
  <2> QED BY <2>1, MapOfDomain, ZenonT(60)
<1>4. ASSUME NEW n \in Shared(now)
      PROVE  n \in Shared(rows)
  <2> HIDE DEF now
  <2>1. PICK i \in DOMAIN now, j \in DOMAIN now :
          /\ n \in Names(now[i]) \cap Names(now[j])
          /\ i = j => n = now[i].name /\ n \in now[i].aliases
    BY <1>4, SharedName
  <2>2. PICK p \in DOMAIN rows : rows[p].name = rows[i].name /\ now[i] = rows[p]
    BY <1>1, LastRow DEF now
  <2>3. PICK q \in DOMAIN rows : rows[q].name = rows[j].name /\ now[j] = rows[q]
    BY <1>1, LastRow DEF now
  <2>4. p = q => i = j
    BY <1>1, <2>2, <2>3, OneRow
  <2>5. /\ n \in Names(rows[p]) \cap Names(rows[q])
        /\ p = q => n = rows[p].name /\ n \in rows[p].aliases
    BY <2>1, <2>2, <2>3, <2>4
  <2> QED BY <2>5 DEF Shared
<1> HIDE DEF now, map
<1>5. Maps(map, now, Shared(rows), Orphans(rows))
  <2>1. map = [n \in DOMAIN map |-> map[n]]
    BY MapOfDomain DEF map
  <2> QED BY <1>2, <1>3, <1>4, <2>1 DEF Maps
<1> QED BY <1>5 DEF now, map

(* Two maps for the same accounts agree on the other names. *)
LEMMA MapsAgree ==
  ASSUME NEW accts, NEW twice, NEW lost, NEW f, NEW g,
         Maps(f, accts, twice, lost), Maps(g, accts, twice, lost)
  PROVE  Without(f, twice \cup lost) = Without(g, twice \cup lost)
<1> DEFINE out == twice \cup lost
<1>1. ASSUME NEW n \in DOMAIN f \ out
      PROVE  n \in DOMAIN g /\ f[n] = g[n]
  <2>1. PICK i \in DOMAIN accts : accts[i].name = f[n] /\ n \in Names(accts[i])
    BY DEF Maps
  <2>2. n \in DOMAIN g
    BY <2>1 DEF Maps
  <2>3. PICK j \in DOMAIN accts : accts[j].name = g[n] /\ n \in Names(accts[j])
    BY <2>2 DEF Maps
  <2>4. i = j
    BY <2>1, <2>3 DEF Maps, Shared
  <2> QED BY <2>1, <2>2, <2>3, <2>4
<1>2. ASSUME NEW n \in DOMAIN g \ out
      PROVE  n \in DOMAIN f
  <2>1. PICK i \in DOMAIN accts : accts[i].name = g[n] /\ n \in Names(accts[i])
    BY DEF Maps
  <2> QED BY <2>1 DEF Maps
<1> HIDE DEF out
<1>3. DOMAIN f \ out = DOMAIN g \ out
  BY <1>1, <1>2
<1>4. Without(f, out) = Without(g, out)
  BY <1>1, <1>3 DEF Without
<1> QED BY <1>4 DEF out

LEMMA IndexNames ==
  ASSUME NEW a \in AccountNames
  PROVE  IndexOf(a) \in DOMAIN accounts /\ accounts[IndexOf(a)].name = a
<1>1. \E i \in DOMAIN accounts : accounts[i].name = a
  BY DEF AccountNames
<1> QED BY <1>1 DEF IndexOf

LEMMA AddMaps ==
  ASSUME NEW accts, AccountTable(accts), NEW map, NEW twice, NEW lost,
         Maps(map, accts, twice, lost), NEW new \in AccountRows
  PROVE  Maps(Given(new.aliases, new.name) @@ (new.name :> new.name) @@ map, Added(accts, new),
              twice \cup Shared(Added(accts, new)), lost)
<1> DEFINE longer == Added(accts, new)
<1>1. \E p \in Nat : /\ p \notin DOMAIN accts /\ DOMAIN longer = DOMAIN accts \cup {p}
                     /\ longer[p] = new /\ \A i \in DOMAIN accts : longer[i] = accts[i]
  BY AddedTable
<1> HIDE DEF longer
<1>2. PICK p \in Nat : /\ p \notin DOMAIN accts /\ DOMAIN longer = DOMAIN accts \cup {p}
                       /\ longer[p] = new /\ \A i \in DOMAIN accts : longer[i] = accts[i]
  BY <1>1
<1>3. PICK all : all = Given(new.aliases, new.name) @@ (new.name :> new.name) @@ map
  OBVIOUS
<1>4. /\ DOMAIN all = Names(new) \cup DOMAIN map
      /\ all = [x \in DOMAIN all |-> all[x]]
      /\ \A x \in Names(new) : all[x] = new.name
      /\ \A x \in DOMAIN map \ Names(new) : all[x] = map[x]
  BY <1>3 DEF @@, :>, Given, Names
<1>5. ASSUME NEW x \in DOMAIN all \ lost
      PROVE  \E i \in DOMAIN longer : longer[i].name = all[x] /\ x \in Names(longer[i])
  <2>1. CASE x \in Names(new)
    BY <1>2, <1>4, <2>1
  <2>2. CASE x \notin Names(new)
    <3>1. PICK i \in DOMAIN accts : accts[i].name = map[x] /\ x \in Names(accts[i])
      BY <1>4, <2>2 DEF Maps
    <3>2. i \in DOMAIN longer /\ longer[i] = accts[i]
      BY <1>2
    <3> QED BY <1>4, <2>2, <3>1, <3>2
  <2> QED BY <2>1, <2>2
<1>6. ASSUME NEW i \in DOMAIN longer
      PROVE  Names(longer[i]) \ twice \subseteq DOMAIN all
  <2>1. CASE i = p
    BY <1>2, <1>4, <2>1
  <2>2. CASE i \in DOMAIN accts
    BY <1>2, <1>4, <2>2 DEF Maps
  <2> QED BY <1>2, <2>1, <2>2
<1>7. Maps(all, longer, twice \cup Shared(longer), lost)
  BY <1>4, <1>5, <1>6 DEF Maps
<1> QED BY <1>3, <1>7 DEF longer

LEMMA EditMaps ==
  ASSUME NEW accts, AccountTable(accts), NEW map, NEW twice, NEW lost,
         Maps(map, accts, twice, lost), NEW k \in DOMAIN accts, NEW aliases \in SUBSET DOMAIN Lower
  PROVE  Maps(Given(aliases, accts[k].name) @@ Without(map, accts[k].aliases),
              [accts EXCEPT ![k].aliases = aliases],
              twice \cup Shared([accts EXCEPT ![k].aliases = aliases]), lost)
<1> DEFINE now == [accts EXCEPT ![k].aliases = aliases]
           all == Given(aliases, accts[k].name) @@ Without(map, accts[k].aliases)
           a == accts[k].name
<1>1. accts[k] \in AccountRows
  BY DEF AccountTable
<1>2. /\ DOMAIN now = DOMAIN accts
      /\ now[k].name = a /\ now[k].aliases = aliases
      /\ \A i \in DOMAIN accts \ {k} : now[i] = accts[i]
  BY <1>1 DEF AccountRows
<1>3. /\ DOMAIN all = aliases \cup (DOMAIN map \ accts[k].aliases)
      /\ all = [x \in DOMAIN all |-> all[x]]
      /\ \A x \in aliases : all[x] = a
      /\ \A x \in DOMAIN map \ (accts[k].aliases \cup aliases) : all[x] = map[x]
  BY DEF @@, Without, Given
<1> HIDE DEF now, all
<1>4. ASSUME NEW x \in DOMAIN all \ lost
      PROVE  \E i \in DOMAIN now : now[i].name = all[x] /\ x \in Names(now[i])
  <2>1. CASE x \in aliases
    BY <1>2, <1>3, <2>1 DEF Names
  <2>2. CASE x \notin aliases
    <3>1. x \in DOMAIN map \ (accts[k].aliases \cup aliases)
      BY <1>3, <2>2
    <3>2. PICK i \in DOMAIN accts : accts[i].name = map[x] /\ x \in Names(accts[i])
      BY <3>1 DEF Maps
    <3>3. CASE i = k
      BY <1>2, <1>3, <3>1, <3>2, <3>3 DEF Names
    <3>4. CASE i # k
      BY <1>2, <1>3, <3>1, <3>2, <3>4
    <3> QED BY <3>3, <3>4
  <2> QED BY <2>1, <2>2
<1>5. ASSUME NEW i \in DOMAIN now, NEW x \in Names(now[i]) \ twice
      PROVE  x \in DOMAIN all
  <2>1. CASE i = k
    <3>1. CASE x \in aliases
      BY <1>3, <3>1
    <3>2. CASE x = a
      <4>1. x \in Names(accts[k])
        BY <3>2 DEF Names
      <4>2. x \in DOMAIN map
        BY <4>1 DEF Maps
      <4>3. x \notin accts[k].aliases
        BY <3>2, <4>1 DEF Maps, Shared
      <4> QED BY <1>3, <4>2, <4>3
    <3> QED BY <1>2, <2>1, <3>1, <3>2 DEF Names
  <2>2. CASE i # k
    <3>1. i \in DOMAIN accts /\ x \in Names(accts[i])
      BY <1>2, <2>2
    <3>2. x \in DOMAIN map
      BY <3>1 DEF Maps
    <3>3. x \notin Names(accts[k])
      BY <2>2, <3>1 DEF Maps, Shared
    <3>4. x \notin accts[k].aliases
      BY <3>3 DEF Names
    <3> QED BY <1>3, <3>2, <3>4
  <2> QED BY <2>1, <2>2
<1>6. Maps(all, now, twice \cup Shared(now), lost)
  BY <1>3, <1>4, <1>5 DEF Maps
<1> QED BY <1>6 DEF now, all

LEMMA DropMaps ==
  ASSUME NEW accts, NEW map, NEW twice, NEW lost, Maps(map, accts, twice, lost),
         NEW k \in DOMAIN accts
  PROVE  Maps(Without(map, Names(accts[k])), Without(accts, {k}),
              twice \cup Shared(Without(accts, {k})), lost)
<1> DEFINE all == Without(map, Names(accts[k]))
           now == Without(accts, {k})
<1>1. /\ DOMAIN all = DOMAIN map \ Names(accts[k])
      /\ all = [x \in DOMAIN all |-> all[x]]
      /\ \A x \in DOMAIN all : all[x] = map[x]
  BY DEF Without
<1>2. DOMAIN now = DOMAIN accts \ {k} /\ \A i \in DOMAIN now : now[i] = accts[i]
  BY DEF Without
<1> HIDE DEF all, now
<1>3. ASSUME NEW x \in DOMAIN all \ lost
      PROVE  \E i \in DOMAIN now : now[i].name = all[x] /\ x \in Names(now[i])
  <2>1. PICK j \in DOMAIN accts : accts[j].name = map[x] /\ x \in Names(accts[j])
    BY <1>1 DEF Maps
  <2>2. j # k
    BY <1>1, <2>1
  <2> QED BY <1>1, <1>2, <2>1, <2>2
<1>4. ASSUME NEW i \in DOMAIN now, NEW x \in Names(now[i]) \ twice
      PROVE  x \in DOMAIN all
  <2>1. i \in DOMAIN accts /\ i # k /\ x \in Names(accts[i])
    BY <1>2
  <2>2. x \in DOMAIN map
    BY <2>1 DEF Maps
  <2>3. x \notin Names(accts[k])
    BY <2>1 DEF Maps, Shared
  <2> QED BY <1>1, <2>2, <2>3
<1>5. Maps(all, now, twice \cup Shared(now), lost)
  BY <1>1, <1>3, <1>4 DEF Maps
<1> QED BY <1>5 DEF all, now

AccountInv ==
  /\ AccountTable(accounts)
  /\ AccountTable(accountFile)
  /\ Maps(nameMap, accounts, shared, orphans)

LEMMA AccountUnchanged ==
  ASSUME AccountInv, UNCHANGED accountVars
  PROVE  AccountInv'
BY DEF AccountInv, accountVars, AccountTable, Maps, Shared, Names

LEMMA LoadKeeps ==
  ASSUME NEW rows, AccountTable(rows)
  PROVE  /\ AccountTable(Merged(Lowered(rows)))
         /\ Maps(MapOf(Lowered(rows)), Merged(Lowered(rows)), Shared(Lowered(rows)), Orphans(Lowered(rows)))
BY LoweredTable, MergedTable, LoadedMaps

LEMMA AccountInit == LogInit => AccountInv
<1> SUFFICES ASSUME LogInit PROVE AccountInv
  OBVIOUS
<1>1. AccountTable(accountFile)
  BY StartsAssumption, SeqIsTable DEF LogInit, LcInit
<1>2. /\ accounts = Merged(Lowered(accountFile)) /\ nameMap = MapOf(Lowered(accountFile))
      /\ shared = Shared(Lowered(accountFile)) /\ orphans = Orphans(Lowered(accountFile))
  BY DEF LogInit, LcInit
<1> QED BY <1>1, <1>2, LoadKeeps DEF AccountInv

LEMMA SaveKeeps ==
  ASSUME AccountInv, NEW accts, AccountTable(accts), SaveAccounts(accts),
         Maps(nameMap', accts, shared \cup Shared(accts), orphans)
  PROVE  AccountInv'
<1>1. accounts' = accts /\ shared' = shared \cup Shared(accts) /\ orphans' = orphans
  BY DEF SaveAccounts
<1>2. \A gone : AccountTable(Without(Saved(accts), gone))
  BY SavedTable, LessTable
<1>3. AccountTable(accountFile')
  BY <1>2 DEF AccountInv, SaveAccounts
<1>4. AccountTable(accounts')
  BY <1>1
<1>5. Maps(nameMap', accounts', shared', orphans')
  BY <1>1
<1> QED BY <1>3, <1>4, <1>5 DEF AccountInv, AccountTable, Maps, Shared, Names

LEMMA AccountStep == AccountInv /\ [LogNext]_logVars => AccountInv'
<1> SUFFICES ASSUME AccountInv, [LogNext]_logVars PROVE AccountInv'
  OBVIOUS
<1>0. AccountTable(accounts) /\ AccountTable(accountFile) /\ Maps(nameMap, accounts, shared, orphans)
  BY DEF AccountInv
<1>1. ASSUME NEW a \in Accounts, NEW aliases \in Aliases, AddAccount(a, aliases)
      PROVE  AccountInv'
  <2> DEFINE new == [name |-> a, aliases |-> aliases]
  <2>1. new \in AccountRows
    BY LowerAssumption DEF AccountRows
  <2>2. PICK longer : longer = Added(accounts, new)
    OBVIOUS
  <2>3. SaveAccounts(longer) /\ nameMap' = Given(aliases, a) @@ (a :> a) @@ nameMap
    BY <1>1, <2>2 DEF AddAccount
  <2>4. AccountTable(longer)
    BY <1>0, <2>1, <2>2, AddedTable
  <2>5. Maps(Given(new.aliases, new.name) @@ (new.name :> new.name) @@ nameMap, longer,
             shared \cup Shared(longer), orphans)
    <3> HIDE DEF new
    <3> QED BY <1>0, <2>1, <2>2, AddMaps
  <2>6. Maps(nameMap', longer, shared \cup Shared(longer), orphans)
    BY <2>3, <2>5
  <2> QED BY <2>3, <2>4, <2>6, SaveKeeps
<1>2. ASSUME NEW a \in Accounts, NEW aliases \in Aliases, EditAccount(a, aliases)
      PROVE  AccountInv'
  <2>1. PICK k \in DOMAIN accounts : k = IndexOf(a) /\ accounts[k].name = a
    BY <1>2, IndexNames DEF EditAccount
  <2>2. PICK now : now = [accounts EXCEPT ![k].aliases = aliases]
    OBVIOUS
  <2>3. aliases \in SUBSET DOMAIN Lower
    BY LowerAssumption
  <2>4. AccountTable(now)
    BY <1>0, <2>2, <2>3, EditedTable
  <2>5. SaveAccounts(now) /\ nameMap' = Given(aliases, a) @@ Without(nameMap, accounts[k].aliases)
    BY <1>2, <2>1, <2>2 DEF EditAccount
  <2>6. Maps(Given(aliases, accounts[k].name) @@ Without(nameMap, accounts[k].aliases), now,
             shared \cup Shared(now), orphans)
    BY <1>0, <2>2, <2>3, EditMaps
  <2>7. Maps(nameMap', now, shared \cup Shared(now), orphans)
    BY <2>1, <2>5, <2>6
  <2> QED BY <2>4, <2>5, <2>7, SaveKeeps
<1>3. ASSUME NEW a \in Accounts, DeleteAccount(a)
      PROVE  AccountInv'
  <2>1. PICK k \in DOMAIN accounts : k = IndexOf(a)
    BY <1>3, IndexNames DEF DeleteAccount
  <2>2. PICK now : now = Without(accounts, {k})
    OBVIOUS
  <2>3. SaveAccounts(now) /\ nameMap' = Without(nameMap, Names(accounts[k]))
    BY <1>3, <2>1, <2>2 DEF DeleteAccount
  <2>4. AccountTable(now)
    BY <1>0, <2>2, LessTable
  <2>5. Maps(nameMap', now, shared \cup Shared(now), orphans)
    BY <1>0, <2>2, <2>3, DropMaps
  <2> QED BY <2>3, <2>4, <2>5, SaveKeeps
<1>4. ASSUME Load(accountFile), accountFile' = accountFile
      PROVE  AccountInv'
  <2>1. /\ accounts' = Merged(Lowered(accountFile)) /\ nameMap' = MapOf(Lowered(accountFile))
        /\ shared' = Shared(Lowered(accountFile)) /\ orphans' = Orphans(Lowered(accountFile))
    BY <1>4 DEF Load
  <2>2. AccountTable(accounts') /\ Maps(nameMap', accounts', shared', orphans')
    BY <1>0, <2>1, LoadKeeps
  <2>3. AccountTable(accountFile')
    BY <1>0, <1>4
  <2> QED BY <2>2, <2>3 DEF AccountInv, AccountTable, Maps, Shared, Names
<1>5. CASE ReloadAccounts
  BY <1>4, <1>5 DEF ReloadAccounts
<1>6. CASE RestartWatching
  BY <1>4, <1>6 DEF RestartWatching, Restart
<1>7. CASE UNCHANGED accountVars
  BY <1>7, AccountUnchanged
<1>8. CASE LcNext
  <2>1. ASSUME NEW u \in Usernames, Login(u) PROVE UNCHANGED accountVars
    BY <2>1 DEF Login
  <2>2. ASSUME NEW c \in Characters, NEW a \in Accounts \cup {NoAccount}, AddCharacter(c, a)
        PROVE  UNCHANGED accountVars
    BY <2>2 DEF AddCharacter
  <2>3. ASSUME NEW t \in Timers, Flush(t) \/ TimerWritten(t) PROVE UNCHANGED accountVars
    BY <2>3 DEF Flush, TimerWritten
  <2>4. ASSUME EditCancelled \/ SaveNow \/ UiWritten PROVE UNCHANGED accountVars
    BY <2>4 DEF EditCancelled, SaveNow, UiWritten
  <2>5. ASSUME NEW a \in Accounts \cup {NoAccount}, EditSaves(a)
        PROVE  UNCHANGED accountVars
    BY <2>5 DEF EditSaves
  <2>6. ASSUME NEW c \in Characters, EditOpens(c) \/ DeleteCharacter(c)
        PROVE  UNCHANGED accountVars
    BY <2>6 DEF EditOpens, DeleteCharacter
  <2> QED BY <1>1, <1>2, <1>3, <1>5, <1>7, <1>8, <2>1, <2>2, <2>3, <2>4, <2>5, <2>6 DEF LcNext
<1>9. ASSUME NEW c \in Characters, NEW line \in LogLines \cup {Welcome}, ClientLogs(c, line)
      PROVE  UNCHANGED accountVars
  BY <1>9 DEF ClientLogs
<1>10. ASSUME NEW c \in Characters, OnModified(c) PROVE UNCHANGED accountVars
  BY <1>10 DEF OnModified
<1>11. ASSUME NEW c \in Characters, NEW file \in Dumps, InventoryDumped(c, file)
       PROVE  UNCHANGED accountVars
  BY <1>11 DEF InventoryDumped
<1>12. ASSUME ReadLine \/ ApplyLine \/ DumpApplied PROVE UNCHANGED accountVars
  BY <1>12 DEF ReadLine, ApplyLine, DumpApplied
<1>13. ASSUME UNCHANGED logVars PROVE UNCHANGED accountVars
  BY <1>13 DEF logVars
<1> QED BY <1>6, <1>7, <1>8, <1>9, <1>10, <1>11, <1>12, <1>13 DEF LogNext

LEMMA AccountsAlways == LogSpec => []AccountInv
<1>1. LogInit => AccountInv
  BY AccountInit
<1>2. AccountInv /\ [LogNext]_logVars => AccountInv'
  BY AccountStep
<1> QED BY <1>1, <1>2, PTL DEF LogSpec

(* Through adding, editing, deleting and loading accounts, with any names in  *)
(* any letter case, any aliases and whatever of a file was written: a name    *)
(* leads to an account it belongs to, unless it is an alias of a row that the *)
(* last load replaced, and leads there unless it has stood twice since.       *)
(* (on_edit_local_account, on_delete_local_account, load_local_accounts)      *)
THEOREM MapIsExact == LogSpec => []NameMapExact
<1>1. AccountInv => NameMapExact
  <2> SUFFICES ASSUME AccountInv PROVE NameMapExact
    OBVIOUS
  <2>1. \A n \in DOMAIN MapOf(accounts) :
          \E i \in DOMAIN accounts : accounts[i].name = MapOf(accounts)[n] /\ n \in Names(accounts[i])
    BY MapOfName DEF AccountInv
  <2>2. \A i \in DOMAIN accounts : Names(accounts[i]) \subseteq DOMAIN MapOf(accounts)
    BY MapOfDomain
  <2>3. MapOf(accounts) = [n \in DOMAIN MapOf(accounts) |-> MapOf(accounts)[n]]
    BY MapOfDomain
  <2>4. Shared(accounts) \subseteq shared
    BY DEF AccountInv, Maps
  <2>5. Maps(MapOf(accounts), accounts, shared, orphans)
    BY <2>1, <2>2, <2>3, <2>4 DEF Maps
  <2>6. Without(nameMap, shared \cup orphans) = Without(MapOf(accounts), shared \cup orphans)
    BY <2>5, MapsAgree DEF AccountInv
  <2> QED BY <2>6 DEF NameMapExact, AccountInv, Maps
<1> QED BY <1>1, AccountsAlways, PTL

-----------------------------------------------------------------------------
(* The characters and the threads that save them *)

TimerState(x) ==
  /\ x = [at |-> x.at, rows |-> x.rows]
  /\ x.at \in {"idle", "armed", "writing"}
  /\ CharacterTable(x.rows)

UiState(x) ==
  /\ x = [at |-> x.at, rows |-> x.rows, char |-> x.char, copy |-> x.copy]
  /\ x.at \in {"idle", "editing", "toSave", "writing"}
  /\ CharacterTable(x.rows)
  /\ x.at = "editing" => x.char \in Characters

ThreadInv ==
  /\ CharacterTable(chars) /\ CharacterTable(charFile)
  /\ timerRef \in Timers \cup {0}
  /\ timers = [t \in Timers |-> timers[t]]
  /\ \A t \in Timers : TimerState(timers[t])
  /\ timerRef # 0 => timers[timerRef].at = "armed"
  /\ UiState(ui)
  /\ ops \in 0 .. MaxOps

LEMMA EmptyTable == CharacterTable(<< >>)
<1>1. DOMAIN << >> = {}
  OBVIOUS
<1>2. << >> = [c \in {} |-> << >>[c]]
  OBVIOUS
<1> QED BY <1>1, <1>2 DEF CharacterTable

LEMMA TableWith ==
  ASSUME NEW t, CharacterTable(t), NEW c \in Characters, NEW e
  PROVE  CharacterTable((c :> e) @@ t)
BY DEF CharacterTable, @@, :>

LEMMA TableWithout ==
  ASSUME NEW t, CharacterTable(t), NEW gone
  PROVE  CharacterTable(Without(t, gone))
BY DEF CharacterTable, Without

LEMMA TornTable ==
  ASSUME NEW t, CharacterTable(t), NEW rows \in Torn(t)
  PROVE  CharacterTable(rows)
BY TableWithout DEF Torn

LEMMA IdleState == TimerState(Idle) /\ Idle.at = "idle" /\ ~Busy(Idle)
BY EmptyTable DEF TimerState, Idle, Busy

(* A save is scheduled: some timer is armed from now on. *)
Scheduled ==
  /\ timerRef' \in Timers /\ timers'[timerRef'].at = "armed"
  /\ timers' = [t \in Timers |-> timers'[t]]
  /\ \A t \in Timers : TimerState(timers'[t]) /\ timers'[t].rows = timers[t].rows
  /\ \A t \in Timers : \/ timers'[t].at = timers[t].at
                       \/ timers[t].at = "idle" /\ timers'[t].at = "armed"

LEMMA Schedules ==
  ASSUME ThreadInv, ScheduleSave
  PROVE  Scheduled
<1>1. CASE timerRef # 0 /\ UNCHANGED <<timerRef, timers>>
  <2>1. timerRef' \in Timers /\ timers'[timerRef'].at = "armed"
    BY <1>1 DEF ThreadInv
  <2>2. timers' = timers
    BY <1>1
  <2> QED BY <2>1, <2>2 DEF ThreadInv, Scheduled
<1>2. ASSUME NEW t \in Timers, timers[t].at = "idle", timerRef' = t,
             timers' = [timers EXCEPT ![t].at = "armed"]
      PROVE  Scheduled
  <2>1. timers' = [timers EXCEPT ![t] = [timers[t] EXCEPT !.at = "armed"]]
    BY <1>2
  <2>2. PICK new : new = [timers[t] EXCEPT !.at = "armed"]
    OBVIOUS
  <2>3. timers[t] = [at |-> timers[t].at, rows |-> timers[t].rows] /\ CharacterTable(timers[t].rows)
    BY DEF ThreadInv, TimerState
  <2>4. new = [at |-> "armed", rows |-> timers[t].rows]
    BY <2>2, <2>3
  <2>5. TimerState(new) /\ new.at = "armed" /\ new.rows = timers[t].rows
    BY <2>3, <2>4 DEF TimerState
  <2>6. timers' = [u \in Timers |-> IF u = t THEN new ELSE timers[u]]
    BY <2>1, <2>2 DEF ThreadInv
  <2>7. \A u \in Timers : timers'[u] = IF u = t THEN new ELSE timers[u]
    BY <2>6
  <2>8. timers' = [u \in Timers |-> timers'[u]]
    BY <2>6
  <2>9. timerRef' \in Timers /\ timers'[timerRef'].at = "armed"
    BY <1>2, <2>5, <2>7
  <2>10. \A u \in Timers : TimerState(timers'[u]) /\ timers'[u].rows = timers[u].rows
    BY <2>5, <2>7 DEF ThreadInv
  <2>11. \A u \in Timers : \/ timers'[u].at = timers[u].at
                           \/ timers[u].at = "idle" /\ timers'[u].at = "armed"
    <3>1. timers[t].at = "idle"
      BY <1>2
    <3> TAKE u \in Timers
    <3> QED BY <2>5, <2>7, <3>1
  <2> QED BY <2>8, <2>9, <2>10, <2>11 DEF Scheduled
<1> QED BY <1>1, <1>2 DEF ScheduleSave

(* What an update does: nothing, or a change that is scheduled to be saved.   *)
LEMMA UpdateSchedules ==
  ASSUME ThreadInv, NEW c \in Characters, NEW fields, DOMAIN fields # {}, ApplyUpdate(c, fields)
  PROVE  /\ CharacterTable(chars')
         /\ UNCHANGED <<chars, timerRef, timers>> \/ ScheduleSave
<1> DEFINE old == IF c \in DOMAIN chars THEN chars[c] ELSE Entry(NoAccount, << >>)
           new == [old EXCEPT !.seen = fields @@ @]
<1>1. /\ chars' = (c :> new) @@ chars
      /\ IF new # old THEN ScheduleSave ELSE UNCHANGED <<timerRef, timers>>
  BY DEF ApplyUpdate
<1>2. CharacterTable(chars')
  <2> HIDE DEF new
  <2> QED BY <1>1, TableWith DEF ThreadInv
<1>3. ASSUME new = old, c \notin DOMAIN chars
      PROVE  FALSE
  <2>1. new.seen = fields @@ << >>
    BY <1>3 DEF Entry
  <2>2. DOMAIN new.seen = DOMAIN fields
    <3>1. DOMAIN (fields @@ << >>) = DOMAIN fields
      BY DEF @@
    <3> HIDE DEF new
    <3> QED BY <2>1, <3>1
  <2>3. old.seen = << >>
    BY <1>3 DEF Entry
  <2> HIDE DEF new, old
  <2> QED BY <1>3, <2>2, <2>3
<1>4. ASSUME new = old, c \in DOMAIN chars
      PROVE  chars' = chars
  <2>1. new = chars[c]
    BY <1>4
  <2> HIDE DEF new
  <2> QED BY <1>1, <1>4, <2>1 DEF ThreadInv, CharacterTable, @@, :>
<1> HIDE DEF new, old
<1> QED BY <1>1, <1>2, <1>3, <1>4

LEMMA CreateSchedules ==
  ASSUME ThreadInv, NEW c \in Characters, TryAutoCreate(c)
  PROVE  /\ CharacterTable(chars')
         /\ UNCHANGED <<chars, timerRef, timers>> \/ ScheduleSave
BY TableWith DEF TryAutoCreate, ThreadInv

LEMMA WriteKeeps ==
  ASSUME ThreadInv, NEW rows, CharacterTable(rows), Written(rows)
  PROVE  CharacterTable(charFile')
BY TornTable DEF Written, ThreadInv

-----------------------------------------------------------------------------
(* The logs and their watcher *)

Logs == Seq(LogLines \cup {Welcome})

(* The watcher is inside its log, has a line before it when it is to read one,*)
(* and something to say when it is to say it.                                 *)
FileInv ==
  /\ logs \in [Characters -> Logs]
  /\ modified \subseteq Characters
  /\ newest \in Characters \cup {NoAccount}
  /\ modified # {} => newest \in Characters
  /\ watcher = [log |-> watcher.log, position |-> watcher.position, at |-> watcher.at,
                fields |-> watcher.fields, more |-> watcher.more]
  /\ watcher.at \in {"started", "idle", "reading", "applying"}
  /\ watcher.log \in Characters \cup {NoAccount}
  /\ watcher.position \in Nat
  /\ watcher.log \in Characters => watcher.position <= Len(logs[watcher.log])
  /\ watcher.at # "started" => watcher.log \in Characters
  /\ watcher.at = "reading" => watcher.position < Len(logs[watcher.log])
  /\ watcher.at = "applying" => DOMAIN watcher.fields # {}
  /\ watcher.more # << >> => DOMAIN watcher.more # {}
  /\ dump # NoDump => dump.char \in Characters /\ DOMAIN dump.items # {}

LEMMA SeekInside ==
  ASSUME NEW log \in Logs
  PROVE  /\ SeekPosition(log) \in Nat /\ SeekPosition(log) <= Len(log)
         /\ Recent(log) # {} => SeekPosition(log) \in Recent(log)
<1>1. Len(log) \in Nat /\ DOMAIN log = 1 .. Len(log)
  BY LenProperties DEF Logs
<1>2. Recent(log) \subseteq DOMAIN log
  BY DEF Recent, Welcomes
<1>3. ASSUME Recent(log) # {}
      PROVE  SeekPosition(log) \in Recent(log)
  <2>1. Recent(log) \in SUBSET Nat
    BY <1>1, <1>2
  <2>2. PICK x \in Recent(log) : \A y \in Recent(log) : x <= y
    BY <1>3, <2>1, FirstOne
  <2>3. Min(Recent(log)) \in Recent(log)
    BY <2>2 DEF Min
  <2> QED BY <1>3, <2>3 DEF SeekPosition
<1>4. SeekPosition(log) = Len(log) \/ SeekPosition(log) \in Recent(log)
  BY <1>3 DEF SeekPosition
<1> QED BY <1>1, <1>2, <1>3, <1>4

LEMMA ObservedSays ==
  ASSUME NEW c, NEW line, Observed(c, line) # << >>
  PROVE  DOMAIN Observed(c, line) # {}
<1>1. \/ Observed(c, line) = << >>
      \/ \E k, v : Observed(c, line) = k :> v
  <2>1. CASE Zones(line)
    <3>1. Observed(c, line) = "park" :> line.value
      BY <2>1 DEF Observed, Zones
    <3> QED BY <3>1
  <2>2. CASE line.kind = "bind_confirm"
    <3>1. Observed(c, line) = IF c \in DOMAIN zone THEN "bind" :> zone[c] ELSE << >>
      BY <2>2 DEF Observed, Zones
    <3> QED BY <3>1
  <2>3. CASE line.kind = "charinfo"
    <3>1. Observed(c, line) = "bind" :> line.value
      BY <2>3 DEF Observed, Zones
    <3> QED BY <3>1
  <2>4. CASE line.kind = "level_up"
    <3>1. Observed(c, line) = "level" :> line.value
      BY <2>4 DEF Observed, Zones
    <3> QED BY <3>1
  <2>5. CASE line.kind \in {"who_self", "who_title"}
    <3>1. Observed(c, line) = "level" :> line.value
      BY <2>5 DEF Observed, Zones
    <3> QED BY <3>1
  <2>6. CASE line.kind = "velium"
    <3>1. Observed(c, line) = "thurg" :> FALSE
      BY <2>6 DEF Observed, Zones
    <3> QED BY <3>1
  <2>7. CASE ~(\/ Zones(line)
               \/ line.kind \in {"bind_confirm", "charinfo", "level_up", "who_self", "who_title",
                                  "velium"})
    BY <2>7 DEF Observed
  <2> QED BY <2>1, <2>2, <2>3, <2>4, <2>5, <2>6, <2>7
<1>2. ASSUME NEW k, NEW v, Observed(c, line) = k :> v
      PROVE  DOMAIN Observed(c, line) # {}
  BY <1>2 DEF :>
<1> QED BY <1>1, <1>2

LEMMA ClassSays ==
  ASSUME NEW line, Class(line) # << >>
  PROVE  DOMAIN Class(line) # {}
BY DEF Class, :>

LEMMA FileInit == LogInit => FileInv
<1> SUFFICES ASSUME LogInit PROVE FileInv
  OBVIOUS
<1>1. \A c \in Characters : logs[c] = << >>
  BY DEF LogInit
<1>2. logs \in [Characters -> Logs]
  BY EmptySeq DEF LogInit, Logs
<1>3. watcher = NotFollowing /\ dump = NoDump
  BY DEF LogInit
<1> QED BY <1>1, <1>2, <1>3 DEF LogInit, FileInv, NotFollowing

LEMMA FileLogs ==
  ASSUME FileInv, NEW c \in Characters, NEW line \in LogLines \cup {Welcome}, ClientLogs(c, line)
  PROVE  /\ FileInv'
         /\ \A d \in Characters : /\ Len(logs[d]) \in Nat /\ Len(logs'[d]) >= Len(logs[d])
                                  /\ \A i \in 1 .. Len(logs[d]) : logs'[d][i] = logs[d][i]
<1>1. logs' = [logs EXCEPT ![c] = Append(logs[c], line)]
  BY DEF ClientLogs
<1>2. logs[c] \in Logs
  BY DEF FileInv
<1>3. /\ Append(logs[c], line) \in Logs /\ Len(logs[c]) \in Nat
      /\ Len(Append(logs[c], line)) = Len(logs[c]) + 1
      /\ \A i \in 1 .. Len(logs[c]) : Append(logs[c], line)[i] = logs[c][i]
  BY <1>2, AppendProperties, LenProperties DEF Logs
<1>4. logs' \in [Characters -> Logs]
  BY <1>1, <1>3 DEF FileInv
<1>5. \A d \in Characters : logs'[d] = IF d = c THEN Append(logs[c], line) ELSE logs[d]
  BY <1>1 DEF FileInv
<1>6. \A d \in Characters : Len(logs[d]) \in Nat
  BY LenProperties DEF FileInv, Logs
<1>7. \A d \in Characters : /\ Len(logs'[d]) >= Len(logs[d]) /\ Len(logs'[d]) \in Nat
                            /\ \A i \in 1 .. Len(logs[d]) : logs'[d][i] = logs[d][i]
  <2> TAKE d \in Characters
  <2>1. CASE d = c
    <3>1. logs'[d] = Append(logs[c], line)
      BY <1>5, <2>1
    <3> QED BY <1>3, <2>1, <3>1
  <2>2. CASE d # c
    <3>1. logs'[d] = logs[d]
      BY <1>5, <2>2
    <3> QED BY <1>6, <3>1
  <2> QED BY <2>1, <2>2
<1>8. newest' = c /\ modified' = modified \cup {c} /\ UNCHANGED <<watcher, dump>>
  BY DEF ClientLogs
<1>9. FileInv'
  BY <1>4, <1>6, <1>7, <1>8 DEF FileInv, NoDump
<1> QED BY <1>6, <1>7, <1>9

LEMMA FileModified ==
  ASSUME FileInv, NEW c \in Characters, OnModified(c)
  PROVE  FileInv' /\ newest \in Characters
<1>1. /\ UNCHANGED <<logs, newest, dump>> /\ modified' \subseteq modified
      /\ c \in modified /\ watcher.at \in {"started", "idle"}
  BY DEF OnModified
<1>2. newest \in Characters
  BY <1>1 DEF FileInv
<1>3. logs[newest] \in Logs
  BY <1>2 DEF FileInv
<1>4. CASE UNCHANGED watcher
  BY <1>1, <1>2, <1>4 DEF FileInv
<1>5. ASSUME AnyTracked, NEW next, next = (IF newest = watcher.log THEN watcher ELSE Following(newest)),
             watcher' = [next EXCEPT !.at = IF c = newest THEN After(next) ELSE @]
      PROVE  FileInv'
  <2>1. Following(newest) = [log |-> newest, position |-> SeekPosition(logs[newest]),
                             at |-> "started", fields |-> << >>, more |-> << >>]
    BY DEF Following
  <2>2. /\ next = [log |-> next.log, position |-> next.position, at |-> next.at,
                   fields |-> next.fields, more |-> next.more]
        /\ next.more # << >> => DOMAIN next.more # {}
        /\ next.log = newest /\ next.position \in Nat /\ next.position <= Len(logs[newest])
        /\ next.at \in {"started", "idle"}
    BY <1>1, <1>2, <1>3, <1>5, <2>1, SeekInside DEF FileInv
  <2>3. PICK at : at = IF c = newest THEN After(next) ELSE next.at
    OBVIOUS
  <2>4. watcher' = [log |-> newest, position |-> next.position, at |-> at, fields |-> next.fields,
                    more |-> next.more]
    BY <1>5, <2>2, <2>3
  <2>5. /\ watcher'.log = newest /\ watcher'.position = next.position
        /\ watcher'.at = at /\ watcher'.fields = next.fields /\ watcher'.more = next.more
    BY <2>4
  <2>6. at \in {"started", "idle", "reading"} /\ (at = "reading" => next.position < Len(logs[newest]))
    BY <2>2, <2>3 DEF After
  <2> QED BY <1>1, <1>2, <2>2, <2>4, <2>5, <2>6 DEF FileInv
<1> QED BY <1>2, <1>4, <1>5 DEF OnModified

LEMMA FileRead ==
  ASSUME FileInv, ReadLine
  PROVE  FileInv'
<1> DEFINE c == watcher.log
           fields == Observed(c, logs[c][watcher.position + 1])
           class == Class(logs[c][watcher.position + 1])
           next == [watcher EXCEPT !.position = @ + 1]
<1>1. /\ watcher.at = "reading" /\ UNCHANGED <<fileVars, dump>>
      /\ watcher' = IF fields # << >> /\ c \in DOMAIN chars
                    THEN [next EXCEPT !.at = "applying", !.fields = fields, !.more = class]
                    ELSE [next EXCEPT !.at = After(next)]
  BY DEF ReadLine
<1>2. c \in Characters /\ watcher.position + 1 <= Len(logs[c]) /\ Len(logs[c]) \in Nat
  BY <1>1, LenProperties DEF FileInv, Logs
<1>3. next = [log |-> c, position |-> watcher.position + 1, at |-> "reading",
              fields |-> watcher.fields, more |-> watcher.more]
  BY <1>1 DEF FileInv
<1>4. next.log = c /\ next.position = watcher.position + 1
  BY <1>3
<1>5. After(next) = IF watcher.position + 1 < Len(logs[c]) THEN "reading" ELSE "idle"
  BY <1>4 DEF After
<1>6. PICK said, rest : said = fields /\ rest = class
  OBVIOUS
<1>7. CASE said # << >> /\ c \in DOMAIN chars
  <2>1. DOMAIN said # {}
    BY <1>6, <1>7, ObservedSays
  <2>2. rest # << >> => DOMAIN rest # {}
    BY <1>6, ClassSays
  <2>3. watcher' = [log |-> c, position |-> watcher.position + 1, at |-> "applying", fields |-> said,
                    more |-> rest]
    BY <1>1, <1>3, <1>6, <1>7
  <2>4. /\ watcher'.log = c /\ watcher'.position = watcher.position + 1
        /\ watcher'.at = "applying" /\ watcher'.fields = said /\ watcher'.more = rest
    BY <2>3
  <2> HIDE DEF next, fields, class
  <2> QED BY <1>1, <1>2, <2>1, <2>2, <2>3, <2>4 DEF FileInv, fileVars
<1>8. CASE ~(said # << >> /\ c \in DOMAIN chars)
  <2>1. PICK at : at = After(next)
    OBVIOUS
  <2>2. watcher' = [log |-> c, position |-> watcher.position + 1, at |-> at, fields |-> watcher.fields,
                    more |-> watcher.more]
    BY <1>1, <1>3, <1>6, <1>8, <2>1
  <2>3. /\ watcher'.log = c /\ watcher'.position = watcher.position + 1
        /\ watcher'.at = at /\ watcher'.fields = watcher.fields /\ watcher'.more = watcher.more
    BY <2>2
  <2>4. at = IF watcher.position + 1 < Len(logs[c]) THEN "reading" ELSE "idle"
    BY <1>5, <2>1
  <2> HIDE DEF next, fields, class
  <2> QED BY <1>1, <1>2, <2>2, <2>3, <2>4 DEF FileInv, fileVars
<1> QED BY <1>7, <1>8

LEMMA FileApply ==
  ASSUME FileInv, ApplyLine
  PROVE  FileInv'
<1>1. /\ watcher.at = "applying" /\ UNCHANGED <<fileVars, dump>>
      /\ watcher' = [watcher EXCEPT !.at = IF watcher.more # << >> THEN "applying" ELSE After(watcher),
                                    !.fields = watcher.more, !.more = << >>]
  BY DEF ApplyLine
<1>2. PICK at : at = IF watcher.more # << >> THEN "applying" ELSE After(watcher)
  OBVIOUS
<1>3. watcher' = [log |-> watcher.log, position |-> watcher.position, at |-> at,
                  fields |-> watcher.more, more |-> << >>]
  BY <1>1, <1>2 DEF FileInv
<1>4. /\ watcher'.log = watcher.log /\ watcher'.position = watcher.position
      /\ watcher'.at = at /\ watcher'.fields = watcher.more /\ watcher'.more = << >>
  BY <1>3
<1>5. /\ at \in {"applying", "reading", "idle"}
      /\ at = "applying" => watcher.more # << >>
      /\ at = "reading" => watcher.position < Len(logs[watcher.log])
  BY <1>2 DEF After
<1> QED BY <1>1, <1>3, <1>4, <1>5 DEF FileInv, fileVars

LEMMA FileDump ==
  ASSUME FileInv, NEW c \in Characters, NEW file \in Dumps, InventoryDumped(c, file)
  PROVE  FileInv'
<1>1. PICK items : items = ParsedInventory(file)
  OBVIOUS
<1>2. /\ UNCHANGED <<logs, newest, modified, watcher>>
      /\ dump' = IF c \in DOMAIN chars THEN [char |-> c, items |-> items] ELSE dump
  BY <1>1 DEF InventoryDumped
<1>3. DOMAIN items # {}
  BY <1>1, ItemsAssumption DEF ParsedInventory, @@
<1> QED BY <1>2, <1>3 DEF FileInv, NoDump

LEMMA FileRestart ==
  ASSUME FileInv, RestartWatching
  PROVE  FileInv'
<1>1. /\ UNCHANGED <<logs, newest>> /\ modified' = {} /\ dump' = NoDump
      /\ \/ newest # NoAccount /\ watcher' = Following(newest)
         \/ watcher' = [NotFollowing EXCEPT !.log = newest]
  BY DEF RestartWatching
<1>2. CASE newest # NoAccount /\ watcher' = Following(newest)
  <2>1. newest \in Characters /\ logs[newest] \in Logs
    BY <1>2 DEF FileInv
  <2>2. watcher' = [log |-> newest, position |-> SeekPosition(logs[newest]), at |-> "started",
                    fields |-> << >>, more |-> << >>]
    BY <1>2 DEF Following
  <2>3. /\ watcher'.log = newest /\ watcher'.position = SeekPosition(logs[newest])
        /\ watcher'.at = "started" /\ watcher'.fields = << >> /\ watcher'.more = << >>
    BY <2>2
  <2> QED BY <1>1, <2>1, <2>2, <2>3, SeekInside DEF FileInv
<1>3. CASE watcher' = [NotFollowing EXCEPT !.log = newest]
  <2>1. watcher' = [log |-> newest, position |-> 0, at |-> "started", fields |-> << >>, more |-> << >>]
    BY <1>3 DEF NotFollowing
  <2>2. newest \in Characters => Len(logs[newest]) \in Nat
    BY LenProperties DEF FileInv, Logs
  <2>3. /\ watcher'.log = newest /\ watcher'.position = 0
        /\ watcher'.at = "started" /\ watcher'.fields = << >> /\ watcher'.more = << >>
    BY <2>1
  <2> QED BY <1>1, <2>1, <2>2, <2>3 DEF FileInv
<1> QED BY <1>1, <1>2, <1>3

LEMMA FileStep == FileInv /\ [LogNext]_logVars => FileInv'
<1> SUFFICES ASSUME FileInv, [LogNext]_logVars PROVE FileInv'
  OBVIOUS
<1>1. ASSUME UNCHANGED <<fileVars, watcher, dump>> PROVE FileInv'
  BY <1>1 DEF FileInv, fileVars
<1>2. CASE LcNext /\ UNCHANGED watchVars
  BY <1>1, <1>2 DEF watchVars
<1>3. CASE UNCHANGED logVars
  BY <1>1, <1>3 DEF watchVars, logVars
<1>4. CASE DumpApplied
  <2>1. UNCHANGED <<fileVars, watcher>> /\ dump' = NoDump
    BY <1>4 DEF DumpApplied
  <2> QED BY <2>1 DEF FileInv, fileVars
<1> QED BY <1>2, <1>3, <1>4, FileLogs, FileModified, FileRead, FileApply, FileDump, FileRestart
    DEF LogNext

-----------------------------------------------------------------------------
(* Types of the characters and their threads *)

LEMMA ThreadInit == LogInit => ThreadInv
<1> SUFFICES ASSUME LogInit PROVE ThreadInv
  OBVIOUS
<1>1. CharacterTable(charFile) /\ chars = charFile
  BY StartsAssumption DEF LogInit, LcInit
<1>2. timers = [t \in Timers |-> Idle] /\ timerRef = 0 /\ ops = 0
  BY DEF LogInit, LcInit
<1>3. ui = [at |-> "idle", rows |-> << >>, char |-> NoAccount, copy |-> << >>]
  BY DEF LogInit, LcInit
<1>4. UiState(ui)
  BY <1>3, EmptyTable DEF UiState
<1> QED BY <1>1, <1>2, <1>4, IdleState, LocalAssumption DEF ThreadInv

(* What the watchers do to the characters. *)
WatchEffect ==
  /\ CharacterTable(chars') /\ UNCHANGED <<charFile, suspect, ui, ops>>
  /\ UNCHANGED <<chars, timerRef, timers>> \/ ScheduleSave

LEMMA WatcherEffect ==
  ASSUME ThreadInv, FileInv,
         ReadLine \/ ApplyLine \/ DumpApplied \/ \E c \in Characters : OnModified(c)
  PROVE  WatchEffect
<1>1. CASE ReadLine
  BY <1>1 DEF ReadLine, WatchEffect, ThreadInv, charVars, threadVars
<1>2. CASE ApplyLine
  <2>1. watcher.log \in Characters /\ DOMAIN watcher.fields # {}
    BY <1>2 DEF ApplyLine, FileInv
  <2> QED BY <1>2, <2>1, UpdateSchedules DEF ApplyLine, WatchEffect
<1>3. CASE DumpApplied
  <2>1. dump.char \in Characters /\ DOMAIN dump.items # {}
    BY <1>3 DEF DumpApplied, FileInv
  <2> QED BY <1>3, <2>1, UpdateSchedules DEF DumpApplied, WatchEffect
<1>4. ASSUME NEW c \in Characters, OnModified(c)
      PROVE  WatchEffect
  <2>1. newest \in Characters
    BY <1>4, FileModified
  <2> QED BY <1>4, <2>1, CreateSchedules DEF OnModified, WatchEffect, ThreadInv
<1> QED BY <1>1, <1>2, <1>3, <1>4

LEMMA ThreadWatch ==
  ASSUME ThreadInv, WatchEffect
  PROVE  ThreadInv'
BY Schedules DEF ThreadInv, WatchEffect, Scheduled

LEMMA OpCounts ==
  ASSUME ops \in 0 .. MaxOps, Op
  PROVE  ops' \in 0 .. MaxOps
BY LocalAssumption DEF Op

LEMMA UiBecomes ==
  ASSUME UiState(ui),
         \/ ui' = [ui EXCEPT !.at = "toSave"]
         \/ ui' = [ui EXCEPT !.at = "toSave", !.char = NoAccount, !.copy = << >>]
         \/ ui' = [ui EXCEPT !.at = "idle", !.char = NoAccount, !.copy = << >>]
         \/ ui' = [ui EXCEPT !.at = "idle", !.rows = << >>]
  PROVE  UiState(ui')
<1>1. ui = [at |-> ui.at, rows |-> ui.rows, char |-> ui.char, copy |-> ui.copy]
  BY DEF UiState
<1>2. CASE ui' = [ui EXCEPT !.at = "toSave"]
  <2>1. ui' = [at |-> "toSave", rows |-> ui.rows, char |-> ui.char, copy |-> ui.copy]
    BY <1>1, <1>2
  <2> QED BY <2>1 DEF UiState
<1>3. CASE ui' = [ui EXCEPT !.at = "toSave", !.char = NoAccount, !.copy = << >>]
  <2>1. ui' = [at |-> "toSave", rows |-> ui.rows, char |-> NoAccount, copy |-> << >>]
    BY <1>1, <1>3
  <2> QED BY <2>1 DEF UiState
<1>4. CASE ui' = [ui EXCEPT !.at = "idle", !.char = NoAccount, !.copy = << >>]
  <2>1. ui' = [at |-> "idle", rows |-> ui.rows, char |-> NoAccount, copy |-> << >>]
    BY <1>1, <1>4
  <2> QED BY <2>1 DEF UiState
<1>5. CASE ui' = [ui EXCEPT !.at = "idle", !.rows = << >>]
  <2>1. ui' = [at |-> "idle", rows |-> << >>, char |-> ui.char, copy |-> ui.copy]
    BY <1>1, <1>5
  <2> QED BY <2>1, EmptyTable DEF UiState
<1> QED BY <1>2, <1>3, <1>4, <1>5

LEMMA UiWrites ==
  ASSUME UiState(ui), NEW rows, CharacterTable(rows),
         ui' = [ui EXCEPT !.at = "writing", !.rows = rows]
  PROVE  UiState(ui') /\ ui'.at = "writing" /\ ui'.rows = rows
<1>1. ui' = [at |-> "writing", rows |-> rows, char |-> ui.char, copy |-> ui.copy]
  BY DEF UiState
<1> QED BY <1>1 DEF UiState

LEMMA UiEdits ==
  ASSUME UiState(ui), NEW c \in Characters, NEW copy,
         ui' = [ui EXCEPT !.at = "editing", !.char = c, !.copy = copy]
  PROVE  UiState(ui') /\ ui'.at = "editing"
<1>1. ui' = [at |-> "editing", rows |-> ui.rows, char |-> c, copy |-> copy]
  BY DEF UiState
<1> QED BY <1>1 DEF UiState

LEMMA TimerBecomes ==
  ASSUME ThreadInv, NEW t \in Timers, NEW x, TimerState(x), timers' = [timers EXCEPT ![t] = x]
  PROVE  /\ timers' = [u \in Timers |-> timers'[u]] /\ timers'[t] = x
         /\ \A u \in Timers : TimerState(timers'[u]) /\ (u # t => timers'[u] = timers[u])
BY DEF ThreadInv

(* What the user does with the characters. *)
UserEffect ==
  /\ CharacterTable(chars') /\ UNCHANGED <<charFile, suspect, timerRef, timers>>
  /\ UiState(ui') /\ ops' \in 0 .. MaxOps
  /\ \/ ui'.at = "toSave" /\ ui.at \in {"idle", "editing"}
     \/ UNCHANGED chars /\ ui.at \in {"idle", "editing"} /\ ui'.at \in {"idle", "editing"}

LEMMA UserActs ==
  ASSUME ThreadInv,
         \/ \E c \in Characters, a \in Accounts \cup {NoAccount} : AddCharacter(c, a)
         \/ \E c \in Characters : EditOpens(c) \/ DeleteCharacter(c)
         \/ \E a \in Accounts \cup {NoAccount} : EditSaves(a)
         \/ EditCancelled
  PROVE  UserEffect
<1>0. UiState(ui) /\ CharacterTable(chars) /\ ops \in 0 .. MaxOps
  BY DEF ThreadInv
<1>1. ASSUME NEW c \in Characters, NEW a, AddCharacter(c, a)
      PROVE  UserEffect
  <2>1. /\ Op /\ ui.at = "idle" /\ chars' = (c :> Entry(Lower[a], << >>)) @@ chars
        /\ ui' = [ui EXCEPT !.at = "toSave"] /\ UNCHANGED <<charFile, suspect, timerRef, timers>>
    BY <1>1 DEF AddCharacter, Click
  <2>2. ui'.at = "toSave"
    BY <1>0, <2>1 DEF UiState
  <2>3. CharacterTable(chars') /\ UiState(ui') /\ ops' \in 0 .. MaxOps
    BY <1>0, <2>1, TableWith, UiBecomes, OpCounts
  <2> QED BY <2>1, <2>2, <2>3 DEF UserEffect
<1>2. ASSUME NEW c \in Characters, EditOpens(c)
      PROVE  UserEffect
  <2>1. PICK copy : copy = chars[c].seen
    OBVIOUS
  <2>2. /\ Op /\ ui.at = "idle" /\ ui' = [ui EXCEPT !.at = "editing", !.char = c, !.copy = copy]
        /\ UNCHANGED <<chars, charFile, suspect, timerRef, timers>>
    BY <1>2, <2>1 DEF EditOpens, Click, charVars
  <2>3. UiState(ui') /\ ui'.at = "editing" /\ ops' \in 0 .. MaxOps
    BY <1>0, <2>2, UiEdits, OpCounts
  <2> QED BY <1>0, <2>2, <2>3 DEF UserEffect
<1>3. ASSUME NEW c \in Characters, DeleteCharacter(c)
      PROVE  UserEffect
  <2>1. /\ Op /\ ui.at = "idle" /\ chars' = Without(chars, {c})
        /\ ui' = [ui EXCEPT !.at = "toSave"] /\ UNCHANGED <<charFile, suspect, timerRef, timers>>
    BY <1>3 DEF DeleteCharacter, Click
  <2>2. ui'.at = "toSave"
    BY <1>0, <2>1 DEF UiState
  <2>3. CharacterTable(chars') /\ UiState(ui') /\ ops' \in 0 .. MaxOps
    BY <1>0, <2>1, TableWithout, UiBecomes, OpCounts
  <2> QED BY <2>1, <2>2, <2>3 DEF UserEffect
<1>4. ASSUME NEW a, EditSaves(a)
      PROVE  UserEffect
  <2>1. /\ ui.at = "editing" /\ chars' = (ui.char :> Entry(Lower[a], ui.copy)) @@ chars
        /\ ui' = [ui EXCEPT !.at = "toSave", !.char = NoAccount, !.copy = << >>]
        /\ UNCHANGED <<charFile, suspect, timerRef, timers, ops>>
    BY <1>4 DEF EditSaves
  <2>2. ui'.at = "toSave"
    BY <1>0, <2>1 DEF UiState
  <2>3. ui.char \in Characters
    BY <1>0, <2>1 DEF UiState
  <2>4. CharacterTable(chars') /\ UiState(ui')
    BY <1>0, <2>1, <2>3, TableWith, UiBecomes
  <2> QED BY <1>0, <2>1, <2>2, <2>4 DEF UserEffect
<1>5. CASE EditCancelled
  <2>1. /\ ui.at = "editing" /\ UNCHANGED <<chars, charFile, suspect, timerRef, timers, ops>>
        /\ ui' = [ui EXCEPT !.at = "idle", !.char = NoAccount, !.copy = << >>]
    BY <1>5 DEF EditCancelled, charVars
  <2>2. ui'.at = "idle"
    BY <1>0, <2>1 DEF UiState
  <2>3. UiState(ui')
    BY <1>0, <2>1, UiBecomes
  <2> QED BY <1>0, <2>1, <2>2, <2>3 DEF UserEffect
<1> QED BY <1>1, <1>2, <1>3, <1>4, <1>5

(* What the threads that save do. *)
LEMMA SaveNowTypes ==
  ASSUME ThreadInv, SaveNow
  PROVE  /\ ThreadInv' /\ ui'.at = "writing" /\ ui'.rows = chars
         /\ \A t \in Timers : timers'[t] \in {timers[t], Idle}
<1>1. /\ ui.at = "toSave" /\ timerRef' = 0 /\ UNCHANGED <<chars, charFile, ops>>
      /\ ui' = [ui EXCEPT !.at = "writing", !.rows = chars]
  BY DEF SaveNow
<1>2. UiState(ui') /\ ui'.at = "writing" /\ ui'.rows = chars
  BY <1>1, UiWrites DEF ThreadInv
<1>3. /\ timers' = [t \in Timers |-> timers'[t]]
      /\ \A t \in Timers : timers'[t] \in {timers[t], Idle}
  <2>1. CASE timers' = timers
    BY <2>1 DEF ThreadInv
  <2>2. CASE timers' = [t \in Timers |-> IF t = timerRef THEN Idle ELSE timers[t]]
    BY <2>2
  <2> QED BY <2>1, <2>2 DEF SaveNow
<1> QED BY <1>1, <1>2, <1>3, IdleState DEF ThreadInv

LEMMA FlushTypes ==
  ASSUME ThreadInv, NEW t \in Timers, Flush(t)
  PROVE  /\ ThreadInv' /\ Busy(timers'[t]) /\ timers'[t].rows = chars
         /\ \A u \in Timers \ {t} : timers'[u] = timers[u]
<1>1. PICK x : x = [at |-> "writing", rows |-> chars]
  OBVIOUS
<1>2. /\ timerRef' = 0 /\ UNCHANGED <<chars, charFile, ui, ops>> /\ timers' = [timers EXCEPT ![t] = x]
  BY <1>1 DEF Flush
<1>3. TimerState(x) /\ Busy(x) /\ x.rows = chars
  BY <1>1 DEF ThreadInv, TimerState, Busy
<1>4. /\ timers' = [u \in Timers |-> timers'[u]] /\ timers'[t] = x
      /\ \A u \in Timers : TimerState(timers'[u]) /\ (u # t => timers'[u] = timers[u])
  BY <1>2, <1>3, TimerBecomes
<1> QED BY <1>2, <1>3, <1>4 DEF ThreadInv

LEMMA TimerWrittenTypes ==
  ASSUME ThreadInv, NEW t \in Timers, TimerWritten(t)
  PROVE  /\ ThreadInv' /\ timers'[t] = Idle
         /\ \A u \in Timers \ {t} : timers'[u] = timers[u]
<1>1. /\ Busy(timers[t]) /\ UNCHANGED <<chars, timerRef, ui, ops>> /\ timers' = [timers EXCEPT ![t] = Idle]
      /\ Written(timers[t].rows)
  BY DEF TimerWritten
<1>2. CharacterTable(charFile')
  BY <1>1, WriteKeeps DEF ThreadInv, TimerState
<1>3. /\ timers' = [u \in Timers |-> timers'[u]] /\ timers'[t] = Idle
      /\ \A u \in Timers : TimerState(timers'[u]) /\ (u # t => timers'[u] = timers[u])
  BY <1>1, IdleState, TimerBecomes
<1>4. timerRef # t
  BY <1>1, LocalAssumption DEF ThreadInv, Busy
<1> QED BY <1>1, <1>2, <1>3, <1>4 DEF ThreadInv

LEMMA UiWrittenTypes ==
  ASSUME ThreadInv, UiWritten
  PROVE  ThreadInv' /\ ui'.at = "idle"
<1>1. /\ UNCHANGED <<chars, timerRef, timers, ops>> /\ ui' = [ui EXCEPT !.at = "idle", !.rows = << >>]
      /\ Written(ui.rows)
  BY DEF UiWritten
<1>2. CharacterTable(charFile') /\ UiState(ui')
  BY <1>1, WriteKeeps, UiBecomes DEF ThreadInv, UiState
<1>3. ui'.at = "idle"
  BY <1>1 DEF ThreadInv, UiState
<1> QED BY <1>1, <1>2, <1>3 DEF ThreadInv

LEMMA RestartTypes ==
  ASSUME ThreadInv, Restart
  PROVE  /\ ThreadInv' /\ ui'.at = "idle" /\ chars' = charFile'
         /\ \A t \in Timers : timers'[t] = Idle
<1>1. /\ chars' = charFile' /\ timerRef' = 0 /\ timers' = [t \in Timers |-> Idle]
      /\ ui' = [at |-> "idle", rows |-> << >>, char |-> NoAccount, copy |-> << >>]
      /\ Op
  BY DEF Restart
<1>2. CharacterTable(charFile')
  <2>1. \/ charFile' = charFile
        \/ Busy(ui) /\ charFile' \in Torn(ui.rows)
        \/ \E t \in Timers : charFile' \in Torn(timers[t].rows)
    BY DEF Restart
  <2> QED BY <2>1, TornTable DEF ThreadInv, UiState, TimerState
<1>3. UiState(ui') /\ ui'.at = "idle"
  BY <1>1, EmptyTable DEF UiState
<1>4. ops' \in 0 .. MaxOps
  BY <1>1, OpCounts DEF ThreadInv
<1> QED BY <1>1, <1>2, <1>3, <1>4, IdleState DEF ThreadInv

LEMMA ThreadUnchanged ==
  ASSUME ThreadInv, UNCHANGED <<charVars, threadVars>>, ops' \in 0 .. MaxOps
  PROVE  ThreadInv'
BY DEF ThreadInv, charVars, threadVars

(* The steps that leave the characters and their threads alone. *)
LEMMA OtherSteps ==
  ASSUME ops \in 0 .. MaxOps,
         \/ \E u \in Usernames : Login(u)
         \/ \E a \in Accounts, s \in Aliases : AddAccount(a, s) \/ EditAccount(a, s)
         \/ \E a \in Accounts : DeleteAccount(a)
         \/ ReloadAccounts
         \/ \E c \in Characters, line \in LogLines \cup {Welcome} : ClientLogs(c, line)
         \/ \E c \in Characters, file \in Dumps : InventoryDumped(c, file)
         \/ UNCHANGED logVars
  PROVE  UNCHANGED <<charVars, threadVars>> /\ ops' \in 0 .. MaxOps
<1>1. ASSUME NEW u \in Usernames, Login(u)
      PROVE  UNCHANGED <<charVars, threadVars>> /\ ops' \in 0 .. MaxOps
  BY <1>1, OpCounts DEF Login
<1>2. ASSUME NEW a \in Accounts, NEW s \in Aliases, AddAccount(a, s) \/ EditAccount(a, s)
      PROVE  UNCHANGED <<charVars, threadVars>> /\ ops' \in 0 .. MaxOps
  BY <1>2, OpCounts DEF AddAccount, EditAccount, SaveAccounts, Click
<1>3. ASSUME NEW a \in Accounts, DeleteAccount(a)
      PROVE  UNCHANGED <<charVars, threadVars>> /\ ops' \in 0 .. MaxOps
  BY <1>3, OpCounts DEF DeleteAccount, SaveAccounts, Click
<1>4. CASE ReloadAccounts
  BY <1>4, OpCounts DEF ReloadAccounts, Click
<1>5. ASSUME NEW c \in Characters, NEW line \in LogLines \cup {Welcome}, ClientLogs(c, line)
      PROVE  UNCHANGED <<charVars, threadVars>> /\ ops' \in 0 .. MaxOps
  BY <1>5 DEF ClientLogs
<1>6. ASSUME NEW c \in Characters, NEW file \in Dumps, InventoryDumped(c, file)
      PROVE  UNCHANGED <<charVars, threadVars>> /\ ops' \in 0 .. MaxOps
  BY <1>6 DEF InventoryDumped
<1>7. CASE UNCHANGED logVars
  BY <1>7 DEF logVars
<1> QED BY <1>1, <1>2, <1>3, <1>4, <1>5, <1>6, <1>7

LEMMA ThreadStep == ThreadInv /\ FileInv /\ [LogNext]_logVars => ThreadInv'
<1> SUFFICES ASSUME ThreadInv, FileInv, [LogNext]_logVars PROVE ThreadInv'
  OBVIOUS
<1>1. ASSUME WatchEffect PROVE ThreadInv'
  BY <1>1, ThreadWatch
<1>2. ASSUME UserEffect PROVE ThreadInv'
  BY <1>2 DEF ThreadInv, UserEffect
<1>3. ASSUME UNCHANGED <<charVars, threadVars>>, ops' \in 0 .. MaxOps PROVE ThreadInv'
  BY <1>3, ThreadUnchanged
<1>4. ops \in 0 .. MaxOps
  BY DEF ThreadInv
<1>5. CASE RestartWatching
  BY <1>5, RestartTypes DEF RestartWatching
<1>6. CASE LcNext
  BY <1>2, <1>3, <1>4, <1>6, OtherSteps, UserActs, SaveNowTypes, UiWrittenTypes, FlushTypes,
     TimerWrittenTypes DEF LcNext
<1> QED BY <1>1, <1>3, <1>4, <1>5, <1>6, OtherSteps, WatcherEffect DEF LogNext

-----------------------------------------------------------------------------
(* Which saves are under way *)

Pending == ui.at = "toSave" \/ \E t \in Timers : timers[t].at = "armed"

(* One save at a time: the UI thread's or one timer's. *)
OneWriter ==
  /\ \A t, u \in Timers : Busy(timers[t]) /\ Busy(timers[u]) => t = u
  /\ Busy(ui) => \A t \in Timers : ~Busy(timers[t])

(* QuietMeansSaved is not inductive: it says nothing while a save is pending  *)
(* or under way. With nothing pending, the one save under way has the         *)
(* characters as they are, and without one the file has them.                 *)
SaveInv ==
  ~suspect =>
    /\ OneWriter
    /\ ~Pending => /\ \A t \in Timers : Busy(timers[t]) => timers[t].rows = chars
                   /\ Busy(ui) => ui.rows = chars
                   /\ ~Writing => charFile = chars

LEMMA SaveInit == LogInit => SaveInv
<1> SUFFICES ASSUME LogInit PROVE SaveInv
  OBVIOUS
<1>1. \A t \in Timers : timers[t] = Idle
  BY DEF LogInit, LcInit
<1>2. ui.at = "idle" /\ charFile = chars
  BY DEF LogInit, LcInit
<1> QED BY <1>1, <1>2, IdleState DEF SaveInv, OneWriter, Busy

LEMMA SaveUnchanged ==
  ASSUME SaveInv, UNCHANGED <<charVars, threadVars>>
  PROVE  SaveInv'
BY DEF SaveInv, OneWriter, Pending, Writing, charVars, threadVars, Busy

LEMMA SaveWatch ==
  ASSUME ThreadInv, SaveInv, WatchEffect
  PROVE  SaveInv'
<1>1. UNCHANGED <<charFile, suspect, ui>>
  BY DEF WatchEffect
<1>2. CASE UNCHANGED <<chars, timerRef, timers>>
  BY <1>1, <1>2, SaveUnchanged DEF charVars, threadVars
<1>3. CASE ScheduleSave
  <2>1. Scheduled
    BY <1>3, Schedules
  <2>2. Pending'
    BY <2>1 DEF Scheduled, Pending
  <2>3. \A t \in Timers : Busy(timers'[t]) => Busy(timers[t])
    BY <2>1 DEF Scheduled, Busy
  <2>4. OneWriter => OneWriter'
    BY <1>1, <2>3 DEF OneWriter, Busy
  <2> QED BY <1>1, <2>2, <2>4 DEF SaveInv
<1> QED BY <1>2, <1>3 DEF WatchEffect

LEMMA SaveUser ==
  ASSUME SaveInv, UserEffect
  PROVE  SaveInv'
<1>1. UNCHANGED <<charFile, suspect, timers>> /\ ~Busy(ui) /\ ~Busy(ui')
  BY DEF UserEffect, Busy
<1>2. OneWriter => OneWriter'
  BY <1>1 DEF OneWriter, Busy
<1>3. CASE ui'.at = "toSave"
  BY <1>1, <1>2, <1>3 DEF SaveInv, Pending
<1>4. CASE UNCHANGED chars /\ ui.at \in {"idle", "editing"} /\ ui'.at \in {"idle", "editing"}
  BY <1>1, <1>2, <1>4 DEF SaveInv, Pending, Writing, Busy
<1> QED BY <1>3, <1>4 DEF UserEffect

LEMMA SaveSaveNow ==
  ASSUME ThreadInv, SaveInv, SaveNow
  PROVE  SaveInv'
<1> SUFFICES ASSUME ~suspect' PROVE SaveInv'
  BY DEF SaveInv
<1>1. /\ ui'.at = "writing" /\ ui'.rows = chars
      /\ \A t \in Timers : timers'[t] \in {timers[t], Idle}
  BY SaveNowTypes
<1>2. UNCHANGED chars /\ ~Writing
  BY DEF SaveNow
<1>3. \A t \in Timers : ~Busy(timers'[t])
  BY <1>1, <1>2, IdleState DEF Writing
<1>4. Busy(ui')
  BY <1>1 DEF Busy
<1> QED BY <1>1, <1>2, <1>3, <1>4 DEF SaveInv, OneWriter, Writing, Busy

LEMMA SaveFlush ==
  ASSUME ThreadInv, SaveInv, NEW t \in Timers, Flush(t)
  PROVE  SaveInv'
<1> SUFFICES ASSUME ~suspect' PROVE SaveInv'
  BY DEF SaveInv
<1>1. /\ Busy(timers'[t]) /\ timers'[t].rows = chars
      /\ \A u \in Timers \ {t} : timers'[u] = timers[u]
  BY FlushTypes
<1>2. UNCHANGED <<chars, ui>> /\ ~Writing
  BY DEF Flush
<1>3. \A u \in Timers \ {t} : ~Busy(timers'[u])
  BY <1>1, <1>2 DEF Writing
<1>4. ~Busy(ui')
  BY <1>2 DEF Writing, Busy
<1> QED BY <1>1, <1>2, <1>3, <1>4 DEF SaveInv, OneWriter, Writing, Busy

LEMMA SaveUiWritten ==
  ASSUME ThreadInv, SaveInv, UiWritten
  PROVE  SaveInv'
<1> SUFFICES ASSUME ~suspect' PROVE SaveInv'
  BY DEF SaveInv
<1>1. ui'.at = "idle" /\ UNCHANGED <<chars, timers>> /\ Busy(ui)
  BY UiWrittenTypes DEF UiWritten
<1>2. ~suspect /\ charFile' = ui.rows
  BY DEF UiWritten, Written
<1>3. ~Busy(ui') /\ ui.at = "writing"
  BY <1>1 DEF Busy
<1>4. \A t \in Timers : ~Busy(timers'[t])
  BY <1>1, <1>2 DEF SaveInv, OneWriter
<1>5. ~Pending' => ~Pending
  BY <1>1, <1>3 DEF Pending
<1> QED BY <1>1, <1>2, <1>3, <1>4, <1>5 DEF SaveInv, OneWriter, Busy

LEMMA SaveTimerWritten ==
  ASSUME ThreadInv, SaveInv, NEW t \in Timers, TimerWritten(t)
  PROVE  SaveInv'
<1> SUFFICES ASSUME ~suspect' PROVE SaveInv'
  BY DEF SaveInv
<1>1. timers'[t] = Idle /\ \A u \in Timers \ {t} : timers'[u] = timers[u]
  BY TimerWrittenTypes
<1>2. UNCHANGED <<chars, ui>> /\ Busy(timers[t])
  BY DEF TimerWritten
<1>3. ~suspect /\ charFile' = timers[t].rows
  BY DEF TimerWritten, Written
<1>4. ~Busy(ui') /\ ~Busy(ui)
  BY <1>2, <1>3 DEF SaveInv, OneWriter, Busy
<1>5. \A u \in Timers : ~Busy(timers'[u])
  BY <1>1, <1>2, <1>3, IdleState DEF SaveInv, OneWriter
<1>6. ~Pending' => ~Pending
  <2>1. timers[t].at = "writing"
    BY <1>2 DEF Busy
  <2> QED BY <1>1, <1>2, <2>1 DEF Pending
<1> QED BY <1>2, <1>3, <1>4, <1>5, <1>6 DEF SaveInv, OneWriter, Busy

LEMMA SaveRestart ==
  ASSUME ThreadInv, Restart
  PROVE  SaveInv'
<1>1. ui'.at = "idle" /\ chars' = charFile' /\ \A t \in Timers : timers'[t] = Idle
  BY RestartTypes
<1> QED BY <1>1, IdleState DEF SaveInv, OneWriter, Busy

LEMMA SaveStep == ThreadInv /\ FileInv /\ SaveInv /\ [LogNext]_logVars => SaveInv'
<1> SUFFICES ASSUME ThreadInv, FileInv, SaveInv, [LogNext]_logVars PROVE SaveInv'
  OBVIOUS
<1>1. ASSUME UNCHANGED <<charVars, threadVars>>, ops' \in 0 .. MaxOps PROVE SaveInv'
  BY <1>1, SaveUnchanged
<1>2. ops \in 0 .. MaxOps
  BY DEF ThreadInv
<1>3. CASE LcNext
  BY <1>1, <1>2, <1>3, OtherSteps, UserActs, SaveUser, SaveSaveNow, SaveUiWritten, SaveFlush,
     SaveTimerWritten DEF LcNext
<1> QED BY <1>1, <1>2, <1>3, OtherSteps, WatcherEffect, SaveWatch, SaveRestart
    DEF LogNext, RestartWatching

-----------------------------------------------------------------------------
(* The account of the last login *)

Decision(x) == x = [method |-> x.method, account |-> x.account, unnoted |-> x.unnoted]

PairInv ==
  /\ Decision(decided)
  /\ pendingAcct \in Accounts \cup {NoAccount}
  /\ pendingAcct # NoAccount => /\ decided.method \in {"local", "local_char"}
                                /\ Lower[decided.account] = pendingAcct

LEMMA NamesAreAccounts ==
  ASSUME AccountInv
  PROVE  AccountNames \subseteq Accounts
BY DEF AccountInv, AccountTable, AccountNames, AccountRows

LEMMA RouteAccount ==
  ASSUME AccountInv, NEW u, Route(u).method \in {"local", "local_char"}, ~Unknown(Route(u))
  PROVE  Route(u).account \in AccountNames /\ Lower[Route(u).account] \in Accounts
<1>1. Route(u).account \in AccountNames
  BY DEF Route, Unknown
<1> QED BY <1>1, NamesAreAccounts, LowerAssumption

LEMMA PairInit == LogInit => PairInv
BY DEF LogInit, LcInit, PairInv, Decision

LEMMA PairStep == AccountInv /\ PairInv /\ [LogNext]_logVars => PairInv'
<1> SUFFICES ASSUME AccountInv, PairInv, [LogNext]_logVars PROVE PairInv'
  OBVIOUS
<1>1. ASSUME UNCHANGED loginVars PROVE PairInv'
  BY <1>1 DEF PairInv, Decision, loginVars
<1>2. ASSUME NEW u \in Usernames, Login(u)
      PROVE  PairInv'
  <2>1. PICK login : login = Route(Lower[u])
    OBVIOUS
  <2>2. CASE ~Unknown(login) /\ NoteLogin(login)
    <3>1. /\ decided'.method = login.method /\ decided'.account = login.account
          /\ pendingAcct' = IF login.method \in {"local", "local_char"} THEN Lower[login.account]
                            ELSE NoAccount
      BY <2>2 DEF NoteLogin, Noted
    <3>2. Decision(decided')
      BY <2>2 DEF NoteLogin, Noted, Decision
    <3>3. login.method \in {"local", "local_char"} => Lower[login.account] \in Accounts
      BY <2>1, <2>2, RouteAccount
    <3>4. pendingAcct' \in Accounts \cup {NoAccount}
      BY <3>1, <3>3
    <3> QED BY <3>1, <3>2, <3>4 DEF PairInv, Decision
  <2>3. CASE Unnoted
    <3>1. pendingAcct' = pendingAcct /\ decided' = [decided EXCEPT !.unnoted = TRUE]
      BY <2>3 DEF Unnoted
    <3> QED BY <3>1 DEF PairInv, Decision
  <2> QED BY <1>1, <1>2, <2>1, <2>2, <2>3 DEF Login
<1>3. CASE LcNext
  <2>1. ASSUME NEW a \in Accounts, NEW s \in Aliases, AddAccount(a, s) \/ EditAccount(a, s)
        PROVE  UNCHANGED loginVars
    BY <2>1 DEF AddAccount, EditAccount, SaveAccounts
  <2>2. ASSUME NEW a \in Accounts, DeleteAccount(a)
        PROVE  UNCHANGED loginVars
    BY <2>2 DEF DeleteAccount, SaveAccounts
  <2>3. ASSUME NEW c \in Characters, NEW a \in Accounts \cup {NoAccount}, AddCharacter(c, a)
        PROVE  UNCHANGED loginVars
    BY <2>3 DEF AddCharacter
  <2>4. ASSUME NEW c \in Characters, EditOpens(c) \/ DeleteCharacter(c)
        PROVE  UNCHANGED loginVars
    BY <2>4 DEF EditOpens, DeleteCharacter
  <2>5. ASSUME NEW a \in Accounts \cup {NoAccount}, EditSaves(a)
        PROVE  UNCHANGED loginVars
    BY <2>5 DEF EditSaves
  <2>6. ASSUME NEW t \in Timers, Flush(t) \/ TimerWritten(t)
        PROVE  UNCHANGED loginVars
    BY <2>6 DEF Flush, TimerWritten
  <2>7. ASSUME ReloadAccounts \/ EditCancelled \/ SaveNow \/ UiWritten
        PROVE  UNCHANGED loginVars
    BY <2>7 DEF ReloadAccounts, EditCancelled, SaveNow, UiWritten
  <2> QED BY <1>1, <1>2, <1>3, <2>1, <2>2, <2>3, <2>4, <2>5, <2>6, <2>7 DEF LcNext
<1>4. CASE RestartWatching
  BY <1>4 DEF RestartWatching, Restart, PairInv, Decision
<1>5. ASSUME NEW c \in Characters, NEW line \in LogLines \cup {Welcome}, ClientLogs(c, line)
      PROVE  UNCHANGED loginVars
  BY <1>5 DEF ClientLogs
<1>6. ASSUME NEW c \in Characters, OnModified(c)
      PROVE  UNCHANGED loginVars
  BY <1>6 DEF OnModified
<1>7. ASSUME NEW c \in Characters, NEW file \in Dumps, InventoryDumped(c, file)
      PROVE  UNCHANGED loginVars
  BY <1>7 DEF InventoryDumped
<1>8. ASSUME ReadLine \/ ApplyLine \/ DumpApplied \/ UNCHANGED logVars
      PROVE  UNCHANGED loginVars
  BY <1>8 DEF ReadLine, ApplyLine, DumpApplied, logVars
<1> QED BY <1>1, <1>3, <1>4, <1>5, <1>6, <1>7, <1>8 DEF LogNext

(* Only the watcher's switch to another log creates a character without a     *)
(* click or a restart, and it gives it the account that is pending.           *)
LEMMA SoundStep == AccountInv /\ PairInv /\ ThreadInv /\ [LogNext]_logVars => [CreatedSoundly]_logVars
<1> SUFFICES ASSUME AccountInv, PairInv, ThreadInv, [LogNext]_logVars,
                    NEW new \in DOMAIN chars' \ DOMAIN chars,
                    modified' # modified, ops' = ops
             PROVE  /\ decided.method \in {"local", "local_char"}
                    /\ chars'[new].account = Lower[decided.account]
                    /\ chars'[new].account \in AccountNames
  BY DEF CreatedSoundly, Created
<1>1. ~(UNCHANGED modified) /\ ~(UNCHANGED chars)
  OBVIOUS
<1>2. PICK c \in Characters : OnModified(c)
  <2>1. ASSUME NEW c \in Characters, NEW line \in LogLines \cup {Welcome}, ClientLogs(c, line)
        PROVE  FALSE
    BY <1>1, <2>1 DEF ClientLogs, charVars
  <2>2. ASSUME NEW c \in Characters, NEW file \in Dumps, InventoryDumped(c, file)
        PROVE  FALSE
    BY <1>1, <2>2 DEF InventoryDumped, charVars
  <2>3. ASSUME RestartWatching
        PROVE  FALSE
    BY <2>3 DEF RestartWatching, Restart, Op, ThreadInv
  <2>4. ASSUME UNCHANGED watchVars \/ UNCHANGED logVars
        PROVE  FALSE
    BY <1>1, <2>4 DEF watchVars, fileVars, logVars
  <2>5. ASSUME ReadLine \/ ApplyLine \/ DumpApplied
        PROVE  FALSE
    BY <1>1, <2>5 DEF ReadLine, ApplyLine, DumpApplied, fileVars
  <2> QED BY <2>1, <2>2, <2>3, <2>4, <2>5 DEF LogNext
<1>3. /\ pendingAcct \in AccountNames
      /\ chars' = (newest :> Entry(pendingAcct, << >>)) @@ chars
  BY <1>1, <1>2 DEF OnModified, TryAutoCreate
<1>4. pendingAcct # NoAccount
  BY <1>3, NamesAreAccounts, LocalAssumption
<1>5. new = newest /\ chars'[new] = Entry(pendingAcct, << >>)
  BY <1>3 DEF @@, :>
<1>6. chars'[new].account = pendingAcct
  BY <1>5 DEF Entry
<1> QED BY <1>3, <1>4, <1>6 DEF PairInv

-----------------------------------------------------------------------------
(* What has been read *)

(* The zone lines up to p that follow the last login marker up to p. *)
Since(log, p) ==
  {i \in 1 .. p : Zones(log[i]) /\ \A w \in 1 .. p : log[w] = Welcome => w < i}

Known(c, value) ==
  /\ c \in DOMAIN zone /\ zone[c] = value
  /\ "park" \in DOMAIN told[c] /\ told[c]["park"] = value

KnowsLast(c, log, p) ==
  \A i \in Since(log, p) : (\A j \in Since(log, p) : j <= i) => Known(c, log[i].value)

(* CaughtUp is not inductive: it speaks of the end of the log only. At every  *)
(* line the watcher has come to, the SSO knows the zone of the last zone line *)
(* before it; and it follows the newest log as soon as its event is handled.  *)
ReadInv ==
  /\ DOMAIN told = SsoCharacters
  /\ token /\ newest \notin modified /\ watcher.at # "started" => watcher.log = newest
  /\ token /\ newest \notin modified /\ watcher.at = "idle" => watcher.position = Len(logs[newest])
  /\ found /\ watcher.log \in Characters /\ IsSso(watcher.log) =>
       KnowsLast(watcher.log, logs[watcher.log], watcher.position)

LEMMA SincePrefix ==
  ASSUME NEW log, NEW longer, NEW p, \A i \in 1 .. p : longer[i] = log[i]
  PROVE  Since(longer, p) = Since(log, p)
BY DEF Since

LEMMA SinceNothing ==
  ASSUME NEW log
  PROVE  Since(log, 0) = {}
BY DEF Since

LEMMA SinceSeek ==
  ASSUME NEW log \in Logs, Recent(log) # {}
  PROVE  Since(log, SeekPosition(log)) = {}
<1>1. PICK p \in Recent(log) : p = SeekPosition(log)
  BY SeekInside
<1>2. p \in Nat /\ log[p] = Welcome
  BY <1>1, SeekInside DEF Recent, Welcomes
<1>3. p \in DOMAIN log
  BY DEF Recent, Welcomes
<1>4. p \in 1 .. p
  BY <1>2, <1>3, LenProperties DEF Logs
<1>5. ASSUME NEW i \in Since(log, p)
      PROVE  FALSE
  <2>1. p < i /\ i \in 1 .. p
    BY <1>2, <1>4, <1>5 DEF Since
  <2> QED BY <1>2, <2>1
<1> QED BY <1>1, <1>5

LEMMA SinceNext ==
  ASSUME NEW log, NEW p \in Nat
  PROVE  /\ log[p + 1] = Welcome => Since(log, p + 1) = {}
         /\ Zones(log[p + 1]) => p + 1 \in Since(log, p + 1)
         /\ ~Zones(log[p + 1]) => Since(log, p + 1) \subseteq Since(log, p)
         /\ ~Zones(log[p + 1]) /\ log[p + 1] # Welcome => Since(log, p + 1) = Since(log, p)
<1>1. 1 .. (p + 1) = (1 .. p) \cup {p + 1} /\ p + 1 \notin 1 .. p
  OBVIOUS
<1>2. \A i \in 1 .. p : i < p + 1
  OBVIOUS
<1>3. ASSUME log[p + 1] = Welcome, NEW i \in Since(log, p + 1)
      PROVE  FALSE
  <2>1. p + 1 < i /\ i \in 1 .. (p + 1)
    BY <1>1, <1>3 DEF Since
  <2> QED BY <2>1
<1>4. ASSUME Zones(log[p + 1])
      PROVE  p + 1 \in Since(log, p + 1)
  <2>1. log[p + 1] # Welcome
    BY <1>4 DEF Zones, Welcome
  <2> QED BY <1>1, <1>2, <1>4, <2>1 DEF Since
<1>5. ASSUME ~Zones(log[p + 1])
      PROVE  Since(log, p + 1) \subseteq Since(log, p)
  BY <1>1, <1>5 DEF Since
<1>6. ASSUME ~Zones(log[p + 1]), log[p + 1] # Welcome
      PROVE  Since(log, p) \subseteq Since(log, p + 1)
  BY <1>1, <1>6 DEF Since
<1> QED BY <1>3, <1>4, <1>5, <1>6

LEMMA ReadInit == LogInit => ReadInv
<1> SUFFICES ASSUME LogInit PROVE ReadInv
  OBVIOUS
<1>1. DOMAIN told = SsoCharacters /\ watcher = NotFollowing
  BY DEF LogInit
<1>2. watcher.at = "started" /\ watcher.position = 0
  BY <1>1 DEF NotFollowing
<1> QED BY <1>1, <1>2, SinceNothing DEF ReadInv, KnowsLast

LEMMA ReadUnchanged ==
  ASSUME ReadInv, UNCHANGED <<token, fileVars, watcher, zone, told, found>>
  PROVE  ReadInv'
BY DEF ReadInv, fileVars, KnowsLast, Known, IsSso

LEMMA ReadLogs ==
  ASSUME FileInv, ReadInv, NEW c \in Characters, NEW line \in LogLines \cup {Welcome}, ClientLogs(c, line)
  PROVE  ReadInv'
<1>1. newest' \in modified' /\ UNCHANGED <<token, watcher, zone, told, found>>
  BY DEF ClientLogs
<1>2. ASSUME watcher.log \in Characters
      PROVE  Since(logs'[watcher.log], watcher.position) = Since(logs[watcher.log], watcher.position)
             /\ \A i \in 1 .. watcher.position : logs'[watcher.log][i] = logs[watcher.log][i]
  <2>1. /\ Len(logs[watcher.log]) \in Nat /\ watcher.position \in Nat
        /\ watcher.position <= Len(logs[watcher.log])
        /\ \A i \in 1 .. Len(logs[watcher.log]) : logs'[watcher.log][i] = logs[watcher.log][i]
    BY <1>2, FileLogs DEF FileInv
  <2>2. \A i \in 1 .. watcher.position : logs'[watcher.log][i] = logs[watcher.log][i]
    BY <2>1
  <2> QED BY <2>2, SincePrefix
<1>3. \A p : Since(logs[watcher.log], p) \subseteq 1 .. p
  BY DEF Since
<1>4. ASSUME watcher.log \in Characters, KnowsLast(watcher.log, logs[watcher.log], watcher.position)
      PROVE  KnowsLast(watcher.log, logs[watcher.log], watcher.position)'
  BY <1>1, <1>2, <1>3, <1>4 DEF KnowsLast, Known
<1> QED BY <1>1, <1>4 DEF ReadInv, IsSso

LEMMA ReadModified ==
  ASSUME FileInv, ReadInv, NEW c \in Characters, OnModified(c)
  PROVE  ReadInv'
<1>1. /\ modified' = modified \ {c} /\ UNCHANGED <<token, logs, newest, zone, told>>
      /\ newest \in Characters
  BY FileModified DEF OnModified
<1>2. CASE ~AnyTracked /\ UNCHANGED <<watcher, found>>
  BY <1>1, <1>2 DEF ReadInv, AnyTracked, KnowsLast, Known, IsSso
<1>3. ASSUME newest = watcher.log, watcher' = [watcher EXCEPT !.at = IF c = newest THEN After(watcher) ELSE @],
             UNCHANGED found
      PROVE  ReadInv'
  <2>1. PICK at : at = IF c = newest THEN After(watcher) ELSE watcher.at
    OBVIOUS
  <2>2. watcher' = [log |-> watcher.log, position |-> watcher.position, at |-> at,
                    fields |-> watcher.fields, more |-> watcher.more]
    BY <1>3, <2>1 DEF FileInv
  <2>3. watcher'.log = newest /\ watcher'.position = watcher.position /\ watcher'.at = at
    BY <1>3, <2>2
  <2>4. ASSUME token, newest \notin modified', at = "idle"
        PROVE  watcher.position = Len(logs[newest])
    <3>1. CASE c = newest
      <4>1. ~(watcher.position < Len(logs[newest]))
        BY <1>3, <2>1, <2>4, <3>1 DEF After
      <4>2. watcher.position <= Len(logs[newest]) /\ watcher.position \in Nat /\ Len(logs[newest]) \in Nat
        BY <1>1, <1>3, LenProperties DEF FileInv, Logs
      <4> QED BY <4>1, <4>2
    <3>2. CASE c # newest
      BY <1>1, <2>1, <2>4, <3>2 DEF ReadInv
    <3> QED BY <3>1, <3>2
  <2> QED BY <1>1, <1>3, <2>3, <2>4 DEF ReadInv, KnowsLast, Known, IsSso
<1>4. ASSUME newest # watcher.log, NEW next, next = Following(newest),
             watcher' = [next EXCEPT !.at = IF c = newest THEN After(next) ELSE @],
             found' = (Recent(logs[newest]) # {})
      PROVE  ReadInv'
  <2>1. PICK at : at = IF c = newest THEN After(next) ELSE "started"
    OBVIOUS
  <2>2. next = [log |-> newest, position |-> SeekPosition(logs[newest]), at |-> "started",
                fields |-> << >>, more |-> << >>]
    BY <1>4 DEF Following
  <2>3. watcher' = [log |-> newest, position |-> SeekPosition(logs[newest]), at |-> at,
                    fields |-> << >>, more |-> << >>]
    BY <1>4, <2>1, <2>2
  <2>4. watcher'.log = newest /\ watcher'.position = SeekPosition(logs[newest]) /\ watcher'.at = at
    BY <2>3
  <2>5. ASSUME at = "idle"
        PROVE  SeekPosition(logs[newest]) = Len(logs[newest])
    <3>1. at = After(next) /\ next.log = newest /\ next.position = SeekPosition(logs[newest])
      BY <2>1, <2>2, <2>5
    <3>2. ~(SeekPosition(logs[newest]) < Len(logs[newest]))
      BY <2>5, <3>1 DEF After
    <3>3. /\ SeekPosition(logs[newest]) <= Len(logs[newest]) /\ SeekPosition(logs[newest]) \in Nat
          /\ Len(logs[newest]) \in Nat
      BY <1>1, SeekInside, LenProperties DEF FileInv, Logs
    <3> QED BY <3>2, <3>3
  <2>6. ASSUME found'
        PROVE  Since(logs[newest], SeekPosition(logs[newest])) = {}
    <3>1. Recent(logs[newest]) # {}
      BY <1>4, <2>6
    <3> QED BY <1>1, <3>1, SinceSeek DEF FileInv
  <2> QED BY <1>1, <2>4, <2>5, <2>6 DEF ReadInv, KnowsLast
<1>5. CASE newest = watcher.log
  BY <1>2, <1>3, <1>5 DEF OnModified
<1>6. CASE newest # watcher.log
  BY <1>2, <1>4, <1>6 DEF OnModified
<1> QED BY <1>5, <1>6

LEMMA ObservedPark ==
  ASSUME NEW c, NEW line
  PROVE  /\ Zones(line) => Observed(c, line) = "park" :> line.value
         /\ ~Zones(line) => "park" \notin DOMAIN Observed(c, line)
<1>1. ASSUME Zones(line)
      PROVE  Observed(c, line) = "park" :> line.value
  BY <1>1 DEF Observed, Zones
<1>2. ASSUME ~Zones(line)
      PROVE  "park" \notin DOMAIN Observed(c, line)
  <2>1. CASE line.kind = "bind_confirm"
    <3>1. Observed(c, line) = IF c \in DOMAIN zone THEN "bind" :> zone[c] ELSE << >>
      BY <2>1, <1>2 DEF Observed
    <3> QED BY <3>1 DEF :>
  <2>2. CASE line.kind = "charinfo"
    <3>1. Observed(c, line) = "bind" :> line.value
      BY <2>2, <1>2 DEF Observed
    <3> QED BY <3>1 DEF :>
  <2>3. CASE line.kind = "level_up"
    <3>1. Observed(c, line) = "level" :> line.value
      BY <2>3, <1>2 DEF Observed
    <3> QED BY <3>1 DEF :>
  <2>4. CASE line.kind \in {"who_self", "who_title"}
    <3>1. Observed(c, line) = "level" :> line.value
      BY <2>4, <1>2 DEF Observed
    <3> QED BY <3>1 DEF :>
  <2>5. CASE line.kind = "velium"
    <3>1. Observed(c, line) = "thurg" :> FALSE
      BY <2>5, <1>2 DEF Observed
    <3> QED BY <3>1 DEF :>
  <2>6. CASE line.kind \notin {"bind_confirm", "charinfo", "level_up", "who_self", "who_title", "velium"}
    <3>1. Observed(c, line) = << >>
      BY <2>6, <1>2 DEF Observed
    <3> QED BY <3>1
  <2> QED BY <2>1, <2>2, <2>3, <2>4, <2>5, <2>6
<1> QED BY <1>1, <1>2

(* What the SSO is told of a line. *)
LEMMA ToldPark ==
  ASSUME NEW c, NEW line, NEW before
  PROVE  LET now == Observed(c, line) @@ before
         IN  /\ Zones(line) => "park" \in DOMAIN now /\ now["park"] = line.value
             /\ ~Zones(line) => /\ "park" \in DOMAIN now <=> "park" \in DOMAIN before
                                /\ now["park"] = before["park"] \/ "park" \notin DOMAIN before
<1>1. PICK fields : fields = Observed(c, line)
  OBVIOUS
<1>2. ASSUME Zones(line)
      PROVE  "park" \in DOMAIN fields /\ fields["park"] = line.value
  <2>1. fields = "park" :> line.value
    BY <1>1, <1>2, ObservedPark
  <2> QED BY <2>1 DEF :>
<1>3. ASSUME ~Zones(line)
      PROVE  "park" \notin DOMAIN fields
  BY <1>1, <1>3, ObservedPark
<1>4. PICK now : now = fields @@ before
  OBVIOUS
<1>5. /\ "park" \in DOMAIN fields => "park" \in DOMAIN now /\ now["park"] = fields["park"]
      /\ "park" \notin DOMAIN fields =>
           /\ "park" \in DOMAIN now <=> "park" \in DOMAIN before
           /\ now["park"] = before["park"] \/ "park" \notin DOMAIN before
  BY <1>4 DEF @@
<1> QED BY <1>1, <1>2, <1>3, <1>4, <1>5

LEMMA LineTold ==
  ASSUME FileInv, ReadInv, ReadLine, NEW c, c = watcher.log,
         NEW line, line = logs[c][watcher.position + 1]
  PROVE  /\ DOMAIN told' = SsoCharacters
         /\ IsSso(c) /\ Zones(line) => Known(c, line.value)'
         /\ IsSso(c) /\ ~Zones(line) => \A value : Known(c, value) => Known(c, value)'
<1>1. /\ zone' = IF Tracked(c) /\ Zones(line) THEN (c :> line.value) @@ zone ELSE zone
      /\ told' = IF IsSso(c) THEN [told EXCEPT ![c] = Observed(c, line) @@ @] ELSE told
  BY DEF ReadLine
<1>2. ASSUME IsSso(c)
      PROVE  c \in DOMAIN told /\ Tracked(c)
  BY <1>2 DEF ReadInv, IsSso, Tracked
<1>3. PICK now : now = Observed(c, line) @@ told[c]
  OBVIOUS
<1>4. told' = IF IsSso(c) THEN [told EXCEPT ![c] = now] ELSE told
  BY <1>1, <1>3
<1>5. DOMAIN told' = SsoCharacters /\ (IsSso(c) => told'[c] = now)
  BY <1>2, <1>4 DEF ReadInv
<1>6. /\ Zones(line) => "park" \in DOMAIN now /\ now["park"] = line.value
      /\ ~Zones(line) => /\ "park" \in DOMAIN now <=> "park" \in DOMAIN told[c]
                         /\ now["park"] = told[c]["park"] \/ "park" \notin DOMAIN told[c]
  BY <1>3, ToldPark
<1>7. ASSUME Tracked(c), Zones(line)
      PROVE  c \in DOMAIN zone' /\ zone'[c] = line.value
  <2>1. zone' = (c :> line.value) @@ zone
    BY <1>1, <1>7
  <2> QED BY <2>1 DEF @@, :>
<1>8. ASSUME ~Zones(line)
      PROVE  zone' = zone
  BY <1>1, <1>8
<1> QED BY <1>2, <1>5, <1>6, <1>7, <1>8 DEF Known

LEMMA ReadReads ==
  ASSUME FileInv, ReadInv, ReadLine
  PROVE  ReadInv'
<1> DEFINE fields == Observed(watcher.log, logs[watcher.log][watcher.position + 1])
           class == Class(logs[watcher.log][watcher.position + 1])
           next == [watcher EXCEPT !.position = @ + 1]
<1>1. /\ watcher.at = "reading" /\ UNCHANGED <<token, logs, newest, modified, found>>
      /\ watcher' = IF fields # << >> /\ watcher.log \in DOMAIN chars
                    THEN [next EXCEPT !.at = "applying", !.fields = fields, !.more = class]
                    ELSE [next EXCEPT !.at = After(next)]
  BY DEF ReadLine, fileVars
<1>2. next = [log |-> watcher.log, position |-> watcher.position + 1, at |-> "reading",
              fields |-> watcher.fields, more |-> watcher.more]
  BY <1>1 DEF FileInv
<1>3. After(next) = IF watcher.position + 1 < Len(logs[watcher.log]) THEN "reading" ELSE "idle"
  BY <1>2 DEF After
<1>4. PICK said, rest : said = fields /\ rest = class
  OBVIOUS
<1>5. PICK at : at = After(next)
  OBVIOUS
<1>6. \/ watcher' = [log |-> watcher.log, position |-> watcher.position + 1, at |-> "applying",
                     fields |-> said, more |-> rest]
      \/ watcher' = [log |-> watcher.log, position |-> watcher.position + 1, at |-> at,
                     fields |-> watcher.fields, more |-> watcher.more]
  BY <1>1, <1>2, <1>4, <1>5
<1>7. watcher'.log = watcher.log /\ watcher'.position = watcher.position + 1 /\ watcher'.at \in {"applying", at}
  BY <1>6
<1>8. PICK c, line : c = watcher.log /\ line = logs[c][watcher.position + 1]
  OBVIOUS
<1>9. /\ DOMAIN told' = SsoCharacters
      /\ IsSso(c) /\ Zones(line) => Known(c, line.value)'
      /\ IsSso(c) /\ ~Zones(line) => \A value : Known(c, value) => Known(c, value)'
  BY <1>8, LineTold
<1> HIDE DEF next, fields, class
<1>10. c \in Characters /\ watcher.position \in Nat /\ Len(logs[c]) \in Nat
       /\ watcher.position + 1 <= Len(logs[c])
  BY <1>1, <1>8, LenProperties DEF FileInv, Logs
<1>11. ASSUME token, newest \notin modified
       PROVE  watcher.log = newest /\ (at = "idle" => watcher.position + 1 = Len(logs[newest]))
  <2>1. watcher.log = newest
    BY <1>1, <1>11 DEF ReadInv
  <2> QED BY <1>3, <1>5, <1>8, <1>10, <2>1
<1>12. ASSUME found, IsSso(c), NEW i \in Since(logs[c], watcher.position + 1),
              \A j \in Since(logs[c], watcher.position + 1) : j <= i,
              NEW value, value = logs[c][i].value
       PROVE  Known(c, value)'
  <2>1. i \in 1 .. (watcher.position + 1)
    BY <1>12 DEF Since
  <2>2. CASE Zones(line)
    <3>1. watcher.position + 1 \in Since(logs[c], watcher.position + 1)
      BY <1>8, <1>10, <2>2, SinceNext
    <3>2. i = watcher.position + 1
      BY <1>10, <1>12, <2>1, <3>1
    <3> QED BY <1>8, <1>9, <1>12, <2>2, <3>2
  <2>3. CASE ~Zones(line)
    <3>1. line # Welcome
      BY <1>8, <1>10, <1>12, SinceNext
    <3>2. Since(logs[c], watcher.position + 1) = Since(logs[c], watcher.position)
      BY <1>8, <1>10, <2>3, <3>1, SinceNext
    <3>3. Known(c, value)
      BY <1>8, <1>10, <1>12, <3>2 DEF ReadInv, KnowsLast
    <3> QED BY <1>9, <1>12, <2>3, <3>3
  <2> QED BY <2>2, <2>3
<1>13. ASSUME found', watcher'.log \in Characters, IsSso(watcher.log)'
       PROVE  KnowsLast(watcher.log, logs[watcher.log], watcher.position)'
  <2>1. found /\ IsSso(c) /\ logs' = logs /\ watcher'.log = c
    BY <1>1, <1>7, <1>8, <1>13 DEF IsSso
  <2>2. ASSUME NEW i \in Since(logs[c], watcher.position + 1),
               \A j \in Since(logs[c], watcher.position + 1) : j <= i,
               NEW value, value = logs[c][i].value
        PROVE  Known(c, value)'
    BY <1>12, <2>1, <2>2
  <2> QED BY <1>7, <2>1, <2>2 DEF KnowsLast, Known
<1>14. (token /\ newest \notin modified /\ watcher.at # "started" => watcher.log = newest)'
  BY <1>1, <1>7, <1>11
<1>15. (token /\ newest \notin modified /\ watcher.at = "idle" => watcher.position = Len(logs[newest]))'
  BY <1>1, <1>7, <1>11
<1> QED BY <1>9, <1>13, <1>14, <1>15 DEF ReadInv

LEMMA ReadApply ==
  ASSUME FileInv, ReadInv, ApplyLine
  PROVE  ReadInv'
<1>1. /\ watcher.at = "applying" /\ UNCHANGED <<token, logs, newest, modified, found, zone, told>>
      /\ watcher' = [watcher EXCEPT !.at = IF watcher.more # << >> THEN "applying" ELSE After(watcher),
                                    !.fields = watcher.more, !.more = << >>]
  BY DEF ApplyLine, fileVars
<1>2. PICK at : at = IF watcher.more # << >> THEN "applying" ELSE After(watcher)
  OBVIOUS
<1>3. watcher' = [log |-> watcher.log, position |-> watcher.position, at |-> at,
                  fields |-> watcher.more, more |-> << >>]
  BY <1>1, <1>2 DEF FileInv
<1>4. watcher'.log = watcher.log /\ watcher'.position = watcher.position /\ watcher'.at = at
  BY <1>3
<1>5. ASSUME token, newest \notin modified
      PROVE  watcher.log = newest /\ (at = "idle" => watcher.position = Len(logs[newest]))
  <2>1. watcher.log = newest
    BY <1>1, <1>5 DEF ReadInv
  <2>2. /\ newest \in Characters /\ watcher.position \in Nat /\ Len(logs[newest]) \in Nat
        /\ watcher.position <= Len(logs[newest])
    BY <1>1, <2>1, LenProperties DEF FileInv, Logs
  <2> QED BY <1>2, <2>1, <2>2 DEF After
<1> QED BY <1>1, <1>4, <1>5 DEF ReadInv, KnowsLast, Known, IsSso

LEMMA ReadDump ==
  ASSUME ReadInv, NEW c \in Characters, NEW file \in Dumps, InventoryDumped(c, file)
  PROVE  ReadInv'
<1>1. PICK items : items = ParsedInventory(file)
  OBVIOUS
<1>2. PICK now : now = items @@ told[c]
  OBVIOUS
<1>3. /\ UNCHANGED <<token, logs, newest, modified, watcher, zone, found>>
      /\ told' = IF IsSso(c) THEN [told EXCEPT ![c] = now] ELSE told
  BY <1>1, <1>2 DEF InventoryDumped
<1>4. DOMAIN items = BoolItems \cup CountItems
  BY <1>1 DEF ParsedInventory, @@
<1>5. "park" \notin DOMAIN items
  BY <1>4, WatcherAssumption
<1>6. ("park" \in DOMAIN told[c] => "park" \in DOMAIN now /\ now["park"] = told[c]["park"])
  BY <1>2, <1>5 DEF @@
<1>7. DOMAIN told' = SsoCharacters
  BY <1>3 DEF ReadInv
<1>8. \A d \in SsoCharacters : \A value : Known(d, value) => Known(d, value)'
  BY <1>3, <1>6 DEF Known, ReadInv
<1> QED BY <1>3, <1>7, <1>8 DEF ReadInv, KnowsLast, IsSso

LEMMA ReadRestart ==
  ASSUME FileInv, ReadInv, RestartWatching
  PROVE  ReadInv'
<1>1. /\ UNCHANGED <<token, logs, newest, told>>
      /\ \/ /\ newest # NoAccount /\ watcher' = Following(newest)
            /\ found' = (Recent(logs[newest]) # {})
         \/ watcher' = [NotFollowing EXCEPT !.log = newest]
  BY DEF RestartWatching
<1>2. CASE newest # NoAccount /\ watcher' = Following(newest) /\ found' = (Recent(logs[newest]) # {})
  <2>1. newest \in Characters /\ logs[newest] \in Logs
    BY <1>2 DEF FileInv
  <2>2. watcher' = [log |-> newest, position |-> SeekPosition(logs[newest]), at |-> "started",
                    fields |-> << >>, more |-> << >>]
    BY <1>2 DEF Following
  <2>3. watcher'.log = newest /\ watcher'.position = SeekPosition(logs[newest]) /\ watcher'.at = "started"
    BY <2>2
  <2>4. ASSUME found'
        PROVE  Since(logs[newest], SeekPosition(logs[newest])) = {}
    BY <1>2, <2>1, <2>4, SinceSeek
  <2> QED BY <1>1, <2>3, <2>4 DEF ReadInv, KnowsLast
<1>3. CASE watcher' = [NotFollowing EXCEPT !.log = newest]
  <2>1. watcher' = [log |-> newest, position |-> 0, at |-> "started", fields |-> << >>, more |-> << >>]
    BY <1>3 DEF NotFollowing
  <2>2. watcher'.log = newest /\ watcher'.position = 0 /\ watcher'.at = "started"
    BY <2>1
  <2> QED BY <1>1, <2>2, SinceNothing DEF ReadInv, KnowsLast
<1> QED BY <1>1, <1>2, <1>3

LEMMA ReadStep == FileInv /\ ReadInv /\ [LogNext]_logVars => ReadInv'
<1> SUFFICES ASSUME FileInv, ReadInv, [LogNext]_logVars PROVE ReadInv'
  OBVIOUS
<1>1. CASE LcNext /\ UNCHANGED watchVars
  BY <1>1, ReadUnchanged DEF watchVars
<1>2. CASE UNCHANGED logVars
  BY <1>2, ReadUnchanged DEF watchVars, logVars
<1>3. CASE DumpApplied
  BY <1>3, ReadUnchanged DEF DumpApplied
<1> QED BY <1>1, <1>2, <1>3, ReadLogs, ReadModified, ReadReads, ReadApply, ReadDump, ReadRestart
    DEF LogNext

-----------------------------------------------------------------------------
(* The properties of the runs *)

LogInv == AccountInv /\ ThreadInv /\ FileInv /\ SaveInv /\ PairInv /\ ReadInv

LEMMA LogAlways == LogSpec => []LogInv
<1>1. LogInit => LogInv
  BY AccountInit, ThreadInit, FileInit, SaveInit, PairInit, ReadInit DEF LogInv
<1>2. LogInv /\ [LogNext]_logVars => LogInv'
  BY AccountStep, ThreadStep, FileStep, SaveStep, PairStep, ReadStep DEF LogInv
<1> QED BY <1>1, <1>2, PTL DEF LogSpec

(* Every variable keeps its type, and the watcher a position inside its log,  *)
(* whatever the threads do to one another.  (LogFileHandler,                  *)
(* local_characters)                                                          *)
THEOREM LogTypes == LogSpec => []LogTypeOK
<1>1. LogInv => LogTypeOK
  <2> SUFFICES ASSUME LogInv PROVE LogTypeOK
    OBVIOUS
  <2>1. \A i \in DOMAIN accounts : accounts[i].name \in Accounts
    BY NamesAreAccounts DEF LogInv, AccountNames
  <2>2. pendingAcct \in Accounts \cup {NoAccount}
    BY DEF LogInv, PairInv
  <2>3. /\ DOMAIN chars \cup DOMAIN charFile \subseteq Characters
        /\ timerRef \in Timers \cup {0}
        /\ \A t \in Timers : timers[t].at \in {"idle", "armed", "writing"}
        /\ ui.at \in {"idle", "editing", "toSave", "writing"}
        /\ ops \in 0 .. MaxOps
    BY DEF LogInv, ThreadInv, TimerState, UiState, CharacterTable
  <2>4. /\ modified \subseteq Characters
        /\ watcher.at \in {"started", "idle", "reading", "applying"}
    BY DEF LogInv, FileInv
  <2>5. watcher.log \in Characters => watcher.position \in 0 .. Len(logs[watcher.log])
    BY LenProperties DEF LogInv, FileInv, Logs
  <2> QED BY <2>1, <2>2, <2>3, <2>4, <2>5 DEF LogTypeOK
<1> QED BY <1>1, LogAlways, PTL

(* When no save is scheduled or under way, the file holds what is in memory,  *)
(* whichever of the threads saved last; excepted are a save that failed and   *)
(* one that overlapped with another.  (_schedule_save, _flush, save_now)      *)
THEOREM SavedWhenQuiet == LogSpec => []QuietMeansSaved
<1>1. LogInv => QuietMeansSaved
  BY DEF LogInv, SaveInv, QuietMeansSaved, Pending, Writing, Busy
<1> QED BY <1>1, LogAlways, PTL

(* A character that the watcher adds is given the account of the last login   *)
(* that was noted, in lower case; that login was local, and an account of     *)
(* this name exists.  (note_login, try_auto_create)                           *)
THEOREM CreationIsSound == LogSpec => AutoCreateSound
<1>1. LogInv /\ [LogNext]_logVars => [CreatedSoundly]_logVars
  BY SoundStep DEF LogInv
<1> QED BY <1>1, LogAlways, PTL DEF LogSpec, AutoCreateSound

(* Once every event has been handled the newest log has been read to its end, *)
(* and the SSO knows the zone of the last zone line since the login, if the   *)
(* login's marker was in sight at the seek.  (on_modified,                    *)
(* _seek_to_latest_position, handle_log_line)                                 *)
THEOREM WatcherCatchesUp == LogSpec => []CaughtUp
<1>1. LogInv => CaughtUp
  <2> SUFFICES ASSUME LogInv, token, modified = {}, watcher.at = "idle", NEW log, log = logs[newest],
                      NEW since, since = {i \in DOMAIN log : Zones(log[i]) /\ \A w \in Welcomes(log) : w < i}
               PROVE  /\ watcher.log = newest /\ watcher.position = Len(log)
                      /\ found /\ since # {} /\ IsSso(newest) =>
                           /\ newest \in DOMAIN zone /\ zone[newest] = log[Max(since)].value
                           /\ "park" \in DOMAIN told[newest] /\ told[newest]["park"] = log[Max(since)].value
    BY DEF CaughtUp
  <2>1. watcher.log = newest /\ watcher.position = Len(log) /\ newest \in Characters
    BY DEF LogInv, ReadInv, FileInv
  <2>2. log \in Logs /\ Len(log) \in Nat /\ DOMAIN log = 1 .. Len(log)
    BY <2>1, LenProperties DEF LogInv, FileInv, Logs
  <2>3. since = Since(log, Len(log))
    BY <2>2 DEF Since, Welcomes
  <2>4. ASSUME found, since # {}, IsSso(newest)
        PROVE  Known(newest, log[Max(since)].value)
    <3>1. PICK last \in since : \A j \in since : j <= last
      BY <2>2, <2>4, LastOne
    <3>2. Max(since) \in since /\ \A j \in since : j <= Max(since)
      BY <3>1 DEF Max
    <3>3. KnowsLast(newest, log, Len(log))
      BY <2>1, <2>4 DEF LogInv, ReadInv
    <3> QED BY <2>3, <3>2, <3>3 DEF KnowsLast
  <2> QED BY <2>1, <2>4 DEF Known
<1> QED BY <1>1, LogAlways, PTL

-----------------------------------------------------------------------------
(* The items *)

(* What is known of the items of a character is an inventory. *)
Carried(seen) ==
  /\ \A w \in DOMAIN seen \cap BoolItems : seen[w] \in BOOLEAN
  /\ \A w \in DOMAIN seen \cap CountItems : seen[w] \in CountValues

LEMMA InventoryShape ==
  ASSUME NEW items \in Inventories
  PROVE  /\ items = [w \in DOMAIN items |-> items[w]]
         /\ DOMAIN items \subseteq BoolItems \cup CountItems
         /\ Carried(items)
<1>1. PICK flags \in UNION {[known -> BOOLEAN] : known \in SUBSET BoolItems},
           counts \in UNION {[known -> CountValues] : known \in SUBSET CountItems} :
             items = flags @@ counts
  BY DEF Inventories
<1>2. PICK b \in SUBSET BoolItems : flags \in [b -> BOOLEAN]
  BY <1>1
<1>3. PICK k \in SUBSET CountItems : counts \in [k -> CountValues]
  BY <1>1
<1>4. items = [w \in b \cup k |-> IF w \in b THEN flags[w] ELSE counts[w]]
  BY <1>1, <1>2, <1>3 DEF @@
<1>5. DOMAIN items = b \cup k /\ items = [w \in DOMAIN items |-> items[w]]
  BY <1>4
<1>6. \A w \in DOMAIN items : items[w] = IF w \in b THEN flags[w] ELSE counts[w]
  BY <1>4
<1>7. ASSUME NEW w \in DOMAIN items \cap BoolItems
      PROVE  items[w] \in BOOLEAN
  <2>1. w \in b
    BY <1>3, <1>5, ItemsAssumption
  <2> QED BY <1>2, <1>6, <2>1
<1>8. ASSUME NEW w \in DOMAIN items \cap CountItems
      PROVE  items[w] \in CountValues
  <2>1. w \notin b /\ w \in k
    BY <1>2, <1>5, ItemsAssumption
  <2> QED BY <1>3, <1>6, <2>1
<1> QED BY <1>5, <1>7, <1>8 DEF Carried

LEMMA RecordedIsCarried ==
  ASSUME NEW seen, Recorded(seen)
  PROVE  Carried(seen)
<1> DEFINE items == [w \in DOMAIN seen \cap (BoolItems \cup CountItems) |-> seen[w]]
<1>1. Carried(items)
  BY InventoryShape DEF Recorded
<1>2. DOMAIN items = DOMAIN seen \cap (BoolItems \cup CountItems)
      /\ \A w \in DOMAIN items : items[w] = seen[w]
  OBVIOUS
<1> HIDE DEF items
<1> QED BY <1>1, <1>2 DEF Carried

LEMMA CarriedIsRecorded ==
  ASSUME NEW seen, Carried(seen)
  PROVE  Recorded(seen)
<1> DEFINE items == [w \in DOMAIN seen \cap (BoolItems \cup CountItems) |-> seen[w]]
           b == DOMAIN seen \cap BoolItems
           k == DOMAIN seen \cap CountItems
           flags == [w \in b |-> seen[w]]
           counts == [w \in k |-> seen[w]]
<1>1. flags \in [b -> BOOLEAN] /\ b \in SUBSET BoolItems
  BY DEF Carried
<1>2. counts \in [k -> CountValues] /\ k \in SUBSET CountItems
  BY DEF Carried
<1>3. DOMAIN items = b \cup k
  OBVIOUS
<1>4. items = flags @@ counts
  BY <1>3 DEF @@
<1>5. flags \in UNION {[known -> BOOLEAN] : known \in SUBSET BoolItems}
  <2> HIDE DEF flags, b
  <2> QED BY <1>1
<1>6. counts \in UNION {[known -> CountValues] : known \in SUBSET CountItems}
  <2> HIDE DEF counts, k
  <2> QED BY <1>2
<1>7. items \in Inventories
  <2> HIDE DEF items, flags, counts
  <2> QED BY <1>4, <1>5, <1>6 DEF Inventories
<1> QED BY <1>7 DEF Recorded

-----------------------------------------------------------------------------
(* The readiness of more items *)

LEMMA RankValues ==
  /\ Rank["lots"] = 0 /\ Rank["some"] = 1 /\ Rank["few"] = 2 /\ Rank[""] = 3
  /\ ReadinessSortRank["lots"] = 0 /\ ReadinessSortRank["some"] = 1
  /\ ReadinessSortRank["?"] = 2 /\ ReadinessSortRank["few"] = 3
BY SMTT(60) DEF Rank, ReadinessSortRank, @@, :>

LEMMA ThresholdValues == Thresholds["mb3"] = <<3, 6>> /\ Thresholds["pearl"] = <<20, 60>>
BY DEF Thresholds, @@, :>

(* A rank that is better, where 3 is a rank that is unknown and stays so. *)
Better(new, old) ==
  /\ new \in 0 .. 3 /\ old \in 0 .. 3
  /\ new <= old
  /\ new = 3 <=> old = 3

(* More of an item that is counted. *)
More(new, old) ==
  /\ DOMAIN new = DOMAIN old /\ DOMAIN old \subseteq BoolItems \cup CountItems
  /\ Carried(new) /\ Carried(old)
  /\ \A w \in DOMAIN old \cap CountItems : new[w] >= old[w]
  /\ \A w \in DOMAIN old \cap BoolItems : old[w] => new[w]
  /\ "neck" \in DOMAIN old => new["neck"] = old["neck"]

LEMMA TierImproves ==
  ASSUME NEW new, NEW old, More(new, old), NEW w \in {"mb3", "pearl"}
  PROVE  Better(Rank[CountTier(new, w)], Rank[CountTier(old, w)])
<1>1. CASE w \notin DOMAIN old
  <2>1. CountTier(new, w) = "" /\ CountTier(old, w) = ""
    BY <1>1 DEF CountTier, More
  <2>2. Rank[CountTier(new, w)] = 3 /\ Rank[CountTier(old, w)] = 3
    BY <2>1, RankValues
  <2> QED BY <2>2 DEF Better
<1>2. CASE w \in DOMAIN old
  <2>1. PICK n, m : n = new[w] /\ m = old[w]
    OBVIOUS
  <2>2. n \in Nat /\ m \in Nat /\ n >= m
    BY <1>2, <2>1, ItemsAssumption DEF More, Carried
  <2>3. PICK lo \in Nat, hi \in Nat : Thresholds[w] = <<lo, hi>> /\ lo < hi
    BY ThresholdValues
  <2>4. w # "lizard"
    OBVIOUS
  <2>5. CountTier(new, w) = IF n >= hi THEN "lots" ELSE IF n >= lo THEN "some" ELSE "few"
    BY <1>2, <2>1, <2>2, <2>3, <2>4 DEF CountTier, More
  <2>6. CountTier(old, w) = IF m >= hi THEN "lots" ELSE IF m >= lo THEN "some" ELSE "few"
    BY <1>2, <2>1, <2>2, <2>3, <2>4 DEF CountTier, More
  <2>7. /\ Rank[CountTier(new, w)] = IF n >= hi THEN 0 ELSE IF n >= lo THEN 1 ELSE 2
        /\ Rank[CountTier(old, w)] = IF m >= hi THEN 0 ELSE IF m >= lo THEN 1 ELSE 2
    BY <2>5, <2>6, RankValues
  <2> QED BY <2>2, <2>3, <2>7 DEF Better
<1> QED BY <1>1, <1>2

LEMMA VialImproves ==
  ASSUME NEW new, NEW old, More(new, old)
  PROVE  Better(VialRank(new), VialRank(old))
<1>1. CASE "thurg" \notin DOMAIN old
  BY <1>1 DEF VialRank, Better, More
<1>2. CASE "thurg" \in DOMAIN old
  BY <1>2, ItemsAssumption DEF VialRank, Better, More, Carried
<1> QED BY <1>1, <1>2

(* The bundle is asked for as before, and nothing of it is lost. *)
LEMMA BundleImproves ==
  ASSUME NEW new, NEW old, More(new, old)
  PROVE  \/ BundleTier(new) = "" /\ BundleTier(old) = ""
         \/ BundleTier(new) \in {"lots", "some"} /\ BundleTier(old) \in {"lots", "some"}
            /\ Better(Rank[BundleTier(new)], Rank[BundleTier(old)])
<1>1. Carries(new, "neck") = Carries(old, "neck")
  BY ItemsAssumption DEF More, Carried, Carries
<1>2. Carries(old, "void") => Carries(new, "void")
  BY ItemsAssumption DEF More, Carried, Carries
<1>3. HasBattery(old) => HasBattery(new)
  <2>1. CASE "mb4" \in DOMAIN old
    <3>1. PICK n, m : n = new["mb4"] /\ m = old["mb4"]
      OBVIOUS
    <3>2. n \in Nat /\ m \in Nat /\ n >= m
      BY <2>1, <3>1, ItemsAssumption DEF More, Carried
    <3> QED BY <2>1, <3>1, <3>2 DEF HasBattery, More
  <2>2. CASE "mb4" \notin DOMAIN old
    BY <2>2 DEF HasBattery
  <2> QED BY <2>1, <2>2
<1>4. CASE Carries(old, "neck")
  <2>1. BundleTier(new) = IF Carries(new, "void") /\ HasBattery(new) THEN "lots" ELSE "some"
    BY <1>1, <1>4 DEF BundleTier
  <2>2. BundleTier(old) = IF Carries(old, "void") /\ HasBattery(old) THEN "lots" ELSE "some"
    BY <1>4 DEF BundleTier
  <2>3. BundleTier(new) \in {"lots", "some"} /\ BundleTier(old) \in {"lots", "some"}
    BY <2>1, <2>2
  <2>4. BundleTier(old) = "lots" => BundleTier(new) = "lots"
    BY <1>2, <1>3, <2>1, <2>2
  <2>5. PICK a, b : a = BundleTier(new) /\ b = BundleTier(old)
    OBVIOUS
  <2>6. a \in {"lots", "some"} /\ b \in {"lots", "some"} /\ (b = "lots" => a = "lots")
    BY <2>3, <2>4, <2>5
  <2>7. Better(Rank[a], Rank[b])
    <3>1. /\ Rank[a] = IF a = "lots" THEN 0 ELSE 1
          /\ Rank[b] = IF b = "lots" THEN 0 ELSE 1
      BY <2>6, RankValues
    <3> QED BY <2>6, <3>1 DEF Better
  <2> QED BY <2>3, <2>5, <2>7
<1>5. CASE ~Carries(old, "neck")
  BY <1>1, <1>5 DEF BundleTier
<1> QED BY <1>4, <1>5

(* The order of the Characters table, from the ranks of the sub-checks.        *)
LEMMA RollUpRank ==
  ASSUME NEW ranks, ranks \subseteq 0 .. 3
  PROVE  ReadinessSortRank[RollUp(ranks)] =
           IF 3 \in ranks THEN 2
           ELSE IF ranks = {0} THEN 0
           ELSE IF 0 \notin ranks /\ 2 \in ranks THEN 3 ELSE 1
<1>1. CASE 3 \in ranks
  <2>1. ranks # {0} /\ ~(ranks \subseteq {1, 2})
    BY <1>1
  <2>2. RollUp(ranks) = "?"
    BY <1>1, <2>1 DEF RollUp
  <2> QED BY <1>1, <2>2, RankValues
<1>2. CASE ranks = {0}
  <2>1. 3 \notin ranks /\ ~(ranks \subseteq {1, 2})
    BY <1>2
  <2>2. RollUp(ranks) = "lots"
    BY <1>2, <2>1 DEF RollUp
  <2> QED BY <1>2, <2>1, <2>2, RankValues
<1>3. CASE 3 \notin ranks /\ ranks # {0} /\ 0 \notin ranks /\ 2 \in ranks
  <2>1. ranks \subseteq {1, 2} /\ 2 \in ranks
    BY <1>3
  <2>2. RollUp(ranks) = "few"
    BY <1>3, <2>1 DEF RollUp
  <2> QED BY <1>3, <2>2, RankValues
<1>4. CASE 3 \notin ranks /\ ranks # {0} /\ ~(0 \notin ranks /\ 2 \in ranks)
  <2>1. ~(ranks \subseteq {1, 2} /\ 2 \in ranks)
    BY <1>4
  <2>2. RollUp(ranks) = "some"
    BY <1>4, <2>1 DEF RollUp
  <2> QED BY <1>4, <2>2, RankValues
<1> QED BY <1>1, <1>2, <1>3, <1>4

(* The worst counts, but a green one lifts it: the order stays.                *)
LEMMA ThreeImprove ==
  ASSUME NEW a, NEW b, NEW c, NEW x, NEW y, NEW z, Better(a, x), Better(b, y), Better(c, z)
  PROVE  ReadinessSortRank[RollUp({a, b} \cup {c})] <= ReadinessSortRank[RollUp({x, y} \cup {z})]
<1>1. {a, b} \cup {c} \subseteq 0 .. 3 /\ {x, y} \cup {z} \subseteq 0 .. 3
  BY DEF Better
<1>2. ReadinessSortRank[RollUp({a, b} \cup {c})] =
        IF a = 3 \/ b = 3 \/ c = 3 THEN 2 ELSE IF a = 0 /\ b = 0 /\ c = 0 THEN 0
        ELSE IF a # 0 /\ b # 0 /\ c # 0 /\ (a = 2 \/ b = 2 \/ c = 2) THEN 3 ELSE 1
  BY <1>1, RollUpRank
<1>3. ReadinessSortRank[RollUp({x, y} \cup {z})] =
        IF x = 3 \/ y = 3 \/ z = 3 THEN 2 ELSE IF x = 0 /\ y = 0 /\ z = 0 THEN 0
        ELSE IF x # 0 /\ y # 0 /\ z # 0 /\ (x = 2 \/ y = 2 \/ z = 2) THEN 3 ELSE 1
  BY <1>1, RollUpRank
<1> QED BY <1>2, <1>3 DEF Better

LEMMA TwoImprove ==
  ASSUME NEW a, NEW b, NEW x, NEW y, Better(a, x), Better(b, y)
  PROVE  ReadinessSortRank[RollUp({a, b})] <= ReadinessSortRank[RollUp({x, y})]
<1>1. {a, b} \cup {a} = {a, b} /\ {x, y} \cup {x} = {x, y}
  OBVIOUS
<1>2. ReadinessSortRank[RollUp({a, b} \cup {a})] <= ReadinessSortRank[RollUp({x, y} \cup {x})]
  BY ThreeImprove
<1> QED BY <1>1, <1>2

LEMMA OneImproves ==
  ASSUME NEW a, NEW x, Better(a, x)
  PROVE  ReadinessSortRank[RollUp({a})] <= ReadinessSortRank[RollUp({x})]
<1>1. {a, a} = {a} /\ {x, x} = {x}
  OBVIOUS
<1>2. ReadinessSortRank[RollUp({a, a})] <= ReadinessSortRank[RollUp({x, x})]
  BY TwoImprove
<1> QED BY <1>1, <1>2

LEMMA MoreReady ==
  ASSUME NEW new, NEW old, More(new, old)
  PROVE  NoLessReady(new, old)
<1>1. Better(Rank[CountTier(new, "mb3")], Rank[CountTier(old, "mb3")])
  BY TierImproves
<1>2. Better(Rank[CountTier(new, "pearl")], Rank[CountTier(old, "pearl")])
  BY TierImproves
<1>3. Better(VialRank(new), VialRank(old))
  BY VialImproves
<1>4. Readiness("Magician", new) = RollUp({Rank[CountTier(new, "pearl")]})
      /\ Readiness("Magician", old) = RollUp({Rank[CountTier(old, "pearl")]})
  BY DEF Readiness
<1>5. ReadinessSortRank[Readiness("Magician", new)] <= ReadinessSortRank[Readiness("Magician", old)]
  BY <1>2, <1>4, OneImproves
<1>6. /\ Readiness("Cleric", new) =
           RollUp({Rank[CountTier(new, "mb3")], VialRank(new)}
                    \cup {Rank[tier] : tier \in {BundleTier(new)} \ {""}})
      /\ Readiness("Cleric", old) =
           RollUp({Rank[CountTier(old, "mb3")], VialRank(old)}
                    \cup {Rank[tier] : tier \in {BundleTier(old)} \ {""}})
  BY DEF Readiness
<1>7. ReadinessSortRank[Readiness("Cleric", new)] <= ReadinessSortRank[Readiness("Cleric", old)]
  <2>1. PICK a, b, x, y : /\ a = Rank[CountTier(new, "mb3")] /\ b = VialRank(new)
                          /\ x = Rank[CountTier(old, "mb3")] /\ y = VialRank(old)
    OBVIOUS
  <2>2. Better(a, x) /\ Better(b, y)
    BY <1>1, <1>3, <2>1
  <2>3. CASE BundleTier(new) = "" /\ BundleTier(old) = ""
    <3>1. Readiness("Cleric", new) = RollUp({a, b}) /\ Readiness("Cleric", old) = RollUp({x, y})
      <4>1. /\ {Rank[tier] : tier \in {BundleTier(new)} \ {""}} = {}
            /\ {Rank[tier] : tier \in {BundleTier(old)} \ {""}} = {}
        BY <2>3
      <4>2. {a, b} \cup {} = {a, b} /\ {x, y} \cup {} = {x, y}
        OBVIOUS
      <4> QED BY <1>6, <2>1, <4>1, <4>2
    <3>2. ReadinessSortRank[RollUp({a, b})] <= ReadinessSortRank[RollUp({x, y})]
      BY <2>2, TwoImprove
    <3> QED BY <3>1, <3>2
  <2>4. ASSUME BundleTier(new) \in {"lots", "some"}, BundleTier(old) \in {"lots", "some"},
               Better(Rank[BundleTier(new)], Rank[BundleTier(old)])
        PROVE  ReadinessSortRank[Readiness("Cleric", new)] <= ReadinessSortRank[Readiness("Cleric", old)]
    <3>1. PICK c, z : c = Rank[BundleTier(new)] /\ z = Rank[BundleTier(old)]
      OBVIOUS
    <3>2. /\ {Rank[tier] : tier \in {BundleTier(new)} \ {""}} = {c}
          /\ {Rank[tier] : tier \in {BundleTier(old)} \ {""}} = {z}
      BY <2>4, <3>1
    <3>3. /\ Readiness("Cleric", new) = RollUp({a, b} \cup {c})
          /\ Readiness("Cleric", old) = RollUp({x, y} \cup {z})
      BY <1>6, <2>1, <3>2
    <3>4. ReadinessSortRank[RollUp({a, b} \cup {c})] <= ReadinessSortRank[RollUp({x, y} \cup {z})]
      <4>1. Better(c, z)
        BY <2>4, <3>1
      <4> QED BY <2>2, <4>1, ThreeImprove
    <3> QED BY <3>3, <3>4
  <2> QED BY <2>3, <2>4, BundleImproves
<1> QED BY <1>5, <1>7 DEF NoLessReady

LEMMA ReadierWithMore == MoreIsNoLessReady
<1> SUFFICES ASSUME NEW old \in Inventories, NEW new \in Improved(old), AtLeast(new, old)
             PROVE  NoLessReady(new, old)
  BY DEF MoreIsNoLessReady
<1>1. /\ old = [w \in DOMAIN old |-> old[w]] /\ DOMAIN old \subseteq BoolItems \cup CountItems
      /\ Carried(old)
  BY InventoryShape
<1>2. ASSUME NEW w \in (DOMAIN old \cap BoolItems) \ {"neck"}, new = [old EXCEPT ![w] = TRUE]
      PROVE  More(new, old)
  <2>1. new = [v \in DOMAIN old |-> IF v = w THEN TRUE ELSE old[v]]
    BY <1>1, <1>2
  <2>2. \A v \in DOMAIN old : new[v] = IF v = w THEN TRUE ELSE old[v]
    BY <2>1
  <2>3. DOMAIN new = DOMAIN old
    BY <2>1
  <2>4. Carried(new)
    BY <1>1, <2>2, <2>3, ItemsAssumption DEF Carried
  <2>5. \A v \in DOMAIN old \cap CountItems : new[v] >= old[v]
    BY DEF AtLeast
  <2>6. \A v \in DOMAIN old \cap BoolItems : old[v] => new[v]
    BY <2>2, Zenon
  <2>7. "neck" \in DOMAIN old => new["neck"] = old["neck"]
    BY <1>2, <2>2
  <2> QED BY <1>1, <2>3, <2>4, <2>5, <2>6, <2>7 DEF More
<1>3. ASSUME NEW w \in DOMAIN old \cap CountItems, NEW n \in CountValues, new = [old EXCEPT ![w] = n]
      PROVE  More(new, old)
  <2>1. new = [v \in DOMAIN old |-> IF v = w THEN n ELSE old[v]]
    BY <1>1, <1>3
  <2>2. \A v \in DOMAIN old : new[v] = IF v = w THEN n ELSE old[v]
    BY <2>1
  <2>3. DOMAIN new = DOMAIN old
    BY <2>1
  <2>4. \A v \in DOMAIN old \cap BoolItems : v # w
    BY ItemsAssumption
  <2>5. Carried(new)
    BY <1>1, <2>2, <2>3, <2>4 DEF Carried
  <2>6. \A v \in DOMAIN old \cap CountItems : new[v] >= old[v]
    BY DEF AtLeast
  <2>7. \A v \in DOMAIN old \cap BoolItems : old[v] => new[v]
    BY <2>2, <2>4, Zenon
  <2>8. "neck" \in DOMAIN old => new["neck"] = old["neck"]
    BY <2>2, ItemsAssumption
  <2> QED BY <1>1, <2>3, <2>5, <2>6, <2>7, <2>8 DEF More
<1> QED BY <1>2, <1>3, MoreReady DEF Improved

-----------------------------------------------------------------------------
(* What is known of the characters in a table. *)
AllCarried(t) == \A c \in DOMAIN t : Carried(t[c].seen)

CarriedInv ==
  /\ AllCarried(chars) /\ AllCarried(charFile)
  /\ AllCarried(ui.rows) /\ Carried(ui.copy)
  /\ \A t \in Timers : AllCarried(timers[t].rows)
  /\ Carried(watcher.fields) /\ Carried(watcher.more)
  /\ Carried(dump.items)

LEMMA NothingCarried == Carried(<< >>) /\ AllCarried(<< >>)
<1>1. DOMAIN << >> = {}
  OBVIOUS
<1> QED BY <1>1 DEF Carried, AllCarried

LEMMA CarriedMerged ==
  ASSUME NEW f, NEW g, Carried(f), Carried(g)
  PROVE  Carried(f @@ g)
BY DEF Carried, @@

LEMMA CarriedWith ==
  ASSUME NEW t, AllCarried(t), NEW c, NEW e, Carried(e.seen)
  PROVE  AllCarried((c :> e) @@ t)
BY DEF AllCarried, @@, :>

LEMMA CarriedWithout ==
  ASSUME NEW t, AllCarried(t), NEW gone
  PROVE  AllCarried(Without(t, gone))
BY DEF AllCarried, Without

LEMMA CarriedTorn ==
  ASSUME NEW t, AllCarried(t), NEW rows \in Torn(t)
  PROVE  AllCarried(rows)
BY CarriedWithout DEF Torn

LEMMA EntryCarried ==
  ASSUME NEW a, NEW seen, Carried(seen)
  PROVE  Carried(Entry(a, seen).seen)
BY DEF Entry

(* A line tells of no item but the velium vials, of which there are none left. *)
LEMMA ObservedCarried ==
  ASSUME NEW c, NEW line
  PROVE  Carried(Observed(c, line))
<1>1. \A v : Carried("park" :> v) /\ Carried("bind" :> v) /\ Carried("level" :> v) /\ Carried("class" :> v)
  BY WatcherAssumption DEF Carried, :>
<1>2. Carried("thurg" :> FALSE)
  BY ItemsAssumption DEF Carried, :>
<1>4. CASE Zones(line)
  <2>1. PICK kind : kind = line.kind
    OBVIOUS
  <2>2. kind \in {"entered", "who_zone"}
    BY <1>4, <2>1 DEF Zones
  <2>3. Observed(c, line) = ("park" :> line.value)
    BY <1>4, <2>1, <2>2 DEF Observed
  <2> QED BY <1>1, <2>3
<1>5. CASE ~Zones(line)
  <2>1. PICK kind : kind = line.kind
    OBVIOUS
  <2>2. CASE kind = "bind_confirm"
    BY <1>1, <1>5, <2>1, <2>2, NothingCarried DEF Observed
  <2>3. CASE kind = "charinfo"
    BY <1>1, <1>5, <2>1, <2>3 DEF Observed
  <2>4. CASE kind = "level_up"
    BY <1>1, <1>5, <2>1, <2>4 DEF Observed
  <2>5. CASE kind \in {"who_self", "who_title"}
    BY <1>1, <1>5, <2>1, <2>5 DEF Observed
  <2>6. CASE kind = "velium"
    BY <1>2, <1>5, <2>1, <2>6 DEF Observed
  <2>7. CASE kind \notin {"bind_confirm", "charinfo", "level_up", "who_self", "who_title", "velium"}
    <3>1. /\ kind # "bind_confirm" /\ kind # "charinfo" /\ kind # "level_up" /\ kind # "who_self"
          /\ kind # "who_title" /\ kind # "velium"
      BY <2>7
    <3>2. Observed(c, line) = << >>
      BY <1>5, <2>1, <3>1 DEF Observed
    <3> QED BY <3>2, NothingCarried
  <2> QED BY <2>2, <2>3, <2>4, <2>5, <2>6, <2>7
<1> QED BY <1>4, <1>5

LEMMA ClassCarried ==
  ASSUME NEW line
  PROVE  Carried(Class(line))
<1>1. Carried("class" :> line.value)
  BY WatcherAssumption DEF Carried, :>
<1> QED BY <1>1, NothingCarried DEF Class

LEMMA UpdateCarried ==
  ASSUME AllCarried(chars), NEW c, NEW fields, Carried(fields), ApplyUpdate(c, fields)
  PROVE  AllCarried(chars')
<1> DEFINE old == IF c \in DOMAIN chars THEN chars[c] ELSE Entry(NoAccount, << >>)
           new == [old EXCEPT !.seen = fields @@ @]
<1>1. chars' = (c :> new) @@ chars
  BY DEF ApplyUpdate
<1>2. Carried(old.seen)
  <2>1. CASE c \in DOMAIN chars
    BY <2>1 DEF AllCarried
  <2>2. CASE c \notin DOMAIN chars
    BY <2>2, NothingCarried, EntryCarried
  <2> QED BY <2>1, <2>2
<1>3. Carried(new.seen)
  <2> HIDE DEF old
  <2>1. Carried(fields @@ old.seen)
    BY <1>2, CarriedMerged
  <2>2. new.seen = fields @@ old.seen \/ new.seen = old.seen
    OBVIOUS
  <2> QED BY <1>2, <2>1, <2>2
<1> HIDE DEF new
<1> QED BY <1>1, <1>3, CarriedWith

LEMMA CarriedInit == LogInit => CarriedInv
<1> SUFFICES ASSUME LogInit PROVE CarriedInv
  OBVIOUS
<1>1. PICK s \in Starts : charFile = s.characters
  BY DEF LogInit
<1>2. AllCarried(charFile)
  BY <1>1, InventoriesAssumption, RecordedIsCarried DEF AllCarried
<1>3. /\ chars = charFile
      /\ ui.rows = << >> /\ ui.copy = << >>
      /\ \A t \in Timers : timers[t].rows = << >>
  BY DEF LogInit, LcInit, Idle
<1>4. watcher.fields = << >> /\ watcher.more = << >> /\ dump.items = << >>
  BY DEF LogInit, NotFollowing, NoDump
<1> QED BY <1>2, <1>3, <1>4, NothingCarried DEF CarriedInv

(* What the tables of the program become, and what the watchers are about to  *)
(* add to them.                                                               *)
TablesKept ==
  /\ AllCarried(chars') /\ AllCarried(charFile')
  /\ AllCarried(ui'.rows) /\ Carried(ui'.copy)
  /\ \A t \in Timers : AllCarried(timers'[t].rows)

LEMMA TimersCarried ==
  ASSUME ThreadInv, CarriedInv, UNCHANGED <<chars, timerRef, timers>> \/ ScheduleSave
  PROVE  \A t \in Timers : AllCarried(timers'[t].rows)
<1>1. CASE UNCHANGED <<chars, timerRef, timers>>
  BY <1>1 DEF CarriedInv
<1>2. CASE ScheduleSave
  <2>1. \A t \in Timers : timers'[t].rows = timers[t].rows
    BY <1>2, Schedules DEF Scheduled
  <2> QED BY <2>1 DEF CarriedInv
<1> QED BY <1>1, <1>2

LEMMA CarriedWatch ==
  ASSUME ThreadInv, FileInv, CarriedInv,
         ReadLine \/ ApplyLine \/ DumpApplied \/ \E c \in Characters : OnModified(c)
  PROVE  TablesKept
<1>1. WatchEffect
  BY WatcherEffect
<1>2. UNCHANGED <<charFile, ui>> /\ \A t \in Timers : AllCarried(timers'[t].rows)
  BY <1>1, TimersCarried DEF WatchEffect
<1>3. AllCarried(chars')
  <2>1. CASE ReadLine
    BY <2>1 DEF ReadLine, charVars, CarriedInv
  <2>2. CASE ApplyLine
    BY <2>2, UpdateCarried DEF ApplyLine, CarriedInv
  <2>3. CASE DumpApplied
    BY <2>3, UpdateCarried DEF DumpApplied, CarriedInv
  <2>4. ASSUME NEW c \in Characters, OnModified(c)
        PROVE  AllCarried(chars')
    <3>1. chars' = chars \/ TryAutoCreate(newest)
      BY <2>4 DEF OnModified
    <3>2. chars' = chars \/ chars' = (newest :> Entry(pendingAcct, << >>)) @@ chars
      BY <3>1 DEF TryAutoCreate
    <3> QED BY <3>2, NothingCarried, EntryCarried, CarriedWith DEF CarriedInv
  <2> QED BY <2>1, <2>2, <2>3, <2>4
<1> QED BY <1>2, <1>3 DEF TablesKept, CarriedInv

LEMMA CarriedUser ==
  ASSUME ThreadInv, CarriedInv,
         \/ \E c \in Characters, a \in Accounts \cup {NoAccount} : AddCharacter(c, a)
         \/ \E c \in Characters : EditOpens(c) \/ DeleteCharacter(c)
         \/ \E a \in Accounts \cup {NoAccount} : EditSaves(a)
         \/ EditCancelled
  PROVE  TablesKept
<1>0. /\ UserEffect /\ AllCarried(chars) /\ Carried(ui.copy) /\ AllCarried(ui.rows)
      /\ ui = [at |-> ui.at, rows |-> ui.rows, char |-> ui.char, copy |-> ui.copy]
  BY UserActs DEF CarriedInv, ThreadInv, UiState
<1>1. UNCHANGED <<charFile, timers>>
  BY <1>0 DEF UserEffect
<1>2. ASSUME AllCarried(chars'), ui'.rows = ui.rows, Carried(ui'.copy)
      PROVE  TablesKept
  BY <1>1, <1>2 DEF TablesKept, CarriedInv
<1>3. ASSUME NEW c \in Characters, NEW a, AddCharacter(c, a)
      PROVE  TablesKept
  <2>1. chars' = (c :> Entry(Lower[a], << >>)) @@ chars /\ ui' = [ui EXCEPT !.at = "toSave"]
    BY <1>3 DEF AddCharacter
  <2>2. ui'.rows = ui.rows /\ ui'.copy = ui.copy
    BY <1>0, <2>1
  <2>3. AllCarried(chars')
    BY <1>0, <2>1, NothingCarried, EntryCarried, CarriedWith
  <2> QED BY <1>0, <1>2, <2>2, <2>3
<1>4. ASSUME NEW c \in Characters, EditOpens(c)
      PROVE  TablesKept
  <2>1. PICK copy : copy = chars[c].seen
    OBVIOUS
  <2>2. /\ c \in DOMAIN chars /\ chars' = chars
        /\ ui' = [ui EXCEPT !.at = "editing", !.char = c, !.copy = copy]
    BY <1>4, <2>1 DEF EditOpens, charVars
  <2>3. ui'.rows = ui.rows /\ ui'.copy = copy
    BY <1>0, <2>2
  <2>4. Carried(copy)
    BY <1>0, <2>1, <2>2 DEF AllCarried
  <2> QED BY <1>0, <1>2, <2>2, <2>3, <2>4
<1>5. ASSUME NEW c \in Characters, DeleteCharacter(c)
      PROVE  TablesKept
  <2>1. chars' = Without(chars, {c}) /\ ui' = [ui EXCEPT !.at = "toSave"]
    BY <1>5 DEF DeleteCharacter
  <2>2. ui'.rows = ui.rows /\ ui'.copy = ui.copy
    BY <1>0, <2>1
  <2>3. AllCarried(chars')
    BY <1>0, <2>1, CarriedWithout
  <2> QED BY <1>0, <1>2, <2>2, <2>3
<1>6. ASSUME NEW a, EditSaves(a)
      PROVE  TablesKept
  <2>1. /\ chars' = (ui.char :> Entry(Lower[a], ui.copy)) @@ chars
        /\ ui' = [ui EXCEPT !.at = "toSave", !.char = NoAccount, !.copy = << >>]
    BY <1>6 DEF EditSaves
  <2>2. ui'.rows = ui.rows /\ ui'.copy = << >>
    BY <1>0, <2>1
  <2>3. AllCarried(chars')
    BY <1>0, <2>1, EntryCarried, CarriedWith
  <2> QED BY <1>2, <2>2, <2>3, NothingCarried
<1>7. CASE EditCancelled
  <2>1. chars' = chars /\ ui' = [ui EXCEPT !.at = "idle", !.char = NoAccount, !.copy = << >>]
    BY <1>7 DEF EditCancelled, charVars
  <2>2. ui'.rows = ui.rows /\ ui'.copy = << >>
    BY <1>0, <2>1
  <2> QED BY <1>0, <1>2, <2>1, <2>2, NothingCarried
<1> QED BY <1>3, <1>4, <1>5, <1>6, <1>7

LEMMA WrittenCarried ==
  ASSUME AllCarried(charFile), NEW rows, AllCarried(rows), Written(rows)
  PROVE  AllCarried(charFile')
BY CarriedTorn DEF Written

LEMMA CarriedSaves ==
  ASSUME ThreadInv, CarriedInv,
         SaveNow \/ UiWritten \/ \E t \in Timers : Flush(t) \/ TimerWritten(t)
  PROVE  TablesKept
<1>0. ui = [at |-> ui.at, rows |-> ui.rows, char |-> ui.char, copy |-> ui.copy]
  BY DEF ThreadInv, UiState
<1>1. CASE SaveNow
  <2>1. /\ UNCHANGED <<chars, charFile>> /\ ui' = [ui EXCEPT !.at = "writing", !.rows = chars]
        /\ \A t \in Timers : timers'[t] \in {timers[t], Idle}
    BY <1>1, SaveNowTypes DEF SaveNow
  <2>2. ui'.rows = chars /\ ui'.copy = ui.copy
    BY <1>0, <2>1
  <2>3. \A t \in Timers : AllCarried(timers'[t].rows)
    BY <2>1, NothingCarried DEF CarriedInv, Idle
  <2> QED BY <2>1, <2>2, <2>3 DEF TablesKept, CarriedInv
<1>2. CASE UiWritten
  <2>1. /\ UNCHANGED <<chars, timers>> /\ ui' = [ui EXCEPT !.at = "idle", !.rows = << >>]
        /\ AllCarried(charFile')
    BY <1>2, WrittenCarried DEF UiWritten, CarriedInv
  <2>2. ui'.rows = << >> /\ ui'.copy = ui.copy
    BY <1>0, <2>1
  <2> QED BY <2>1, <2>2, NothingCarried DEF TablesKept, CarriedInv
<1>3. ASSUME NEW t \in Timers, Flush(t)
      PROVE  TablesKept
  <2>1. UNCHANGED <<chars, charFile, ui>>
    BY <1>3 DEF Flush
  <2>2. timers'[t].rows = chars /\ \A u \in Timers \ {t} : timers'[u] = timers[u]
    BY <1>3, FlushTypes
  <2> QED BY <2>1, <2>2 DEF TablesKept, CarriedInv
<1>4. ASSUME NEW t \in Timers, TimerWritten(t)
      PROVE  TablesKept
  <2>1. UNCHANGED <<chars, ui>> /\ AllCarried(charFile')
    BY <1>4, WrittenCarried DEF TimerWritten, CarriedInv
  <2>2. timers'[t] = Idle /\ \A u \in Timers \ {t} : timers'[u] = timers[u]
    BY <1>4, TimerWrittenTypes
  <2>3. timers'[t].rows = << >>
    BY <2>2 DEF Idle
  <2> QED BY <2>1, <2>2, <2>3, NothingCarried DEF TablesKept, CarriedInv
<1> QED BY <1>1, <1>2, <1>3, <1>4

LEMMA CarriedRestart ==
  ASSUME CarriedInv, Restart
  PROVE  TablesKept
<1>1. /\ chars' = charFile' /\ ui'.rows = << >> /\ ui'.copy = << >>
      /\ \A t \in Timers : timers'[t].rows = << >>
  BY DEF Restart, Idle
<1>2. AllCarried(charFile')
  <2>1. \/ charFile' = charFile
        \/ charFile' \in Torn(ui.rows)
        \/ \E t \in Timers : charFile' \in Torn(timers[t].rows)
    BY DEF Restart
  <2> QED BY <2>1, CarriedTorn DEF CarriedInv
<1> QED BY <1>1, <1>2, NothingCarried DEF TablesKept

(* What the watchers are about to add. *)
AddsKept == Carried(watcher'.fields) /\ Carried(watcher'.more) /\ Carried(dump'.items)

LEMMA AddsStep ==
  ASSUME FileInv, CarriedInv, [LogNext]_logVars
  PROVE  AddsKept
<1>0. /\ watcher = [log |-> watcher.log, position |-> watcher.position, at |-> watcher.at,
                    fields |-> watcher.fields, more |-> watcher.more]
      /\ Carried(watcher.fields) /\ Carried(watcher.more) /\ Carried(dump.items)
  BY DEF FileInv, CarriedInv
<1>1. ASSUME UNCHANGED <<watcher, dump>>
      PROVE  AddsKept
  BY <1>0, <1>1 DEF AddsKept
<1>2. \A c : Following(c).fields = << >> /\ Following(c).more = << >>
  BY DEF Following
<1>3. ASSUME NEW c \in Characters, OnModified(c)
      PROVE  AddsKept
  <2>1. dump' = dump
    BY <1>3 DEF OnModified
  <2>2. CASE watcher' = watcher
    BY <1>1, <2>1, <2>2
  <2>3. PICK next : next = IF newest = watcher.log THEN watcher ELSE Following(newest)
    OBVIOUS
  <2>4. CASE watcher' = [next EXCEPT !.at = IF c = newest THEN After(next) ELSE @]
    <3>1. watcher'.fields = next.fields /\ watcher'.more = next.more
      <4>1. next = [log |-> next.log, position |-> next.position, at |-> next.at,
                    fields |-> next.fields, more |-> next.more]
        BY <1>0, <2>3 DEF Following
      <4> QED BY <2>4, <4>1
    <3>2. Carried(next.fields) /\ Carried(next.more)
      BY <1>0, <1>2, <2>3, NothingCarried
    <3> QED BY <1>0, <2>1, <3>1, <3>2 DEF AddsKept
  <2> QED BY <1>3, <2>2, <2>3, <2>4 DEF OnModified
<1>4. CASE ReadLine
  <2>1. dump' = dump
    BY <1>4 DEF ReadLine
  <2>2. PICK line, p : line = logs[watcher.log][watcher.position + 1] /\ p = watcher.position + 1
    OBVIOUS
  <2>3. PICK fields, class, a : /\ fields = Observed(watcher.log, line) /\ class = Class(line)
                                /\ a = After([watcher EXCEPT !.position = p])
    OBVIOUS
  <2>4. \/ watcher' = [[watcher EXCEPT !.position = p] EXCEPT !.at = "applying", !.fields = fields,
                                                             !.more = class]
        \/ watcher' = [[watcher EXCEPT !.position = p] EXCEPT !.at = a]
    BY <1>4, <2>2, <2>3 DEF ReadLine
  <2>5. \/ watcher'.fields = fields /\ watcher'.more = class
        \/ watcher'.fields = watcher.fields /\ watcher'.more = watcher.more
    BY <1>0, <2>4
  <2> QED BY <1>0, <2>1, <2>3, <2>5, ObservedCarried, ClassCarried DEF AddsKept
<1>5. CASE ApplyLine
  <2>1. dump' = dump
    BY <1>5 DEF ApplyLine
  <2>2. PICK a : a = IF watcher.more # << >> THEN "applying" ELSE After(watcher)
    OBVIOUS
  <2>3. watcher' = [watcher EXCEPT !.at = a, !.fields = watcher.more, !.more = << >>]
    BY <1>5, <2>2 DEF ApplyLine
  <2>4. watcher'.fields = watcher.more /\ watcher'.more = << >>
    BY <1>0, <2>3
  <2> QED BY <1>0, <2>1, <2>4, NothingCarried DEF AddsKept
<1>6. ASSUME NEW c \in Characters, NEW file \in Dumps, InventoryDumped(c, file)
      PROVE  AddsKept
  <2>1. /\ watcher' = watcher
        /\ dump' = dump \/ dump' = [char |-> c, items |-> ParsedInventory(file)]
    BY <1>6 DEF InventoryDumped
  <2>2. dump'.items = dump.items \/ dump'.items = ParsedInventory(file)
    BY <2>1
  <2>3. Carried(ParsedInventory(file))
    BY InventoriesAssumption, RecordedIsCarried
  <2> QED BY <1>0, <2>1, <2>2, <2>3 DEF AddsKept
<1>7. CASE DumpApplied
  <2>1. watcher' = watcher /\ dump'.items = << >>
    BY <1>7 DEF DumpApplied, NoDump
  <2> QED BY <1>0, <2>1, NothingCarried DEF AddsKept
<1>8. CASE RestartWatching
  <2>1. dump'.items = << >>
    BY <1>8 DEF RestartWatching, NoDump
  <2>2. watcher' = Following(newest) \/ watcher' = [NotFollowing EXCEPT !.log = newest]
    BY <1>8 DEF RestartWatching
  <2>3. watcher'.fields = << >> /\ watcher'.more = << >>
    BY <1>2, <2>2 DEF NotFollowing
  <2> QED BY <2>1, <2>3, NothingCarried DEF AddsKept
<1>9. ASSUME (LcNext /\ UNCHANGED watchVars) \/ UNCHANGED logVars
             \/ \E c \in Characters, line \in LogLines \cup {Welcome} : ClientLogs(c, line)
      PROVE  UNCHANGED <<watcher, dump>>
  BY <1>9 DEF watchVars, logVars, ClientLogs
<1> QED BY <1>1, <1>3, <1>4, <1>5, <1>6, <1>7, <1>8, <1>9 DEF LogNext

LEMMA CarriedStep == ThreadInv /\ FileInv /\ CarriedInv /\ [LogNext]_logVars => CarriedInv'
<1> SUFFICES ASSUME ThreadInv, FileInv, CarriedInv, [LogNext]_logVars PROVE CarriedInv'
  OBVIOUS
<1>1. AddsKept
  BY AddsStep
<1>2. ASSUME UNCHANGED <<charVars, threadVars>>
      PROVE  TablesKept
  BY <1>2 DEF TablesKept, CarriedInv, charVars, threadVars
<1>3. ops \in 0 .. MaxOps
  BY DEF ThreadInv
<1>4. ASSUME LcNext PROVE TablesKept
  BY <1>2, <1>3, <1>4, OtherSteps, CarriedUser, CarriedSaves DEF LcNext
<1>5. ASSUME RestartWatching PROVE TablesKept
  BY <1>5, CarriedRestart DEF RestartWatching
<1>6. TablesKept
  BY <1>2, <1>3, <1>4, <1>5, OtherSteps, CarriedWatch DEF LogNext
<1> QED BY <1>1, <1>6 DEF TablesKept, AddsKept, CarriedInv

(* Getting more of an item never makes a character look less ready, for every *)
(* inventory, and what the watchers and the dialogs leave of a character is   *)
(* always an inventory.  (readiness_cleric, readiness_magician, apply_update) *)
THEOREM MoreNeverHurts == LogSpec => []ReadinessMonotone
<1>1. CarriedInv => ReadinessMonotone
  BY CarriedIsRecorded, ReadierWithMore DEF CarriedInv, AllCarried, ReadinessMonotone
<1>2. LogInit => ThreadInv /\ FileInv /\ CarriedInv
  BY ThreadInit, FileInit, CarriedInit
<1>3. ThreadInv /\ FileInv /\ CarriedInv /\ [LogNext]_logVars => ThreadInv' /\ FileInv' /\ CarriedInv'
  BY ThreadStep, FileStep, CarriedStep
<1> QED BY <1>1, <1>2, <1>3, PTL DEF LogSpec

=============================================================================
