------------------------ MODULE SettingsStoreProofs ------------------------
(***************************************************************************)
(* Proofs about SettingsStore, for any number of handlers, fields,         *)
(* profiles and requests, with kills and failed writes. First what the     *)
(* operations on a profile list preserve; then, for each file that never   *)
(* had two writers at once, how disk, .tmp and memory relate to what was   *)
(* acknowledged, at every place of the handler that is saving it: for the  *)
(* profiles always, for the configuration until two patches overlap.       *)
(***************************************************************************)
EXTENDS SettingsStore, TLAPS, SequenceTheorems, FiniteSetTheorems, WellFoundedInduction

Entry == [id : Ids, selected : BOOLEAN]

UniqueIds(pf) ==
  \A i, j \in DOMAIN pf.list : pf.list[i].id = pf.list[j].id => i = j

\* SelectedID and the flags of the entries agree.
SelectionAgrees(pf) ==
  /\ pf.selectedID \in ids(pf) \cup {None}
  /\ \A i \in DOMAIN pf.list : pf.list[i].selected = (pf.list[i].id = pf.selectedID)

GoodProfiles == {pf \in ProfilesType : UniqueIds(pf) /\ SelectionAgrees(pf)}

-----------------------------------------------------------------------------
(* Facts about sets of numbers *)

LEMMA LeastNumber ==
  ASSUME NEW P, P \subseteq Nat, P # {}
  PROVE  \E n \in P : \A m \in P : n <= m
<1> DEFINE Less == {ss \in Nat \X Nat : ss[1] < ss[2]}
<1>1. IsWellFoundedOn(Less, Nat)
  BY NatLessThanWellFounded, Zenon DEF OpToRel
<1>2. \A m, n \in Nat : m < n => <<m, n>> \in Less
  OBVIOUS
<1> HIDE DEF Less
<1>3. PICK n \in P : \A m \in P : ~(<<m, n>> \in Less)
  BY <1>1, WFMin
<1>4. \A m \in P : ~(m < n)
  BY <1>2, <1>3
<1>5. ASSUME NEW m \in P PROVE n <= m
  <2>1. m \in Nat /\ n \in Nat /\ ~(m < n)
    BY <1>4
  <2> QED
    BY <2>1
<1> QED
  BY <1>5

\* How many of 1..i are left without d.
LEMMA CountWithout ==
  ASSUME NEW n \in Nat, NEW d \in 1..n, NEW i \in 0..n
  PROVE  Cardinality({j \in 1..n \ {d} : j <= i}) = IF i < d THEN i ELSE i - 1
<1>1. IsFiniteSet(1..i) /\ Cardinality(1..i) = i
  BY FS_Interval
<1>2. CASE i < d
  <2>1. {j \in 1..n \ {d} : j <= i} = 1..i
    BY <1>2
  <2> QED
    BY <1>1, <1>2, <2>1
<1>3. CASE ~(i < d)
  <2>1. {j \in 1..n \ {d} : j <= i} = (1..i) \ {d} /\ d \in 1..i
    BY <1>3
  <2>2. Cardinality((1..i) \ {d}) = i - 1
    BY <1>1, <2>1, FS_RemoveElement
  <2> QED
    BY <1>3, <2>1, <2>2
<1> QED
  BY <1>2, <1>3

\* Deleting an id that occurs once, at d: the later entries move up by one.
LEMMA FilteredIs ==
  ASSUME NEW list \in Seq(Entry), NEW d \in 1..Len(list),
         \A i \in 1..Len(list) : list[i].id = list[d].id => i = d
  PROVE  /\ filtered(list, list[d].id) \in Seq(Entry)
         /\ DOMAIN filtered(list, list[d].id) = 1..(Len(list) - 1)
         /\ \A k \in 1..(Len(list) - 1) :
              filtered(list, list[d].id)[k] = list[IF k < d THEN k ELSE k + 1]
<1> DEFINE n       == Len(list)
           kept    == {i \in DOMAIN list : list[i].id # list[d].id}
           Rank(i) == Cardinality({j \in kept : j <= i})
<1>0. n \in Nat /\ DOMAIN list = 1..n /\ d \in 1..n /\ \A i \in 1..n : list[i] \in Entry
  BY LenProperties, ElementOfSeq
<1>1. kept = (1..n) \ {d}
  BY <1>0
<1>2. Cardinality(kept) = n - 1
  <2>1. IsFiniteSet(1..n) /\ Cardinality(1..n) = n
    BY <1>0, FS_Interval
  <2>2. Cardinality((1..n) \ {d}) = Cardinality(1..n) - 1
    BY <2>1, FS_RemoveElement
  <2> QED
    BY <1>1, <2>1, <2>2
<1>3. \A i \in kept : Rank(i) = IF i < d THEN i ELSE i - 1
  BY <1>0, <1>1, CountWithout
<1>4. filtered(list, list[d].id) = [k \in 1..Cardinality(kept) |-> list[CHOOSE i \in kept : Rank(i) = k]]
  BY DEF filtered
<1> HIDE DEF kept, Rank
<1>5. ASSUME NEW k \in 1..(n - 1)
      PROVE  (CHOOSE i \in kept : Rank(i) = k) = IF k < d THEN k ELSE k + 1
  <2> DEFINE i0 == IF k < d THEN k ELSE k + 1
  <2>1. i0 \in kept /\ i0 \in Nat
    BY <1>0, <1>1
  <2>2. Rank(i0) = k
    BY <1>0, <1>3, <2>1
  <2>3. ASSUME NEW i \in kept, Rank(i) = k PROVE i = i0
    BY <1>0, <1>1, <1>3, <2>3
  <2> HIDE DEF i0
  <2>4. (CHOOSE i \in kept : Rank(i) = k) = i0
    BY <2>1, <2>2, <2>3
  <2> QED
    BY <2>4 DEF i0
<1>6. /\ filtered(list, list[d].id) = [k \in 1..(n - 1) |-> list[IF k < d THEN k ELSE k + 1]]
  BY <1>2, <1>4, <1>5
<1>7. \A k \in 1..(n - 1) : list[IF k < d THEN k ELSE k + 1] \in Entry
  BY <1>0
<1>8. [k \in 1..(n - 1) |-> list[IF k < d THEN k ELSE k + 1]] \in [1..(n - 1) -> Entry] /\ n - 1 \in Nat
  BY <1>0, <1>7
<1>9. filtered(list, list[d].id) \in Seq(Entry)
  BY <1>6, <1>8, SeqDef
<1> QED
  BY <1>6, <1>9
-----------------------------------------------------------------------------
(* What the requests do to a profile list *)

LEMMA ListFacts ==
  ASSUME NEW pf \in ProfilesType
  PROVE  /\ pf.list \in Seq(Entry) /\ Len(pf.list) \in Nat
         /\ DOMAIN pf.list = 1..Len(pf.list)
         /\ \A i \in 1..Len(pf.list) : pf.list[i] \in Entry
         /\ pf.selectedID \in Ids \cup {None}
<1>1. pf.list \in Seq(Entry) /\ pf.selectedID \in Ids \cup {None}
  BY DEF ProfilesType, Entry
<1> QED
  BY <1>1, LenProperties, ElementOfSeq

\* selectProfileByID makes SelectedID and the flags agree, whatever they were.
LEMMA SelectGood ==
  ASSUME NEW pf \in ProfilesType, UniqueIds(pf), NEW id \in Ids
  PROVE  selectProfileByID(pf, id) \in GoodProfiles \cup {Error}
<1>1. CASE id \notin ids(pf)
  BY <1>1 DEF selectProfileByID
<1>2. CASE id \in ids(pf)
  <2> DEFINE n    == Len(pf.list)
             list == [i \in 1..n |-> [pf.list[i] EXCEPT !.selected = (pf.list[i].id = id)]]
             new  == [list |-> list, selectedID |-> id]
  <2>0. n \in Nat /\ DOMAIN pf.list = 1..n /\ \A i \in 1..n : pf.list[i] \in Entry
    BY ListFacts
  <2>1. selectProfileByID(pf, id) = new
    BY <1>2, <2>0 DEF selectProfileByID
  <2>2. \A i \in 1..n : /\ list[i] \in Entry
                        /\ list[i].id = pf.list[i].id
                        /\ list[i].selected = (pf.list[i].id = id)
    BY <2>0 DEF Entry
  <2>3. DOMAIN list = 1..n
    OBVIOUS
  <2>4. list \in Seq(Entry)
    <3>1. list \in [1..n -> Entry]
      BY <2>2, <2>3
    <3> QED
      BY <2>0, <3>1, SeqDef
  <2> HIDE DEF list
  <2>5. new \in ProfilesType
    BY <2>4 DEF ProfilesType, Entry
  <2>6. UniqueIds(new)
    BY <2>0, <2>2, <2>3 DEF UniqueIds
  <2>7. new.selectedID \in ids(new)
    <3>1. PICK i \in 1..n : pf.list[i].id = id
      BY <1>2, <2>0 DEF ids
    <3> QED
      BY <2>2, <2>3, <3>1 DEF ids
  <2>8. SelectionAgrees(new)
    BY <2>2, <2>3, <2>7 DEF SelectionAgrees
  <2> QED
    BY <2>1, <2>5, <2>6, <2>8 DEF GoodProfiles
<1> QED
  BY <1>1, <1>2

LEMMA DeleteGood ==
  ASSUME NEW pf \in GoodProfiles, NEW id \in Ids
  PROVE  DeleteProfile(pf, id) \in GoodProfiles \cup {Error}
<1>0. pf \in ProfilesType /\ UniqueIds(pf) /\ SelectionAgrees(pf)
  BY DEF GoodProfiles
<1>1. CASE id \notin ids(pf)
  BY <1>1 DEF DeleteProfile
<1>2. CASE id \in ids(pf)
  <2> DEFINE n    == Len(pf.list)
             list == filtered(pf.list, id)
             sel  == IF pf.selectedID = id THEN None ELSE pf.selectedID
             new  == [list |-> list, selectedID |-> sel]
  <2>0. /\ n \in Nat /\ DOMAIN pf.list = 1..n /\ pf.list \in Seq(Entry)
        /\ \A i \in 1..n : pf.list[i] \in Entry
        /\ pf.selectedID \in Ids \cup {None}
    BY <1>0, ListFacts
  <2>1. DeleteProfile(pf, id) = new
    BY <1>2 DEF DeleteProfile
  <2>2. PICK d \in 1..n : pf.list[d].id = id
    BY <1>2, <2>0 DEF ids
  <2>3. \A i \in 1..n : pf.list[i].id = id => i = d
    BY <1>0, <2>0, <2>2 DEF UniqueIds
  <2>4. /\ list \in Seq(Entry) /\ DOMAIN list = 1..(n - 1)
        /\ \A k \in 1..(n - 1) : list[k] = pf.list[IF k < d THEN k ELSE k + 1]
    BY <2>0, <2>2, <2>3, FilteredIs
  <2> HIDE DEF list
  <2>5. \A k \in 1..(n - 1) : (IF k < d THEN k ELSE k + 1) \in (1..n) \ {d}
    BY <2>0
  <2>6. new \in ProfilesType
    BY <2>0, <2>4 DEF ProfilesType, Entry
  <2>7. UniqueIds(new)
    <3> SUFFICES ASSUME NEW j \in 1..(n - 1), NEW k \in 1..(n - 1), list[j].id = list[k].id
                 PROVE  j = k
      BY <2>4 DEF UniqueIds
    <3> DEFINE a == IF j < d THEN j ELSE j + 1
               b == IF k < d THEN k ELSE k + 1
    <3>1. a \in 1..n /\ b \in 1..n /\ list[j] = pf.list[a] /\ list[k] = pf.list[b]
      BY <2>4, <2>5
    <3> HIDE DEF a, b
    <3>2. a = b
      BY <1>0, <2>0, <3>1 DEF UniqueIds
    <3> QED
      BY <2>0, <3>2 DEF a, b
  <2>8. \A k \in 1..(n - 1) : list[k].id # id
    BY <2>3, <2>4, <2>5
  <2>9. sel \in ids(new) \cup {None}
    <3>1. CASE pf.selectedID \in {id, None}
      BY <3>1
    <3>2. CASE pf.selectedID \notin {id, None}
      <4>1. PICK i \in 1..n : pf.list[i].id = pf.selectedID
        BY <1>0, <2>0, <3>2 DEF SelectionAgrees, ids
      <4>2. i # d
        BY <2>2, <3>2, <4>1
      <4>3. PICK k \in 1..(n - 1) : (IF k < d THEN k ELSE k + 1) = i
        <5>1. CASE i < d
          <6>1. i \in 1..(n - 1)
            BY <2>0, <5>1
          <6> QED
            BY <5>1, <6>1
        <5>2. CASE i > d
          <6>1. i - 1 \in 1..(n - 1) /\ (i - 1) + 1 = i /\ ~(i - 1 < d)
            BY <2>0, <5>2
          <6> QED
            BY <6>1
        <5> QED
          BY <2>0, <4>2, <5>1, <5>2
      <4>4. list[k].id = pf.selectedID
        BY <2>4, <4>1, <4>3
      <4> QED
        BY <2>4, <3>2, <4>4 DEF ids
    <3> QED
      BY <3>1, <3>2
  <2>10. ASSUME NEW k \in 1..(n - 1) PROVE list[k].selected = (list[k].id = sel)
    <3>1. list[k].selected = (list[k].id = pf.selectedID)
      <4> DEFINE a == IF k < d THEN k ELSE k + 1
      <4>1. a \in 1..n /\ list[k] = pf.list[a]
        BY <2>4, <2>5
      <4> HIDE DEF a
      <4> QED
        BY <1>0, <2>0, <4>1 DEF SelectionAgrees
    <3>2. list[k].id # id /\ list[k].id # None
      <4>1. list[k] \in Entry
        BY <2>0, <2>4, <2>5
      <4> QED
        BY <2>8, <4>1, StoreAssumption DEF Entry, Ids, None, StoreAssumption
    <3> QED
      BY <3>1, <3>2
  <2>11. SelectionAgrees(new)
    BY <2>4, <2>9, <2>10 DEF SelectionAgrees
  <2> QED
    BY <2>1, <2>6, <2>7, <2>11 DEF GoodProfiles
<1> QED
  BY <1>1, <1>2

LEMMA UniqueIDFree ==
  ASSUME NEW pf, Ids \ ids(pf) # {}
  PROVE  uniqueProfileID(pf) \in Ids \ ids(pf)
<1>1. Ids \ ids(pf) \subseteq Nat
  BY DEF Ids
<1>2. \E i \in Ids \ ids(pf) : \A j \in Ids \ ids(pf) : i <= j
  BY <1>1, LeastNumber
<1> QED
  BY <1>2 DEF uniqueProfileID

LEMMA UpsertGood ==
  ASSUME NEW pf \in GoodProfiles, NEW id \in Ids \cup {None}, NEW select \in BOOLEAN
  PROVE  upsertProfile(pf, id, select) \in GoodProfiles \cup {Error}
<1>0. pf \in ProfilesType /\ UniqueIds(pf) /\ SelectionAgrees(pf)
  BY DEF GoodProfiles
<1>1. CASE id = None /\ ids(pf) = Ids
  BY <1>1 DEF upsertProfile
<1>2. CASE ~(id = None /\ ids(pf) = Ids)
  <2> DEFINE n     == Len(pf.list)
             new   == IF id = None THEN uniqueProfileID(pf) ELSE id
             prof  == [id |-> new, selected |-> FALSE]
             repl  == [i \in DOMAIN pf.list |-> IF pf.list[i].id = new THEN prof ELSE pf.list[i]]
             list  == IF new \in ids(pf) THEN repl ELSE Append(pf.list, prof)
             saved == [pf EXCEPT !.list = list]
  <2>0. /\ n \in Nat /\ DOMAIN pf.list = 1..n /\ pf.list \in Seq(Entry)
        /\ \A i \in 1..n : pf.list[i] \in Entry
        /\ pf.selectedID \in Ids \cup {None}
    BY <1>0, ListFacts
  <2>1. upsertProfile(pf, id, select) =
          IF select \/ pf.selectedID \in {None, new} THEN selectProfileByID(saved, new) ELSE saved
    BY <1>2 DEF upsertProfile
  <2>2. new \in Ids
    <3>1. CASE id = None
      <4>1. ids(pf) \subseteq Ids
        BY <2>0 DEF ids, Entry
      <4>2. Ids \ ids(pf) # {}
        BY <1>2, <3>1, <4>1
      <4> QED
        BY <3>1, <4>2, UniqueIDFree
    <3>2. CASE id # None
      BY <3>2
    <3> QED
      BY <3>1, <3>2
  <2> HIDE DEF new
  <2>3. prof \in Entry /\ prof.id = new /\ prof.selected = FALSE
    BY <2>2 DEF Entry
  <2> HIDE DEF prof
  <2>4. PICK m \in {n, n + 1} :
          /\ list \in Seq(Entry) /\ DOMAIN list = 1..m
          /\ \A i \in 1..m : /\ i <= n => list[i] = IF pf.list[i].id = new THEN prof ELSE pf.list[i]
                             /\ i = n + 1 => list[i] = prof
          /\ m = n + 1 => new \notin ids(pf)
    <3>1. CASE new \in ids(pf)
      <4>1. repl \in [1..n -> Entry]
        BY <2>0, <2>3
      <4>2. repl \in Seq(Entry)
        BY <2>0, <4>1, SeqDef
      <4>3. list = repl
        BY <3>1
      <4>4. n # n + 1 /\ \A i \in 1..n : i # n + 1
        BY <2>0
      <4>5. \A i \in 1..n : repl[i] = IF pf.list[i].id = new THEN prof ELSE pf.list[i]
        BY <2>0
      <4> HIDE DEF repl, list
      <4> QED
        BY <2>0, <4>1, <4>2, <4>3, <4>4, <4>5
    <3>2. CASE new \notin ids(pf)
      <4>1. list = Append(pf.list, prof)
        BY <3>2
      <4>2. /\ list \in Seq(Entry) /\ DOMAIN list = 1..(n + 1)
            /\ \A i \in 1..(n + 1) : list[i] = IF i = n + 1 THEN prof ELSE pf.list[i]
        BY <2>0, <2>3, <4>1
      <4>3. \A i \in 1..n : pf.list[i].id # new
        BY <2>0, <3>2 DEF ids
      <4>4. \A i \in 1..(n + 1) : /\ i <= n => list[i] = IF pf.list[i].id = new THEN prof ELSE pf.list[i]
                                  /\ i = n + 1 => list[i] = prof
        BY <2>0, <4>2, <4>3
      <4> HIDE DEF list
      <4> QED
        BY <3>2, <4>2, <4>4
    <3> QED
      BY <3>1, <3>2
  <2> HIDE DEF list
  <2>5. /\ saved \in ProfilesType /\ saved.list = list /\ saved.selectedID = pf.selectedID
    BY <1>0, <2>4 DEF ProfilesType, Entry
  <2> HIDE DEF saved
  <2>6. /\ \A i \in 1..m : i \in Nat /\ (i <= n \/ i = n + 1)
        /\ \A i \in 1..n : i \in 1..m /\ i <= n
        /\ \A i \in 1..m : i <= n => i \in 1..n
    BY <2>0, <2>4
  <2>7. \A i \in 1..m : i <= n => list[i].id = pf.list[i].id
    BY <2>3, <2>4
  <2>8. UniqueIds(saved)
    <3> SUFFICES ASSUME NEW i \in 1..m, NEW j \in 1..m, list[i].id = list[j].id
                 PROVE  i = j
      BY <2>4, <2>5 DEF UniqueIds
    <3>1. CASE i <= n /\ j <= n
      BY <1>0, <2>0, <2>6, <2>7, <3>1 DEF UniqueIds
    <3>2. CASE i = n + 1 /\ j = n + 1
      BY <3>2
    <3>3. ASSUME NEW a \in 1..m, NEW b \in 1..m, a <= n, b = n + 1 PROVE list[a].id # list[b].id
      <4>1. m = n + 1 /\ new \notin ids(pf) /\ list[b].id = new
        BY <2>0, <2>3, <2>4, <3>3
      <4>2. pf.list[a].id # new
        BY <2>0, <2>6, <3>3, <4>1 DEF ids
      <4> QED
        BY <2>7, <3>3, <4>1, <4>2
    <3> QED
      BY <2>6, <3>1, <3>2, <3>3
  <2>9. CASE select \/ pf.selectedID \in {None, new}
    BY <2>1, <2>2, <2>5, <2>8, <2>9, SelectGood
  <2>10. CASE ~(select \/ pf.selectedID \in {None, new})
    <3>1. PICK i \in 1..n : pf.list[i].id = pf.selectedID
      BY <1>0, <2>0, <2>10 DEF SelectionAgrees, ids
    <3>2. saved.selectedID \in ids(saved)
      BY <2>4, <2>5, <2>6, <2>7, <3>1 DEF ids
    <3>3. ASSUME NEW k \in 1..m PROVE list[k].selected = (list[k].id = pf.selectedID)
      <4>1. CASE list[k] = prof
        BY <2>3, <2>10, <4>1
      <4>2. CASE k \in 1..n /\ list[k] = pf.list[k]
        BY <1>0, <2>0, <4>2 DEF SelectionAgrees
      <4> QED
        BY <2>4, <2>6, <4>1, <4>2
    <3>4. SelectionAgrees(saved)
      BY <2>4, <2>5, <3>2, <3>3 DEF SelectionAgrees
    <3> QED
      BY <2>1, <2>5, <2>8, <2>10, <3>4 DEF GoodProfiles
  <2> QED
    BY <2>9, <2>10
<1> QED
  BY <1>1, <1>2
-----------------------------------------------------------------------------
(* The handlers *)

\* What a file may hold.
Good(f) == IF f = "config" THEN ConfigType ELSE GoodProfiles

LEMMA ApplyIs ==
  ASSUME NEW r, NEW c
  PROVE  /\ r.op = "patch"  => Apply(r, c) = [c EXCEPT ![r.field] = r.value]
         /\ r.op = "select" => Apply(r, c) = selectProfileByID(c, r.id)
         /\ r.op = "delete" => Apply(r, c) = DeleteProfile(c, r.id)
         /\ r.op = "save"   => Apply(r, c) = upsertProfile(c, r.id, r.select)
BY Zenon DEF Apply

LEMMA ApplyGood ==
  ASSUME NEW r \in RequestType, NEW c \in Good(FileOf(r))
  PROVE  Apply(r, c) \in Good(FileOf(r)) \cup {Error}
<1>1. CASE r \in [op : {"patch"}, field : Fields, value : BOOLEAN]
  <2>1. r.op = "patch" /\ r.field \in Fields /\ r.value \in BOOLEAN
    BY <1>1
  <2>2. Good(FileOf(r)) = ConfigType
    BY <2>1 DEF Good, FileOf
  <2>3. [c EXCEPT ![r.field] = r.value] \in ConfigType
    BY <2>1, <2>2 DEF ConfigType
  <2> QED
    BY <2>1, <2>2, <2>3, ApplyIs
<1>2. CASE r \in [op : {"select", "delete"}, id : Ids]
  <2>1. r.op \in {"select", "delete"} /\ r.id \in Ids
    BY <1>2
  <2>2. Good(FileOf(r)) = GoodProfiles
    BY <2>1 DEF Good, FileOf
  <2>3. c \in ProfilesType /\ UniqueIds(c) /\ c \in GoodProfiles
    BY <2>2 DEF GoodProfiles
  <2>4. selectProfileByID(c, r.id) \in GoodProfiles \cup {Error}
    BY <2>1, <2>3, SelectGood
  <2>5. DeleteProfile(c, r.id) \in GoodProfiles \cup {Error}
    BY <2>1, <2>3, DeleteGood
  <2> QED
    BY <2>1, <2>2, <2>4, <2>5, ApplyIs
<1>3. CASE r \in [op : {"save"}, id : Ids \cup {None}, select : BOOLEAN]
  <2>1. r.op = "save" /\ r.id \in Ids \cup {None} /\ r.select \in BOOLEAN
    BY <1>3
  <2>2. Good(FileOf(r)) = GoodProfiles
    BY <2>1 DEF Good, FileOf
  <2>3. upsertProfile(c, r.id, r.select) \in GoodProfiles \cup {Error}
    BY <2>1, <2>2, UpsertGood
  <2> QED
    BY <2>1, <2>2, <2>3, ApplyIs
<1> QED
  BY <1>1, <1>2, <1>3 DEF RequestType

LEMMA GoodIsWhole ==
  ASSUME NEW f \in Files
  PROVE  Torn \notin Good(f) /\ Absent \notin Good(f) /\ Error \notin Good(f)
BY StoreAssumption DEF StoreAssumption, Good, GoodProfiles, Files

\* A descriptor that was not taken over writes what it was given.
LEMMA OverTorn ==
  ASSUME NEW f \in Files, NEW c \in Good(f)
  PROVE  Over(f, Torn, c) = c
<1>1. Size(f, Torn) = 0
  BY DEF Size
<1>2. CASE f = "profiles"
  BY <1>1, <1>2 DEF Over, Size
<1>3. CASE f = "config"
  <2>1. IsFiniteSet({x \in Fields : ~c[x]})
    BY StoreAssumption, FS_Subset DEF StoreAssumption
  <2>2. Cardinality({x \in Fields : ~c[x]}) \in Nat
    BY <2>1, FS_CardinalityType
  <2>3. c # Torn
    BY GoodIsWhole
  <2>4. Size(f, c) \in Nat
    BY <1>3, <2>2, <2>3 DEF Size
  <2> QED
    BY <1>1, <2>4 DEF Over
<1> QED
  BY <1>2, <1>3 DEF Files

\* Handler h is between its read of file f and its answer.
On(h, f) == at[h] \notin {"idle", "read"} /\ FileOf(req[h]) = f

Places == {"idle", "read", "open", "write", "rename", "publish", "fail"}

Shape ==
  /\ DOMAIN disk = Files /\ DOMAIN tmp = Files /\ DOMAIN mem = Files /\ DOMAIN acked = Files
  /\ DOMAIN req = Handlers /\ DOMAIN next = Handlers
  /\ profileMu \in Handlers \cup {Nobody}
  /\ at \in [Handlers -> Places]
  /\ fd \in [Handlers -> {"none", "tmp", "file", "gone"}]
  /\ served \in 0..MaxRequests

\* Who may be where: a handler serves one of its requests, nobody runs in a dead
\* daemon, who saves profiles holds profileMu, and only a writer has a descriptor.
Discipline ==
  /\ \A h \in Handlers : at[h] # "idle" => \E r \in Requests : r[1] = h /\ r[2] = req[h]
  /\ \A h \in Handlers : at[h] = "idle" => req[h] = NoRequest
  /\ \A h \in Handlers : at[h] # "idle" => up
  /\ \A h \in Handlers : On(h, "profiles") => profileMu = h
  /\ \A h \in Handlers : fd[h] # "none" => at[h] = "write"

\* The file and memory are what was acknowledged.
Settled(f) == disk[f] = acked[f] /\ (up => mem[f] = acked[f])

\* How far handler h has come with file f.
Saving(h, f) ==
  /\ mem[f] = acked[f]
  /\ at[h] # "publish" => disk[f] = acked[f]
  /\ at[h] # "fail" => next[h] = Apply(req[h], acked[f]) /\ next[h] \in Good(f)
  /\ at[h] = "write" => tmp[f] = Torn /\ fd[h] = "tmp"
  /\ at[h] = "rename" => tmp[f] = next[h]
  /\ at[h] = "publish" => disk[f] = next[h]

Contents(f) ==
  /\ disk[f] \in Good(f) /\ acked[f] \in Good(f) /\ mem[f] \in Good(f)
  /\ tmp[f] \in Good(f) \cup {Torn, Absent}

FileState(f) ==
  /\ Contents(f)
  /\ \A h \in Handlers : On(h, f) => Saving(h, f)
  /\ (\A h \in Handlers : ~On(h, f)) => Settled(f)

\* As long as no two patches overlapped, one handler at most serves one.
Patching(h) == at[h] # "idle" /\ FileOf(req[h]) = "config"
Calm == ~clashed => \A g, h \in Handlers : Patching(g) /\ Patching(h) => g = h

\* Whatever overlaps, the configuration is one, or does not parse.
ConfigTyped ==
  /\ mem["config"] \in ConfigType /\ acked["config"] \in ConfigType
  /\ disk["config"] \in ConfigType \cup {Torn}
  /\ tmp["config"] \in ConfigType \cup {Torn, Absent}
  /\ \A h \in Handlers : On(h, "config") => next[h] \in ConfigType

IInv ==
  /\ up \in BOOLEAN /\ Shape /\ Discipline
  /\ clashed \in BOOLEAN /\ Calm /\ ConfigTyped
  /\ \A f \in Files : OneWriter(f) => FileState(f)

-----------------------------------------------------------------------------
LEMMA InitialGood == Initial["config"] \in Good("config") /\ Initial["profiles"] \in Good("profiles")
<1>1. [f \in Fields |-> FALSE] \in ConfigType
  BY DEF ConfigType
<1> DEFINE e == [id |-> 1, selected |-> TRUE]
<1>2. InitialProfiles.list = <<e>> /\ InitialProfiles.selectedID = 1
  BY DEF InitialProfiles
<1>3. 1 \in Ids
  BY StoreAssumption DEF StoreAssumption, Ids
<1>4. e \in Entry /\ e.id = 1 /\ e.selected = TRUE
  BY <1>3 DEF Entry
<1>5. InitialProfiles = [list |-> <<e>>, selectedID |-> 1]
  BY DEF InitialProfiles
<1> HIDE DEF e
<1>6. <<e>> \in Seq(Entry) /\ DOMAIN <<e>> = {1} /\ <<e>>[1] = e
  BY <1>4
<1>7. InitialProfiles \in ProfilesType
  BY <1>3, <1>5, <1>6 DEF ProfilesType, Entry
<1>8. UniqueIds(InitialProfiles)
  BY <1>2, <1>6 DEF UniqueIds
<1>9. SelectionAgrees(InitialProfiles)
  BY <1>2, <1>4, <1>6 DEF SelectionAgrees, ids
<1> QED
  BY <1>1, <1>7, <1>8, <1>9 DEF Initial, Good, GoodProfiles

LEMMA InitInv == Init => IInv
<1> SUFFICES ASSUME Init PROVE IInv
  OBVIOUS
<1>1. up \in BOOLEAN
  BY DEF Init
<1>2. Shape
  BY StoreAssumption DEF Init, Shape, Initial, Files, Places, StoreAssumption
<1>3. Discipline
  BY DEF Init, Discipline, On
<1>4. ASSUME NEW f \in Files PROVE FileState(f)
  <2>1. Initial[f] \in Good(f)
    BY InitialGood DEF Files
  <2>2. Contents(f)
    BY <2>1 DEF Init, Contents
  <2> QED
    BY <2>2 DEF Init, FileState, On, Settled
<1>5. clashed = FALSE /\ Calm
  BY DEF Init, Calm, Patching
<1>6. ConfigTyped
  BY InitialGood DEF Init, ConfigTyped, On, Files, Good
<1> QED
  BY <1>1, <1>2, <1>3, <1>4, <1>5, <1>6 DEF IInv
-----------------------------------------------------------------------------
(* Shape and Discipline are kept *)

LEMMA RequestsTyped ==
  ASSUME Discipline, NEW h \in Handlers
  PROVE  /\ at[h] # "idle" => req[h] \in RequestType
         /\ FileOf(req[h]) \in Files
BY StoreAssumption DEF StoreAssumption, Discipline, FileOf, Files

LEMMA ShapeStep == Shape /\ [Next]_vars => Shape'
<1> SUFFICES ASSUME Shape, [Next]_vars PROVE Shape'
  OBVIOUS
<1> USE DEF Shape, Places
<1>1. CASE UNCHANGED vars
  BY <1>1 DEF vars
<1>2. CASE Killed
  BY <1>2 DEF Killed
<1>3. CASE Boot \/ LoadProfiles
  BY <1>3 DEF Boot, LoadProfiles
<1>4. ASSUME NEW h \in Handlers, Begin(h) \/ Handle(h) \/ WriteFails(h) PROVE Shape'
  <2>1. CASE Begin(h)
    BY <2>1, StoreAssumption DEF Begin, Go, StoreAssumption
  <2>2. CASE ReadSettings(h)
    BY <2>2 DEF ReadSettings
  <2>3. CASE OpenTmp(h)
    BY <2>3 DEF OpenTmp, Go
  <2>4. CASE WriteTmp(h)
    BY <2>4 DEF WriteTmp, Go
  <2>5. CASE Rename(h)
    BY <2>5 DEF Rename
  <2>6. CASE Publish(h) \/ Fail(h)
    BY <2>6 DEF Publish, Fail, Finish, Go
  <2>7. CASE WriteFails(h)
    BY <2>7 DEF WriteFails, Go
  <2> QED
    BY <1>4, <2>1, <2>2, <2>3, <2>4, <2>5, <2>6, <2>7 DEF Handle
<1> QED
  BY <1>1, <1>2, <1>3, <1>4 DEF Next

LEMMA DisciplineStep == Shape /\ Discipline /\ [Next]_vars => Discipline'
<1> SUFFICES ASSUME Shape, Discipline, [Next]_vars PROVE Discipline'
  OBVIOUS
<1> USE DEF Discipline, On
<1>1. CASE UNCHANGED vars
  BY <1>1 DEF vars
<1>2. CASE Killed
  BY <1>2 DEF Killed
<1>3. CASE Boot
  BY <1>3 DEF Boot
<1>4. CASE LoadProfiles
  BY <1>4 DEF LoadProfiles
<1>5. ASSUME NEW h \in Handlers, Begin(h) PROVE Discipline'
  BY <1>5 DEF Begin, Go, Shape
<1>6. ASSUME NEW h \in Handlers, ReadSettings(h) PROVE Discipline'
  <2>1. /\ up /\ at[h] = "read" /\ UNCHANGED <<up, req, fd>>
        /\ at' = [at EXCEPT ![h] = at'[h]] /\ at'[h] \in {"fail", "open"}
        /\ FileOf(req[h]) = "profiles" => profileMu = Nobody
        /\ profileMu' = IF FileOf(req[h]) = "profiles" THEN h ELSE profileMu
    BY <1>6 DEF ReadSettings, Shape
  <2>2. Nobody \notin Handlers
    BY StoreAssumption DEF StoreAssumption, Nobody
  <2> QED
    BY <2>1, <2>2 DEF Shape
<1>7. ASSUME NEW h \in Handlers, OpenTmp(h) \/ WriteTmp(h) \/ WriteFails(h) PROVE Discipline'
  <2>1. CASE OpenTmp(h)
    BY <2>1 DEF OpenTmp, Go, Shape
  <2>2. CASE WriteTmp(h)
    BY <2>2 DEF WriteTmp, Go, Shape
  <2>3. CASE WriteFails(h)
    BY <2>3 DEF WriteFails, Go, Shape
  <2> QED
    BY <1>7, <2>1, <2>2, <2>3
<1>8. ASSUME NEW h \in Handlers, Rename(h) PROVE Discipline'
  <2>1. /\ up /\ at[h] = "rename" /\ UNCHANGED <<up, req, profileMu>>
        /\ at' = [at EXCEPT ![h] = at'[h]] /\ at'[h] \in {"fail", "publish"}
    BY <1>8 DEF Rename, Shape
  <2>2. \A g \in Handlers : fd'[g] # "none" => fd[g] # "none"
    BY <1>8 DEF Rename
  <2> QED
    BY <2>1, <2>2 DEF Shape
<1>9. ASSUME NEW h \in Handlers, Publish(h) \/ Fail(h) PROVE Discipline'
  <2>1. /\ UNCHANGED <<up, fd>> /\ at[h] \in {"publish", "fail"}
        /\ at' = [at EXCEPT ![h] = "idle"] /\ req' = [req EXCEPT ![h] = NoRequest]
        /\ profileMu' = IF profileMu = h THEN Nobody ELSE profileMu
    BY <1>9 DEF Publish, Fail, Finish, Go
  <2> QED
    BY <2>1 DEF Shape
<1> QED
  BY <1>1, <1>2, <1>3, <1>4, <1>5, <1>6, <1>7, <1>8, <1>9 DEF Next, Handle

\* Only Begin adds one that serves a patch, and records it if there was one.
LEMMA CalmStep ==
  ASSUME Shape, Discipline, Calm, clashed \in BOOLEAN, [Next]_vars
  PROVE  Calm' /\ clashed' \in BOOLEAN /\ (clashed => clashed')
<1>1. CASE UNCHANGED vars
  BY <1>1 DEF vars, Calm, Patching
<1>2. CASE Killed
  BY <1>2 DEF Killed, Calm, Patching
<1>3. CASE Boot \/ LoadProfiles
  BY <1>3 DEF Boot, LoadProfiles, Calm, Patching
<1>4. ASSUME NEW h \in Handlers, Begin(h)
      PROVE  Calm' /\ clashed' \in BOOLEAN /\ (clashed => clashed')
  <2>1. PICK r \in Requests :
          /\ r[1] = h /\ req' = [req EXCEPT ![h] = r[2]]
          /\ clashed' = (clashed \/ (FileOf(r[2]) = "config" /\ Busy("config")))
    BY <1>4 DEF Begin
  <2>2. clashed' \in BOOLEAN /\ (clashed => clashed')
    BY <2>1
  <2>3. at[h] = "idle" /\ at' = [at EXCEPT ![h] = "read"] /\ at'[h] = "read" /\ req'[h] = r[2]
        /\ \A g \in Handlers \ {h} : at'[g] = at[g] /\ req'[g] = req[g]
    BY <1>4, <2>1 DEF Begin, Go, Shape
  <2>4. \A g \in Handlers \ {h} : Patching(g)' => Patching(g)
    BY <2>3 DEF Patching
  <2>5. ASSUME NEW g \in Handlers \ {h}, ~clashed', Patching(h)', Patching(g)' PROVE FALSE
    <3>1. FileOf(r[2]) = "config"
      BY <2>3, <2>5 DEF Patching
    <3>2. Busy("config")
      BY <2>4, <2>5 DEF Patching, Busy
    <3> QED
      BY <2>1, <2>5, <3>1, <3>2
  <2> QED
    BY <2>2, <2>4, <2>5 DEF Calm
<1>5. ASSUME NEW h \in Handlers, Handle(h) \/ WriteFails(h)
      PROVE  Calm' /\ clashed' \in BOOLEAN /\ (clashed => clashed')
  <2>1. clashed' = clashed
    BY <1>5 DEF Handle, ReadSettings, OpenTmp, WriteTmp, WriteFails, Rename, Publish, Fail
  <2>2. at[h] # "idle"
    BY <1>5 DEF Handle, ReadSettings, OpenTmp, WriteTmp, WriteFails, Rename, Publish, Fail, Go
  <2>3. \A g \in Handlers \ {h} : at'[g] = at[g] /\ req'[g] = req[g]
    BY <1>5 DEF Handle, ReadSettings, OpenTmp, WriteTmp, WriteFails, Rename, Publish, Fail, Finish, Go, Shape
  <2>4. req'[h] = req[h] \/ at'[h] = "idle"
    BY <1>5 DEF Handle, ReadSettings, OpenTmp, WriteTmp, WriteFails, Rename, Publish, Fail, Go, Shape
  <2>5. \A g \in Handlers : Patching(g)' => Patching(g)
    BY <2>2, <2>3, <2>4 DEF Patching
  <2> QED
    BY <2>1, <2>5 DEF Calm
<1> QED
  BY <1>1, <1>2, <1>3, <1>4, <1>5 DEF Next

\* A patch turns a configuration into one.
LEMMA PatchTyped ==
  ASSUME Discipline, NEW h \in Handlers, at[h] # "idle", FileOf(req[h]) = "config",
         NEW c \in ConfigType
  PROVE  Apply(req[h], c) \in ConfigType
<1>1. req[h] \in RequestType /\ req[h].op = "patch"
  BY RequestsTyped DEF FileOf
<1>2. req[h].field \in Fields /\ req[h].value \in BOOLEAN
  BY <1>1 DEF RequestType
<1>3. Apply(req[h], c) = [c EXCEPT ![req[h].field] = req[h].value]
  BY <1>1, ApplyIs
<1> QED
  BY <1>2, <1>3 DEF ConfigType

LEMMA ConfigTypedStep ==
  ASSUME Shape, Discipline, ConfigTyped, [Next]_vars
  PROVE  ConfigTyped'
<1>0. "config" \in Files /\ "profiles" \in Files
  BY DEF Files
<1>1. CASE UNCHANGED vars
  BY <1>1 DEF vars, ConfigTyped, On
<1>2. CASE Killed
  <2>1. acked'["config"] \in ConfigType
    <3>1. acked'["config"] = IF Renamed("config") = {} THEN acked["config"]
             ELSE Apply(req[CHOOSE h \in Renamed("config") : TRUE], acked["config"])
      BY <1>0, <1>2 DEF Killed
    <3>2. CASE Renamed("config") = {}
      BY <3>1, <3>2 DEF ConfigTyped
    <3>3. CASE Renamed("config") # {}
      <4>1. PICK h \in Renamed("config") : h = CHOOSE g \in Renamed("config") : TRUE
        BY <3>3
      <4>2. h \in Handlers /\ at[h] # "idle" /\ FileOf(req[h]) = "config"
        BY <4>1 DEF Renamed
      <4> QED
        BY <3>1, <3>3, <4>1, <4>2, PatchTyped DEF ConfigTyped
    <3> QED
      BY <3>2, <3>3
  <2>2. /\ \A h \in Handlers : at'[h] = "idle"
        /\ UNCHANGED <<disk, tmp, mem>>
    BY <1>2 DEF Killed
  <2> QED
    BY <2>1, <2>2 DEF ConfigTyped, On
<1>3. CASE Boot
  <2>1. /\ mem' = disk /\ disk["config"] # Torn /\ UNCHANGED <<disk, tmp, at, req, next, acked>>
    BY <1>0, <1>3 DEF Boot
  <2> QED
    BY <2>1 DEF ConfigTyped, On
<1>4. CASE LoadProfiles
  <2>1. /\ mem'["config"] = mem["config"] /\ UNCHANGED <<disk, tmp, at, req, next, acked>>
    BY <1>0, <1>4 DEF LoadProfiles, Shape
  <2> QED
    BY <2>1 DEF ConfigTyped, On
<1>5. ASSUME NEW h \in Handlers, Begin(h) PROVE ConfigTyped'
  <2>1. /\ UNCHANGED <<disk, tmp, mem, next, acked>> /\ at'[h] = "read"
        /\ \A g \in Handlers \ {h} : at'[g] = at[g] /\ req'[g] = req[g]
    BY <1>5 DEF Begin, Go, Shape
  <2> QED
    BY <2>1 DEF ConfigTyped, On
<1>6. ASSUME NEW h \in Handlers, ReadSettings(h) PROVE ConfigTyped'
  <2>1. /\ UNCHANGED <<disk, tmp, mem, req, acked>> /\ at[h] = "read"
        /\ \A g \in Handlers \ {h} : at'[g] = at[g] /\ next'[g] = next[g]
    BY <1>6 DEF ReadSettings, Shape
  <2>2. FileOf(req[h]) = "config" => next'[h] = Apply(req[h], mem["config"])
    BY <1>6 DEF ReadSettings, Shape
  <2>3. FileOf(req[h]) = "config" => next'[h] \in ConfigType
    BY <2>1, <2>2, PatchTyped DEF ConfigTyped
  <2> QED
    BY <2>1, <2>3 DEF ConfigTyped, On
<1>7. ASSUME NEW h \in Handlers, OpenTmp(h) \/ WriteTmp(h) \/ WriteFails(h) \/ Rename(h)
      PROVE  ConfigTyped'
  <2>1. /\ UNCHANGED <<mem, req, next, acked>> /\ at[h] \notin {"idle", "read"}
        /\ \A g \in Handlers \ {h} : at'[g] = at[g]
    BY <1>7 DEF OpenTmp, WriteTmp, WriteFails, Rename, Go, Shape
  <2>2. \A g \in Handlers : On(g, "config")' => On(g, "config")
    BY <2>1 DEF On
  <2>3. FileOf(req[h]) = "config" => next[h] \in ConfigType
    BY <2>1 DEF ConfigTyped, On
  <2>4. tmp'["config"] \in ConfigType \cup {Torn, Absent} /\ disk'["config"] \in ConfigType \cup {Torn}
    <3>1. CASE FileOf(req[h]) # "config"
      <4>1. tmp'["config"] = tmp["config"] /\ disk'["config"] = disk["config"]
        <5>1. CASE OpenTmp(h)
          BY <3>1, <5>1 DEF OpenTmp, Shape
        <5>2. CASE WriteTmp(h)
          BY <3>1, <5>2 DEF WriteTmp, Shape
        <5>3. CASE WriteFails(h)
          BY <5>3 DEF WriteFails
        <5>4. CASE Rename(h)
          <6>1. CASE tmp[FileOf(req[h])] = Absent
            BY <5>4, <6>1 DEF Rename
          <6>2. CASE tmp[FileOf(req[h])] # Absent
            <7>1. /\ disk' = [disk EXCEPT ![FileOf(req[h])] = tmp[FileOf(req[h])]]
                  /\ tmp' = [tmp EXCEPT ![FileOf(req[h])] = Absent]
              BY <5>4, <6>2 DEF Rename
            <7> QED
              BY <1>0, <3>1, <7>1 DEF Shape
          <6> QED
            BY <6>1, <6>2
        <5> QED
          BY <1>7, <5>1, <5>2, <5>3, <5>4
      <4> QED
        BY <4>1 DEF ConfigTyped
    <3>2. CASE FileOf(req[h]) = "config" /\ OpenTmp(h)
      BY <1>0, <3>2 DEF OpenTmp, Shape, ConfigTyped
    <3>3. CASE FileOf(req[h]) = "config" /\ WriteTmp(h)
      <4>1. \A old : Over("config", old, next[h]) \in {Torn, next[h]}
        BY DEF Over
      <4>2. /\ tmp' = [tmp EXCEPT !["config"] = Over("config", @, next[h])] \/ tmp' = tmp
            /\ disk' = [disk EXCEPT !["config"] = Over("config", @, next[h])] \/ disk' = disk
        BY <3>3 DEF WriteTmp
      <4> QED
        BY <1>0, <2>3, <3>3, <4>1, <4>2 DEF ConfigTyped, Shape
    <3>4. CASE WriteFails(h)
      BY <3>4 DEF WriteFails, ConfigTyped
    <3>5. CASE FileOf(req[h]) = "config" /\ Rename(h)
      BY <1>0, <3>5 DEF Rename, Shape, ConfigTyped
    <3> QED
      BY <1>7, <3>1, <3>2, <3>3, <3>4, <3>5
  <2> QED
    BY <2>1, <2>2, <2>4 DEF ConfigTyped
<1>8. ASSUME NEW h \in Handlers, Publish(h) \/ Fail(h) PROVE ConfigTyped'
  <2>1. /\ UNCHANGED <<disk, tmp>> /\ at'[h] = "idle" /\ at[h] \in {"publish", "fail"}
        /\ \A g \in Handlers \ {h} : at'[g] = at[g] /\ req'[g] = req[g] /\ next'[g] = next[g]
    BY <1>8 DEF Publish, Fail, Finish, Go, Shape
  <2>2. \A g \in Handlers : On(g, "config")' => next'[g] \in ConfigType
    BY <2>1 DEF ConfigTyped, On
  <2>3. CASE FileOf(req[h]) = "config" /\ Publish(h)
    <3>1. mem'["config"] = next[h] /\ acked'["config"] = Apply(req[h], acked["config"])
      BY <1>0, <2>3 DEF Publish, Shape
    <3>2. next[h] \in ConfigType /\ Apply(req[h], acked["config"]) \in ConfigType
      BY <2>1, <2>3, PatchTyped DEF ConfigTyped, On
    <3> QED
      BY <2>1, <2>2, <3>1, <3>2 DEF ConfigTyped
  <2>4. CASE FileOf(req[h]) # "config" \/ Fail(h)
    <3>1. mem'["config"] = mem["config"] /\ acked'["config"] = acked["config"]
      BY <1>0, <1>8, <2>4 DEF Publish, Fail, Shape
    <3> QED
      BY <2>1, <2>2, <3>1 DEF ConfigTyped
  <2> QED
    BY <1>8, <2>3, <2>4
<1> QED
  BY <1>1, <1>2, <1>3, <1>4, <1>5, <1>6, <1>7, <1>8 DEF Next, Handle

-----------------------------------------------------------------------------
(* The state of one file is kept *)

\* Whoever saves a file with one writer at a time is alone with it.
LEMMA Alone ==
  ASSUME Discipline, Calm, NEW f \in Files, OneWriter(f), NEW g \in Handlers, NEW h \in Handlers,
         On(g, f), at[h] # "idle", FileOf(req[h]) = f,
         On(h, f) \/ f = "config" \/ profileMu = Nobody
  PROVE  g = h
<1>1. CASE f = "profiles"
  BY <1>1, StoreAssumption DEF Discipline, StoreAssumption, Nobody
<1>2. CASE f = "config"
  BY <1>2 DEF OneWriter, Calm, Patching, On
<1> QED
  BY <1>1, <1>2 DEF Files

\* Nothing that FileState(f) looks at changes.
LEMMA Untouched ==
  ASSUME NEW f \in Files, FileState(f), NEW h \in Handlers, ~On(h, f), ~On(h, f)',
         up' = up, disk'[f] = disk[f], tmp'[f] = tmp[f], mem'[f] = mem[f], acked'[f] = acked[f],
         \A g \in Handlers \ {h} :
           at'[g] = at[g] /\ req'[g] = req[g] /\ next'[g] = next[g]
           /\ (On(g, f) => fd'[g] = fd[g])
  PROVE  FileState(f)'
<1>1. Contents(f)'
  BY DEF FileState, Contents
<1>2. \A g \in Handlers : On(g, f)' => On(g, f) /\ g # h
  BY DEF On
<1>3. \A g \in Handlers : On(g, f) => On(g, f)'
  BY DEF On
<1>4. ASSUME NEW g \in Handlers, On(g, f)' PROVE Saving(g, f)'
  BY <1>2, <1>4 DEF FileState, Saving
<1>5. (\A g \in Handlers : ~On(g, f)') => Settled(f)'
  BY <1>3 DEF FileState, Settled
<1> QED
  BY <1>1, <1>4, <1>5 DEF FileState

\* Handler h is alone with the file, before and after its step.
LEMMA MineAfter ==
  ASSUME NEW f \in Files, NEW h \in Handlers, On(h, f)', Saving(h, f)', Contents(f)',
         \A g \in Handlers \ {h} : ~On(g, f)'
  PROVE  FileState(f)'
BY DEF FileState

\* A handler's step on the file it serves: the others stay away from it.
LEMMA OthersAway ==
  ASSUME Shape, Discipline, Calm, NEW f \in Files, OneWriter(f), NEW h \in Handlers,
         at[h] # "idle", FileOf(req[h]) = f,
         On(h, f) \/ f = "config" \/ profileMu = Nobody,
         NEW to, at' = [at EXCEPT ![h] = to],
         req' = req \/ req' = [req EXCEPT ![h] = NoRequest]
  PROVE  \A g \in Handlers \ {h} : ~On(g, f)'
<1>1. \A g \in Handlers \ {h} : ~On(g, f)
  BY Alone
<1> QED
  BY <1>1 DEF On, Shape

\* A handler that works on another file.
LEMMA ElsewhereStep ==
  ASSUME IInv, NEW f \in Files, OneWriter(f), NEW h \in Handlers,
         Begin(h) \/ Handle(h) \/ WriteFails(h),
         Begin(h) \/ FileOf(req[h]) # f
  PROVE  FileState(f)'
<1>0. /\ Shape /\ Discipline /\ FileState(f)
      /\ DOMAIN disk = Files /\ DOMAIN tmp = Files /\ DOMAIN mem = Files /\ DOMAIN acked = Files
      /\ DOMAIN req = Handlers /\ DOMAIN next = Handlers /\ DOMAIN at = Handlers
      /\ DOMAIN fd = Handlers
  BY DEF IInv, Shape
<1> USE DEF On
<1>1. CASE Begin(h)
  BY <1>0, <1>1, Untouched DEF Begin, Go
<1>2. CASE ReadSettings(h) /\ FileOf(req[h]) # f
  <2>1. /\ UNCHANGED <<disk, tmp, mem, up, req, fd, acked>>
        /\ next' = [next EXCEPT ![h] = next'[h]] /\ at' = [at EXCEPT ![h] = at'[h]]
    BY <1>0, <1>2 DEF ReadSettings
  <2> QED
    BY <1>0, <1>2, <2>1, Untouched
<1>3. CASE OpenTmp(h) /\ FileOf(req[h]) # f
  BY <1>0, <1>3, Untouched DEF OpenTmp, Go
<1>4. CASE WriteTmp(h) /\ FileOf(req[h]) # f
  <2>1. /\ UNCHANGED <<mem, up, req, next, acked>>
        /\ disk'[f] = disk[f] /\ tmp'[f] = tmp[f]
        /\ fd' = [fd EXCEPT ![h] = "none"] /\ at' = [at EXCEPT ![h] = "rename"]
    BY <1>0, <1>4 DEF WriteTmp, Go
  <2> QED
    BY <1>0, <1>4, <2>1, Untouched
<1>5. CASE WriteFails(h) /\ FileOf(req[h]) # f
  BY <1>0, <1>5, Untouched DEF WriteFails, Go
<1>6. CASE Rename(h) /\ FileOf(req[h]) # f
  <2>1. /\ UNCHANGED <<mem, up, req, next, acked>>
        /\ disk'[f] = disk[f] /\ tmp'[f] = tmp[f]
        /\ at' = [at EXCEPT ![h] = at'[h]]
    BY <1>0, <1>6 DEF Rename
  <2>2. \A g \in Handlers : FileOf(req[g]) = f => fd'[g] = fd[g]
    BY <1>0, <1>6 DEF Rename
  <2> QED
    BY <1>0, <1>6, <2>1, <2>2, Untouched
<1>7. CASE (Publish(h) \/ Fail(h)) /\ FileOf(req[h]) # f
  <2>1. /\ UNCHANGED <<disk, tmp, up, fd>>
        /\ mem'[f] = mem[f] /\ acked'[f] = acked[f]
        /\ at' = [at EXCEPT ![h] = "idle"] /\ req' = [req EXCEPT ![h] = NoRequest]
        /\ next' = [next EXCEPT ![h] = Torn]
    BY <1>0, <1>7 DEF Publish, Fail, Finish, Go
  <2> QED
    BY <1>0, <1>7, <2>1, Untouched
<1> QED
  BY <1>1, <1>2, <1>3, <1>4, <1>5, <1>6, <1>7 DEF Handle

\* A handler that works on this file.
LEMMA OwnStep ==
  ASSUME IInv, NEW f \in Files, OneWriter(f), NEW h \in Handlers,
         Handle(h) \/ WriteFails(h), FileOf(req[h]) = f
  PROVE  FileState(f)'
<1>0. /\ Shape /\ Discipline /\ Calm /\ FileState(f) /\ Contents(f)
      /\ DOMAIN disk = Files /\ DOMAIN tmp = Files /\ DOMAIN mem = Files /\ DOMAIN acked = Files
      /\ DOMAIN req = Handlers /\ DOMAIN next = Handlers /\ DOMAIN at = Handlers
      /\ DOMAIN fd = Handlers
  BY DEF IInv, Shape, FileState
<1>1. at[h] # "idle" /\ req[h] \in RequestType
  BY <1>0, RequestsTyped
     DEF Handle, ReadSettings, OpenTmp, WriteTmp, Rename, Publish, Fail, WriteFails, Go
<1>2. CASE ReadSettings(h)
  <2> DEFINE new == Apply(req[h], acked[f])
  <2>1. /\ up /\ at[h] = "read" /\ (f = "config" \/ profileMu = Nobody)
        /\ UNCHANGED <<disk, tmp, mem, up, req, fd, acked>>
    BY <1>2 DEF ReadSettings, Files
  <2>2. \A g \in Handlers : ~On(g, f)
    BY <1>0, <1>1, <2>1, Alone DEF On
  <2>3. Settled(f) /\ mem[f] = acked[f] /\ disk[f] = acked[f]
    BY <1>0, <2>1, <2>2 DEF FileState, Settled
  <2>4. /\ next' = [next EXCEPT ![h] = new]
        /\ at' = [at EXCEPT ![h] = IF new = Error THEN "fail" ELSE "open"]
    BY <1>2, <2>3 DEF ReadSettings
  <2>5. new \in Good(f) \cup {Error}
    BY <1>0, <1>1, ApplyGood DEF Contents
  <2> HIDE DEF new
  <2>6. On(h, f)' /\ Saving(h, f)'
    BY <1>0, <2>1, <2>3, <2>4, <2>5 DEF On, Saving, new
  <2>7. \A g \in Handlers \ {h} : ~On(g, f)'
    BY <1>0, <1>1, <2>1, <2>4, OthersAway
  <2>8. Contents(f)'
    BY <1>0, <2>1 DEF Contents
  <2> QED
    BY <2>6, <2>7, <2>8, MineAfter
<1>3. CASE OpenTmp(h)
  <2>1. /\ at[h] = "open" /\ at' = [at EXCEPT ![h] = "write"]
        /\ tmp' = [tmp EXCEPT ![f] = Torn] /\ fd' = [fd EXCEPT ![h] = "tmp"]
        /\ UNCHANGED <<disk, mem, req, next, acked>>
    BY <1>3 DEF OpenTmp, Go
  <2>2. On(h, f) /\ Saving(h, f)
    BY <1>0, <2>1 DEF FileState, On
  <2>3. On(h, f)' /\ Saving(h, f)'
    BY <1>0, <2>1, <2>2 DEF On, Saving
  <2>4. \A g \in Handlers \ {h} : ~On(g, f)'
    BY <1>0, <1>1, <2>1, <2>2, OthersAway
  <2>5. Contents(f)'
    BY <1>0, <2>1 DEF Contents
  <2> QED
    BY <2>3, <2>4, <2>5, MineAfter
<1>4. CASE WriteTmp(h)
  <2>1. at[h] = "write" /\ On(h, f) /\ Saving(h, f)
    BY <1>0, <1>4 DEF WriteTmp, Go, FileState, On
  <2>2. fd[h] = "tmp" /\ tmp[f] = Torn /\ next[h] \in Good(f)
    BY <2>1 DEF Saving
  <2>3. /\ at' = [at EXCEPT ![h] = "rename"] /\ tmp' = [tmp EXCEPT ![f] = next[h]]
        /\ fd' = [fd EXCEPT ![h] = "none"]
        /\ UNCHANGED <<disk, mem, req, next, acked>>
    <3>1. Over(f, Torn, next[h]) = next[h]
      BY <2>2, OverTorn
    <3>2. tmp' = [tmp EXCEPT ![f] = Over(f, tmp[f], next[h])]
      BY <1>4, <2>2 DEF WriteTmp
    <3>3. tmp' = [tmp EXCEPT ![f] = next[h]]
      BY <2>2, <3>1, <3>2
    <3> QED
      BY <1>4, <2>2, <3>3 DEF WriteTmp, Go
  <2>4. On(h, f)' /\ Saving(h, f)'
    BY <1>0, <2>1, <2>3 DEF On, Saving
  <2>5. \A g \in Handlers \ {h} : ~On(g, f)'
    BY <1>0, <1>1, <2>1, <2>3, OthersAway
  <2>6. Contents(f)'
    BY <1>0, <2>2, <2>3 DEF Contents
  <2> QED
    BY <2>4, <2>5, <2>6, MineAfter
<1>5. CASE WriteFails(h)
  <2>1. at[h] = "write" /\ On(h, f) /\ Saving(h, f)
    BY <1>0, <1>5 DEF WriteFails, Go, FileState, On
  <2>2. at' = [at EXCEPT ![h] = "fail"] /\ UNCHANGED <<disk, tmp, mem, req, next, acked>>
    BY <1>5 DEF WriteFails, Go
  <2>3. On(h, f)' /\ Saving(h, f)'
    BY <1>0, <2>1, <2>2 DEF On, Saving
  <2>4. \A g \in Handlers \ {h} : ~On(g, f)'
    BY <1>0, <1>1, <2>1, <2>2, OthersAway
  <2>5. Contents(f)'
    BY <1>0, <2>2 DEF Contents
  <2> QED
    BY <2>3, <2>4, <2>5, MineAfter
<1>6. CASE Rename(h)
  <2>1. at[h] = "rename" /\ On(h, f) /\ Saving(h, f)
    BY <1>0, <1>6 DEF Rename, FileState, On
  <2>2. tmp[f] = next[h] /\ next[h] \in Good(f) /\ tmp[f] # Absent
    BY <2>1, GoodIsWhole DEF Saving
  <2>3. /\ at' = [at EXCEPT ![h] = "publish"]
        /\ disk' = [disk EXCEPT ![f] = next[h]] /\ tmp' = [tmp EXCEPT ![f] = Absent]
        /\ UNCHANGED <<mem, req, next, acked>>
    BY <1>6, <2>2 DEF Rename
  <2>4. On(h, f)' /\ Saving(h, f)'
    BY <1>0, <2>1, <2>3 DEF On, Saving
  <2>5. \A g \in Handlers \ {h} : ~On(g, f)'
    BY <1>0, <1>1, <2>1, <2>3, OthersAway
  <2>6. Contents(f)'
    BY <1>0, <2>2, <2>3 DEF Contents
  <2> QED
    BY <2>4, <2>5, <2>6, MineAfter
<1>7. CASE Publish(h)
  <2>1. at[h] = "publish" /\ On(h, f) /\ Saving(h, f)
    BY <1>0, <1>7 DEF Publish, Go, FileState, On
  <2>2. /\ at' = [at EXCEPT ![h] = "idle"] /\ req' = [req EXCEPT ![h] = NoRequest]
        /\ mem' = [mem EXCEPT ![f] = next[h]]
        /\ acked' = [acked EXCEPT ![f] = Apply(req[h], acked[f])]
        /\ UNCHANGED <<disk, tmp>>
    BY <1>7 DEF Publish, Finish, Go
  <2>3. /\ next[h] = Apply(req[h], acked[f]) /\ next[h] \in Good(f) /\ disk[f] = next[h]
    BY <2>1 DEF Saving
  <2>4. mem'[f] = next[h] /\ acked'[f] = next[h] /\ disk'[f] = next[h]
    BY <1>0, <2>2, <2>3
  <2>5. Contents(f)' /\ Settled(f)'
    BY <1>0, <2>2, <2>3, <2>4 DEF Contents, Settled
  <2>6. ~On(h, f)'
    BY <1>0, <2>2 DEF On
  <2>7. \A g \in Handlers \ {h} : ~On(g, f)'
    BY <1>0, <1>1, <2>1, <2>2, OthersAway
  <2> QED
    BY <2>5, <2>6, <2>7 DEF FileState
<1>8. CASE Fail(h)
  <2>1. at[h] = "fail" /\ On(h, f) /\ Saving(h, f)
    BY <1>0, <1>8 DEF Fail, Go, FileState, On
  <2>2. /\ at' = [at EXCEPT ![h] = "idle"] /\ req' = [req EXCEPT ![h] = NoRequest]
        /\ UNCHANGED <<disk, tmp, mem, acked>>
    BY <1>8 DEF Fail, Finish, Go
  <2>3. Contents(f)' /\ Settled(f)'
    BY <1>0, <2>1, <2>2 DEF Contents, Settled, Saving
  <2>4. ~On(h, f)'
    BY <1>0, <2>2 DEF On
  <2>5. \A g \in Handlers \ {h} : ~On(g, f)'
    BY <1>0, <1>1, <2>1, <2>2, OthersAway
  <2> QED
    BY <2>3, <2>4, <2>5 DEF FileState
<1> QED
  BY <1>2, <1>3, <1>4, <1>5, <1>6, <1>7, <1>8 DEF Handle

LEMMA FileStep ==
  ASSUME IInv, NEW f \in Files, OneWriter(f), [Next]_vars
  PROVE  FileState(f)'
<1>0. /\ Shape /\ Discipline /\ Calm /\ FileState(f) /\ Contents(f)
      /\ DOMAIN disk = Files /\ DOMAIN mem = Files /\ DOMAIN acked = Files
  BY DEF IInv, Shape, FileState
<1>1. CASE UNCHANGED vars
  BY <1>0, <1>1 DEF vars, FileState, Contents, On, Saving, Settled
<1>2. CASE Killed
  <2>1. /\ at' = [h \in Handlers |-> "idle"] /\ up' = FALSE /\ UNCHANGED <<disk, tmp, mem>>
        /\ acked'[f] = IF Renamed(f) = {} THEN acked[f]
                        ELSE Apply(req[CHOOSE h \in Renamed(f) : TRUE], acked[f])
    BY <1>2 DEF Killed
  <2>3. acked'[f] = disk[f]
    <3>1. CASE Renamed(f) = {}
      <4>1. \A h \in Handlers : On(h, f) => at[h] # "publish"
        BY <3>1 DEF Renamed, On
      <4> QED
        BY <1>0, <2>1, <3>1, <4>1 DEF FileState, Saving, Settled
    <3>2. CASE Renamed(f) # {}
      <4>1. PICK h \in Renamed(f) : h = CHOOSE g \in Renamed(f) : TRUE
        BY <3>2
      <4>2. h \in Handlers /\ at[h] = "publish" /\ On(h, f)
        BY <4>1 DEF Renamed, On
      <4>3. acked'[f] = Apply(req[h], acked[f])
        BY <2>1, <3>2, <4>1
      <4>4. Saving(h, f)
        BY <1>0, <4>2 DEF FileState
      <4> QED
        BY <4>2, <4>3, <4>4 DEF Saving
    <3> QED
      BY <3>1, <3>2
  <2>4. Contents(f)' /\ Settled(f)'
    BY <1>0, <2>1, <2>3 DEF Contents, Settled
  <2>5. \A h \in Handlers : ~On(h, f)'
    BY <2>1 DEF On
  <2> QED
    BY <2>4, <2>5 DEF FileState
<1>3. CASE Boot
  <2>1. ~up /\ mem' = disk /\ UNCHANGED <<disk, tmp, at, req, acked>>
    BY <1>3 DEF Boot
  <2>2. \A h \in Handlers : ~On(h, f) /\ ~On(h, f)'
    BY <1>0, <2>1 DEF Discipline, On
  <2>3. Contents(f)' /\ Settled(f)'
    BY <1>0, <2>1, <2>2 DEF FileState, Contents, Settled
  <2> QED
    BY <2>2, <2>3 DEF FileState
<1>4. CASE LoadProfiles
  <2>1. /\ mem' = [mem EXCEPT !["profiles"] = disk["profiles"]] /\ profileMu = Nobody
        /\ UNCHANGED <<disk, tmp, up, at, req, next, fd, acked>>
    BY <1>4 DEF LoadProfiles
  <2>2. CASE f = "profiles"
    <3>1. \A h \in Handlers : ~On(h, f) /\ ~On(h, f)'
      BY <1>0, <2>1, <2>2, StoreAssumption DEF Discipline, On, StoreAssumption, Nobody
    <3>2. mem'[f] = disk[f]
      BY <1>0, <2>1, <2>2
    <3>3. Contents(f)' /\ Settled(f)'
      BY <1>0, <2>1, <3>1, <3>2 DEF FileState, Contents, Settled
    <3> QED
      BY <3>1, <3>3 DEF FileState
  <2>3. CASE f # "profiles"
    <3>1. mem'[f] = mem[f]
      BY <1>0, <2>1, <2>3
    <3> QED
      BY <1>0, <2>1, <3>1 DEF FileState, Contents, On, Saving, Settled
  <2> QED
    BY <2>2, <2>3
<1>5. ASSUME NEW h \in Handlers, Begin(h) \/ Handle(h) \/ WriteFails(h)
      PROVE  FileState(f)'
  BY <1>5, ElsewhereStep, OwnStep
<1> QED
  BY <1>1, <1>2, <1>3, <1>4, <1>5 DEF Next

LEMMA InvStep == IInv /\ [Next]_vars => IInv'
<1> SUFFICES ASSUME IInv, [Next]_vars PROVE IInv'
  OBVIOUS
<1>1. up' \in BOOLEAN
  <2>1. up \in BOOLEAN
    BY DEF IInv
  <2>2. up' = up \/ up' = TRUE \/ up' = FALSE
    BY DEF Next, Killed, Boot, LoadProfiles, Begin, Handle, ReadSettings, OpenTmp, WriteTmp,
       WriteFails, Rename, Publish, Fail, vars
  <2> QED
    BY <2>1, <2>2
<1>2. Shape' /\ Discipline'
  BY ShapeStep, DisciplineStep DEF IInv
<1>3. \A f \in Files : OneWriter(f) => FileState(f)'
  BY FileStep
<1>4. Calm' /\ clashed' \in BOOLEAN /\ (clashed => clashed')
  BY CalmStep DEF IInv
<1>5. ConfigTyped'
  BY ConfigTypedStep DEF IInv
<1>6. \A f \in Files : OneWriter(f)' => OneWriter(f)
  BY <1>4 DEF OneWriter
<1> QED
  BY <1>1, <1>2, <1>3, <1>4, <1>5, <1>6 DEF IInv

LEMMA Invariance == Spec => []IInv
BY InitInv, InvStep, PTL DEF Spec

-----------------------------------------------------------------------------
\* However many handlers change profiles, fail or are killed, the profile list on
\* disk has unique ids and one selection: profileMu is enough, no assumption is
\* made on who patches the configuration.
THEOREM ProfilesStayConsistent == Spec => []ProfilesConsistent
<1>1. IInv => ProfilesConsistent
  <2> SUFFICES ASSUME IInv PROVE ProfilesConsistent
    OBVIOUS
  <2> DEFINE pf == disk["profiles"]
             n  == Len(pf.list)
  <2>1. pf \in GoodProfiles
    BY DEF IInv, Files, OneWriter, FileState, Contents, Good
  <2>2. pf \in ProfilesType /\ UniqueIds(pf) /\ SelectionAgrees(pf)
    BY <2>1 DEF GoodProfiles
  <2>3. n \in Nat /\ DOMAIN pf.list = 1..n
    BY <2>2, ListFacts
  <2>4. Cardinality(ids(pf)) = n
    <3> DEFINE idOf == [i \in 1..n |-> pf.list[i].id]
    <3>1. idOf \in Bijection(1..n, ids(pf))
      BY <2>2, <2>3 DEF Bijection, Injection, Surjection, IsInjective, ids, UniqueIds
    <3>2. ExistsBijection(1..n, ids(pf))
      BY <3>1 DEF ExistsBijection
    <3>3. IsFiniteSet(1..n) /\ Cardinality(1..n) = n
      BY <2>3, FS_Interval
    <3> QED
      BY <3>2, <3>3, FS_Bijection
  <2> QED
    BY <2>2, <2>4 DEF SelectionAgrees, ProfilesConsistent
<1> QED
  BY <1>1, Invariance, PTL

\* Whatever is asked at once, written in part or killed, the profile file always
\* parses, and the configuration does as long as no two patches have overlapped.
THEOREM FilesStayWhole == Spec => []FilesWhole
<1>1. IInv => FilesWhole
  BY GoodIsWhole DEF IInv, FileState, Contents, FilesWhole
<1> QED
  BY <1>1, Invariance, PTL

\* And nothing acknowledged is lost: between requests the profile file and memory
\* are what the successful requests add up to, across failed writes and kills,
\* however the requests interleave; so is the configuration until two patches
\* overlap.
THEOREM NothingAckedIsLost == Spec => []AckedIsStored
<1>1. IInv => AckedIsStored
  <2> SUFFICES ASSUME IInv PROVE AckedIsStored
    OBVIOUS
  <2>1. \A f \in Files : OneWriter(f) => FileState(f)
    BY DEF IInv
  <2>2. ASSUME NEW f \in Files, OneWriter(f), ~Busy(f)
        PROVE  disk[f] = acked[f] /\ (up => mem[f] = acked[f])
    BY <2>1, <2>2 DEF FileState, Settled, Busy, On
  <2>3. ASSUME NEW f \in Files
        PROVE  LET T == IF f = "config" THEN ConfigType ELSE ProfilesType IN
               /\ mem[f] \in T /\ acked[f] \in T
               /\ (disk[f] # Torn => disk[f] \in T) /\ (tmp[f] \notin {Torn, Absent} => tmp[f] \in T)
    <3>1. CASE f = "config"
      BY <3>1 DEF IInv, ConfigTyped
    <3>2. CASE f = "profiles"
      BY <2>1, <3>2 DEF OneWriter, FileState, Contents, Good, GoodProfiles
    <3> QED
      BY <3>1, <3>2 DEF Files
  <2>4. \A h \in Handlers : req[h] \in RequestType \cup {NoRequest}
    BY RequestsTyped DEF IInv, Discipline
  <2>5. TypeOK
    BY <2>3, <2>4 DEF IInv, Shape, Places, TypeOK
  <2> QED
    BY <2>2, <2>5 DEF AckedIsStored
<1> QED
  BY <1>1, Invariance, PTL
=============================================================================
