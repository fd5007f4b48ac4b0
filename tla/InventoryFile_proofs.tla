------------------------- MODULE InventoryFile_proofs -------------------------
(***************************************************************************)
(* Lemmas about lists of containers and about the operations on the        *)
(* contents of the inventory, for any hosts.                                *)
(***************************************************************************)
EXTENDS InventoryFile, SequenceTheorems, FiniteSetTheorems, WellFoundedInduction, TLAPS

-----------------------------------------------------------------------------
(* Numbers, and elements of sequences *)

\* A set of numbers has a least one.
LEMMA LeastNumber ==
  ASSUME NEW S \in SUBSET Nat, S # {}
  PROVE  \E m \in S : \A k \in S : m <= k
<1> DEFINE Up == {0..k : k \in S}
<1>1. Up \subseteq FiniteSubsetsOf(Nat) /\ Up # {}
  <2>1. \A k \in S : 0..k \in SUBSET Nat /\ IsFiniteSet(0..k)
    BY FS_Interval
  <2> QED
    BY <2>1 DEF FiniteSubsetsOf
<1>2. PICK x \in Up : \A y \in Up : <<y, x>> \notin StrictSubsetOrdering(Nat)
  BY <1>1, WFMin, FS_StrictSubsetOrderingWellFounded
<1>3. PICK m \in S : x = 0..m
  BY <1>2
<1>4. ASSUME NEW k \in S, k < m PROVE FALSE
  <2>1. 0..k \subseteq 0..m /\ m \in 0..m /\ m \notin 0..k
    BY <1>4
  <2>2. <<0..k, 0..m>> \in StrictSubsetOrdering(Nat)
    BY <2>1 DEF StrictSubsetOrdering
  <2> QED
    BY <2>2, <1>2, <1>3
<1> QED
  BY <1>4

-----------------------------------------------------------------------------
\* The elements of a concatenation.
LEMMA ToSetConcat ==
  ASSUME NEW T, NEW s \in Seq(T), NEW t \in Seq(T)
  PROVE  ToSet(s \o t) = ToSet(s) \cup ToSet(t)
<1>1. ToSet(s) \cup ToSet(t) \subseteq ToSet(s \o t)
  <2>1. ASSUME NEW i \in DOMAIN s PROVE s[i] \in ToSet(s \o t)
    BY (s \o t)[i] = s[i] DEF ToSet
  <2>2. ASSUME NEW i \in DOMAIN t PROVE t[i] \in ToSet(s \o t)
    BY (s \o t)[Len(s) + i] = t[i], Len(s) + i \in DOMAIN (s \o t) DEF ToSet
  <2> QED
    BY <2>1, <2>2 DEF ToSet
<1>2. ToSet(s \o t) \subseteq ToSet(s) \cup ToSet(t)
  <2>1. ASSUME NEW i \in DOMAIN (s \o t) PROVE (s \o t)[i] \in ToSet(s) \cup ToSet(t)
    <3>1. CASE i <= Len(s)
      BY <3>1, (s \o t)[i] = s[i] DEF ToSet
    <3>2. CASE i > Len(s)
      BY <3>2, (s \o t)[i] = t[i - Len(s)], i - Len(s) \in DOMAIN t DEF ToSet
    <3> QED
      BY <3>1, <3>2
  <2> QED
    BY <2>1 DEF ToSet
<1> QED
  BY <1>1, <1>2

\* RemoveFirst leaves one element out, at the first place it has.
LEMMA RemoveFirstIs ==
  ASSUME NEW T, NEW s \in Seq(T), NEW e \in ToSet(s)
  PROVE  \E k \in 1..Len(s) :
           /\ s[k] = e
           /\ RemoveFirst(s, e) \in Seq(T)
           /\ Len(RemoveFirst(s, e)) = Len(s) - 1
           /\ \A i \in 1..(Len(s) - 1) :
                RemoveFirst(s, e)[i] = IF i < k THEN s[i] ELSE s[i + 1]
<1> DEFINE I == {i \in 1..Len(s) : s[i] = e}
           k == Min(I)
           before == SubSeq(s, 1, k - 1)
           after  == SubSeq(s, k + 1, Len(s))
<1>1. I \in SUBSET Nat /\ I # {}
  BY DEF ToSet
<1>2. k \in I
  BY <1>1, LeastNumber DEF Min
<1>3. RemoveFirst(s, e) = before \o after
  BY <1>1 DEF RemoveFirst, RemoveAt, SelectInSeq
<1> HIDE DEF k
<1>4. /\ before \in Seq(T) /\ Len(before) = k - 1
      /\ after \in Seq(T) /\ Len(after) = Len(s) - k
  BY <1>2
<1>5. \A i \in 1..(k - 1) : before[i] = s[i]
  BY <1>2
<1>6. \A i \in 1..(Len(s) - k) : after[i] = s[k + i]
  BY <1>2
<1> HIDE DEF before, after
<1>7. /\ RemoveFirst(s, e) \in Seq(T) /\ Len(RemoveFirst(s, e)) = Len(s) - 1
      /\ \A i \in 1..(Len(s) - 1) :
           RemoveFirst(s, e)[i] = IF i <= k - 1 THEN before[i] ELSE after[i - (k - 1)]
  <2>1. /\ before \o after \in Seq(T)
        /\ Len(before \o after) = Len(before) + Len(after)
        /\ \A i \in 1..(Len(before) + Len(after)) :
             (before \o after)[i] = IF i <= Len(before) THEN before[i]
                                    ELSE after[i - Len(before)]
    BY <1>4, ConcatProperties
  <2>2. k \in Int /\ Len(before) + Len(after) = Len(s) - 1
    BY <1>2, <1>4
  <2> QED
    BY <1>3, <1>4, <2>1, <2>2
<1>8. ASSUME NEW i \in 1..(Len(s) - 1)
      PROVE  RemoveFirst(s, e)[i] = IF i < k THEN s[i] ELSE s[i + 1]
  <2>1. CASE i < k
    BY <2>1, <1>2, <1>5, <1>7
  <2>2. CASE i >= k
    <3>1. i - (k - 1) \in 1..(Len(s) - k) /\ k + (i - (k - 1)) = i + 1
      BY <2>2, <1>2
    <3> QED
      BY <2>2, <3>1, <1>2, <1>6, <1>7
  <2> QED
    BY <2>1, <2>2, <1>2
<1> QED
  BY <1>2, <1>7, <1>8

LEMMA RemoveFirstAbsent ==
  ASSUME NEW T, NEW s \in Seq(T), NEW e, e \notin ToSet(s)
  PROVE  RemoveFirst(s, e) = s
BY DEF RemoveFirst, ToSet
-----------------------------------------------------------------------------
(* What an operation does to the contents of the file *)

Kind == {"add_containers", "add_hdfs", "remove_host", "measure", "add_host",
         "remove_container"}

LEMMA OperationHas ==
  ASSUME NEW o \in Operation
  PROVE  /\ o.kind \in Kind /\ o.host \in Host /\ o # NoOp
         /\ o.kind \in {"add_containers", "add_host"} => o.n \in Nat
         /\ o.kind = "remove_container" => o.name \in Name
BY DEF Operation, NoOp, Kind

LEMMA NameHas ==
  ASSUME HostAssumption
  PROVE  /\ \A i \in Nat : Cont(i) \in Name
         /\ \A h \in Host : Hdfs(h) \in Name
         /\ \A c \in Name : c.num \in Int /\ c.num >= -1
         /\ \A c \in Name : c.kind = "cont" => c.num \in Nat
BY DEF HostAssumption, Cont, Hdfs, Name, NoNumber

\* The names a list gives next.
LEMMA ContainerListIs ==
  ASSUME HostAssumption, NEW n \in Nat, NEW first \in Nat
  PROVE  /\ ContainerList(n, first) \in Seq(Name)
         /\ Len(ContainerList(n, first)) = n
         /\ \A i \in 1..n : ContainerList(n, first)[i] = Cont(first + i - 1)
<1>1. \A i \in 1..n : first + i - 1 \in Nat
  OBVIOUS
<1>2. \A i \in 1..n : Cont(first + i - 1) \in Name
  BY <1>1, NameHas
<1> QED
  BY <1>2 DEF ContainerList

LEMMA FirstIndexIs ==
  ASSUME HostAssumption, NEW list \in Seq(Name)
  PROVE  FirstIndex(list) \in Nat
<1>1. CASE list = <<>>
  BY <1>1 DEF FirstIndex
<1>2. CASE list # <<>>
  BY <1>2, NameHas, Last(list) = list[Len(list)], Len(list) \in 1..Len(list) DEF FirstIndex, Last
<1> QED
  BY <1>1, <1>2

LEMMA NewNamesAre ==
  ASSUME HostAssumption, NEW data, IsContents(data), NEW o \in Operation, ~Raises(o, data)
  PROVE  NewNames(o, data) \in Seq(Name)
<1>1. CASE o.kind = "add_containers"
  <2>1. data[o.host].containers \in Seq(Name)
    BY <1>1 DEF IsContents, Raises, Entry
  <2> QED
    BY <1>1, <2>1, FirstIndexIs, OperationHas, ContainerListIs DEF NewNames
<1>2. CASE o.kind = "add_hdfs"
  BY <1>2, OperationHas, NameHas DEF NewNames
<1>3. CASE o.kind = "add_host"
  BY <1>3, OperationHas, ContainerListIs DEF NewNames
<1>4. CASE o.kind \notin {"add_containers", "add_hdfs", "add_host"}
  BY <1>4 DEF NewNames
<1> QED
  BY <1>1, <1>2, <1>3, <1>4

\* An edition of contents are contents.
LEMMA EditIsContents ==
  ASSUME HostAssumption, NEW data, IsContents(data), NEW o \in Operation, ~Raises(o, data)
  PROVE  /\ IsContents(Edit(o, data))
         /\ o.kind # "remove_host" => DOMAIN Edit(o, data) = DOMAIN data \cup {o.host}
<1>r. o.kind = "remove_host" => Edit(o, data) = data
  BY DEF Edit
<1> SUFFICES ASSUME o.kind # "remove_host"
             PROVE  /\ IsContents(Edit(o, data))
                    /\ DOMAIN Edit(o, data) = DOMAIN data \cup {o.host}
  BY <1>r
<1> DEFINE new == NewNames(o, data)
<1>1. new \in Seq(Name) /\ o.host \in Host /\ o.kind \in Kind
  BY NewNamesAre, OperationHas
<1> HIDE DEF new
<1>2. CASE o.kind # "add_host"
  <2>1. o.host \in DOMAIN data /\ data[o.host] \in Entry
    BY <1>2 DEF Raises, IsContents
  <2>2. data[o.host].containers \in Seq(Name) /\ data[o.host].measured \in BOOLEAN
    BY <2>1 DEF Entry
  <2>3. data[o.host].containers \o new \in Seq(Name)
    BY <2>2, <1>1
  <2>4. o.kind = "remove_container" =>
          RemoveFirst(data[o.host].containers, o.name) \in Seq(Name)
    BY <2>2, RemoveFirstIs, RemoveFirstAbsent
  <2>5. \A list \in Seq(Name) : [data EXCEPT ![o.host].containers = list] \in [DOMAIN data -> Entry]
    BY <2>1, <2>2 DEF IsContents, Entry
  <2>6. [data EXCEPT ![o.host].measured = TRUE] \in [DOMAIN data -> Entry]
    BY <2>1, <2>2 DEF IsContents, Entry
  <2>7. DOMAIN Edit(o, data) = DOMAIN data /\ Edit(o, data) \in [DOMAIN data -> Entry]
    BY <1>1, <1>2, <2>1, <2>3, <2>4, <2>5, <2>6 DEF Edit, new, Kind, IsContents
  <2> QED
    BY <2>1, <2>7 DEF IsContents
<1>3. CASE o.kind = "add_host"
  BY <1>1, <1>3 DEF Edit, IsContents, Entry, new
<1> QED
  BY <1>2, <1>3

-----------------------------------------------------------------------------
(* The numbers along a list *)

Increasing(list) ==
  /\ \A i \in DOMAIN list : list[i].kind = "cont"
  /\ \A i, j \in DOMAIN list : i < j => list[i].num < list[j].num

Grows(data) == \A h \in DOMAIN data : Increasing(data[h].containers)

\* The index that a list goes on from is over all the numbers it has.
LEMMA FirstIndexIsOver ==
  ASSUME HostAssumption, NEW list \in Seq(Name), Increasing(list)
  PROVE  \A i \in DOMAIN list : list[i].num < FirstIndex(list)
<1> SUFFICES ASSUME NEW i \in DOMAIN list PROVE list[i].num < FirstIndex(list)
  OBVIOUS
<1>1. Len(list) \in DOMAIN list /\ i <= Len(list) /\ list # <<>>
  OBVIOUS
<1>2. list[i].num \in Int /\ list[Len(list)].num \in Int
  BY <1>1, NameHas
<1>3. list[i].num <= list[Len(list)].num
  BY <1>1, <1>2 DEF Increasing
<1> QED
  BY <1>1, <1>2, <1>3 DEF FirstIndex, Last

\* The names a list gives next are new, and keep it in order.
LEMMA ListGrows ==
  ASSUME HostAssumption, NEW list \in Seq(Name), Increasing(list), NEW n \in Nat,
         NEW first \in Nat, \A i \in DOMAIN list : list[i].num < first
  PROVE  /\ Increasing(list \o ContainerList(n, first))
         /\ ToSet(list) \cap ToSet(ContainerList(n, first)) = {}
<1> DEFINE new == ContainerList(n, first)
           all == list \o new
<1>1. /\ new \in Seq(Name) /\ Len(new) = n
      /\ \A i \in 1..n : new[i].kind = "cont" /\ new[i].num = first + i - 1
  <2>1. /\ new \in Seq(Name) /\ Len(new) = n
        /\ \A i \in 1..n : new[i] = Cont(first + i - 1)
    BY ContainerListIs
  <2>2. \A i : Cont(i).kind = "cont" /\ Cont(i).num = i
    BY DEF Cont
  <2> QED
    BY <2>1, <2>2
<1> HIDE DEF new
<1>2. ToSet(list) \cap ToSet(new) = {}
  <2> SUFFICES ASSUME NEW i \in DOMAIN list, NEW j \in 1..n, list[i] = new[j] PROVE FALSE
    BY <1>1 DEF ToSet
  <2> QED
    BY <1>1, NameHas
<1>3. /\ DOMAIN all = 1..(Len(list) + n)
      /\ \A i \in DOMAIN all : all[i] = IF i <= Len(list) THEN list[i] ELSE new[i - Len(list)]
  <2>1. /\ all \in Seq(Name) /\ Len(all) = Len(list) + Len(new)
        /\ \A i \in 1..(Len(list) + Len(new)) :
             all[i] = IF i <= Len(list) THEN list[i] ELSE new[i - Len(list)]
    BY <1>1, ConcatProperties
  <2> QED
    BY <1>1, <2>1
<1> HIDE DEF all
<1>4. \A i \in DOMAIN all : i > Len(list) =>
        i - Len(list) \in 1..n /\ all[i].kind = "cont" /\ all[i].num = first + (i - Len(list)) - 1
  BY <1>1, <1>3
<1>5. \A i \in DOMAIN all : i <= Len(list) => i \in DOMAIN list /\ all[i] = list[i]
  BY <1>3
<1>6. \A i \in DOMAIN all : all[i].kind = "cont"
  BY <1>3, <1>4, <1>5 DEF Increasing
<1>7. ASSUME NEW i \in DOMAIN all, NEW j \in DOMAIN all, i < j
      PROVE  all[i].num < all[j].num
  <2>1. CASE j <= Len(list)
    BY <2>1, <1>3, <1>5, <1>7 DEF Increasing
  <2>2. CASE i <= Len(list) /\ j > Len(list)
    BY <2>2, <1>3, <1>4, <1>5, NameHas, SMTT(30)
  <2>3. CASE i > Len(list)
    BY <2>3, <1>3, <1>4, <1>7, SMTT(30)
  <2> QED
    BY <2>1, <2>2, <2>3, <1>3, <1>7
<1> QED
  BY <1>2, <1>6, <1>7 DEF Increasing, all, new

\* A name leaves a list for good: it was there once.
LEMMA ListShrinks ==
  ASSUME HostAssumption, NEW list \in Seq(Name), Increasing(list), NEW c
  PROVE  /\ RemoveFirst(list, c) \in Seq(Name)
         /\ Increasing(RemoveFirst(list, c))
         /\ ToSet(RemoveFirst(list, c)) = ToSet(list) \ {c}
<1>1. CASE c \notin ToSet(list)
  BY <1>1, RemoveFirstAbsent
<1>2. CASE c \in ToSet(list)
  <2> DEFINE rest == RemoveFirst(list, c)
  <2>1. PICK k \in 1..Len(list) :
           /\ list[k] = c /\ rest \in Seq(Name) /\ Len(rest) = Len(list) - 1
           /\ \A i \in 1..(Len(list) - 1) : rest[i] = IF i < k THEN list[i] ELSE list[i + 1]
    BY <1>2, RemoveFirstIs
  <2> HIDE DEF rest
  <2> DEFINE place(i) == IF i < k THEN i ELSE i + 1
  <2>p. /\ DOMAIN rest = 1..(Len(list) - 1)
        /\ \A i \in DOMAIN rest :
             /\ place(i) \in DOMAIN list /\ place(i) # k /\ rest[i] = list[place(i)]
             /\ \A j \in DOMAIN rest : i < j => place(i) < place(j)
    BY <2>1
  <2> HIDE DEF place
  <2>2. Increasing(rest)
    BY <2>p DEF Increasing
  <2>3. \A i \in DOMAIN list : list[i] = c => i = k
    <3> SUFFICES ASSUME NEW i \in DOMAIN list, list[i] = list[k], i # k PROVE FALSE
      BY <2>1
    <3> QED
      BY <2>1, NameHas, i < k \/ k < i, SMTT(30) DEF Increasing
  <2>4. ToSet(rest) \subseteq ToSet(list) \ {c}
    BY <2>p, <2>3 DEF ToSet
  <2>5. ToSet(list) \ {c} \subseteq ToSet(rest)
    <3> SUFFICES ASSUME NEW i \in 1..Len(list), i # k PROVE list[i] \in ToSet(rest)
      BY <2>1 DEF ToSet
    <3>1. CASE i < k
      BY <3>1, <2>1, rest[i] = list[i], i \in DOMAIN rest DEF ToSet
    <3>2. CASE i > k
      <4>1. i - 1 \in 1..(Len(list) - 1) /\ ~(i - 1 < k)
        BY <3>2, <2>1
      <4>2. i - 1 \in DOMAIN rest /\ rest[i - 1] = list[(i - 1) + 1] /\ (i - 1) + 1 = i
        BY <2>1, <2>p, <4>1
      <4> QED
        BY <4>2 DEF ToSet
    <3> QED
      BY <3>1, <3>2
  <2> QED
    BY <2>1, <2>2, <2>4, <2>5 DEF rest
<1> QED
  BY <1>1, <1>2

\* The names listed for a host.
Listing(data, h) == IF h \in DOMAIN data THEN ToSet(data[h].containers) ELSE {}

\* An edition changes the list of its host, the others stay.
LEMMA EditOneList ==
  ASSUME HostAssumption, NEW data, IsContents(data), NEW o \in Operation, ~Raises(o, data)
  PROVE  /\ \A h \in DOMAIN data \ {o.host} : Edit(o, data)[h] = data[h]
         /\ o.kind \in {"add_containers", "add_hdfs"} =>
              Edit(o, data)[o.host].containers = data[o.host].containers \o NewNames(o, data)
         /\ o.kind = "add_host" => Edit(o, data)[o.host].containers = NewNames(o, data)
         /\ o.kind = "remove_container" =>
              Edit(o, data)[o.host].containers = RemoveFirst(data[o.host].containers, o.name)
         /\ o.kind \in {"measure", "remove_host"} =>
              Edit(o, data)[o.host].containers = data[o.host].containers
<1>1. o.kind \notin {"add_host", "remove_host"} => o.host \in DOMAIN data /\ data[o.host] \in Entry
  BY DEF Raises, IsContents
<1>2. data = [h \in DOMAIN data |-> data[h]]
  BY SMTT(30) DEF IsContents
<1>3. CASE o.kind \in {"add_containers", "add_hdfs"}
  BY <1>1, <1>2, <1>3 DEF Edit, Entry
<1>4. CASE o.kind = "add_host"
  BY <1>4 DEF Edit
<1>5. CASE o.kind = "remove_container"
  BY <1>1, <1>2, <1>5 DEF Edit, Entry
<1>6. CASE o.kind = "measure"
  BY <1>1, <1>2, <1>6 DEF Edit, Entry
<1>7. CASE o.kind = "remove_host"
  BY <1>7 DEF Edit
<1> QED
  BY <1>3, <1>4, <1>5, <1>6, <1>7, OperationHas DEF Kind

\* Without HDFS, an edition leaves every list in order.
LEMMA EditGrows ==
  ASSUME HostAssumption, NEW data, IsContents(data), Grows(data),
         NEW o \in Operation, ~Raises(o, data), o.kind # "add_hdfs"
  PROVE  Grows(Edit(o, data))
<1>r. o.kind = "remove_host" => Edit(o, data) = data
  BY DEF Edit
<1> SUFFICES ASSUME o.kind # "remove_host" PROVE Grows(Edit(o, data))
  BY <1>r
<1> DEFINE list == data[o.host].containers
<1>1. o.kind # "add_host" => list \in Seq(Name) /\ Increasing(list)
  BY DEF Raises, IsContents, Entry, Grows
<1>2. o.kind = "add_containers" => Increasing(list \o NewNames(o, data))
  BY <1>1, OperationHas, FirstIndexIs, FirstIndexIsOver, ListGrows DEF NewNames
<1>3. o.kind = "add_host" => Increasing(NewNames(o, data))
  <2> SUFFICES ASSUME o.kind = "add_host" PROVE Increasing(ContainerList(o.n, 0))
    BY DEF NewNames
  <2> QED
    <3>1. /\ DOMAIN ContainerList(o.n, 0) = 1..o.n /\ o.n \in Nat
          /\ \A i \in 1..o.n : ContainerList(o.n, 0)[i] = Cont(0 + i - 1)
      BY OperationHas, ContainerListIs DEF ContainerList
    <3>2. \A i : Cont(i).kind = "cont" /\ Cont(i).num = i
      BY DEF Cont
    <3> QED
      BY <3>1, <3>2, SMTT(30) DEF Increasing
<1>4. o.kind = "remove_container" => Increasing(RemoveFirst(list, o.name))
  BY <1>1, ListShrinks
<1>5. Increasing(Edit(o, data)[o.host].containers)
  BY <1>1, <1>2, <1>3, <1>4, EditOneList, OperationHas DEF Kind
<1>6. DOMAIN Edit(o, data) = DOMAIN data \cup {o.host}
  BY EditIsContents
<1>7. \A h \in DOMAIN data \ {o.host} : Edit(o, data)[h] = data[h]
  BY EditOneList
<1> QED
  BY <1>5, <1>6, <1>7 DEF Grows

\* What it adds was not listed, and what it removes is listed no more.
LEMMA EditLists ==
  ASSUME HostAssumption, NEW data, IsContents(data), Grows(data),
         NEW o \in Operation, ~Raises(o, data), o.kind \notin {"add_hdfs", "remove_host"},
         o.kind = "add_host" => o.host \notin DOMAIN data
  PROVE  /\ \A h \in Host \ {o.host} : Listing(Edit(o, data), h) = Listing(data, h)
         /\ o.kind # "remove_container" =>
              Listing(Edit(o, data), o.host)
                = Listing(data, o.host) \cup ToSet(NewNames(o, data))
         /\ o.kind = "remove_container" =>
              Listing(Edit(o, data), o.host) = Listing(data, o.host) \ {o.name}
         /\ Listing(data, o.host) \cap ToSet(NewNames(o, data)) = {}
         /\ ToSet(NewNames(o, data)) \subseteq Name
         /\ o.kind \notin {"add_containers", "add_host"} => ToSet(NewNames(o, data)) = {}
<1> DEFINE list == data[o.host].containers
           new == NewNames(o, data)
<1>1. o.kind # "add_host" => list \in Seq(Name) /\ Increasing(list) /\ o.host \in DOMAIN data
  BY DEF Raises, IsContents, Entry, Grows
<1>2. new \in Seq(Name) /\ ToSet(new) \subseteq Name
  BY NewNamesAre DEF ToSet
<1>3. o.kind = "add_containers" => ToSet(list) \cap ToSet(new) = {}
  BY <1>1, OperationHas, FirstIndexIs, FirstIndexIsOver, ListGrows DEF NewNames
<1>4. o.kind \notin {"add_containers", "add_host"} => ToSet(new) = {}
  BY DEF NewNames, ToSet
<1> HIDE DEF new
<1>5. o.kind = "add_containers" => ToSet(list \o new) = ToSet(list) \cup ToSet(new)
  BY <1>1, <1>2, ToSetConcat
<1>6. o.kind = "remove_container" => ToSet(RemoveFirst(list, o.name)) = ToSet(list) \ {o.name}
  BY <1>1, ListShrinks
<1> HIDE DEF list
<1> DEFINE edited == Edit(o, data)
<1>7. DOMAIN edited = DOMAIN data \cup {o.host}
  BY EditIsContents
<1>8. /\ \A h \in DOMAIN data \ {o.host} : edited[h] = data[h]
      /\ o.kind = "add_containers" => edited[o.host].containers = list \o new
      /\ o.kind = "add_host" => edited[o.host].containers = new
      /\ o.kind = "remove_container" => edited[o.host].containers = RemoveFirst(list, o.name)
      /\ o.kind = "measure" => edited[o.host].containers = list
  BY EditOneList DEF list, new
<1>9. o.kind \in Kind \ {"add_hdfs", "remove_host"}
  BY OperationHas
<1> HIDE DEF edited
<1>10. \A h \in Host \ {o.host} : Listing(edited, h) = Listing(data, h)
  BY <1>7, <1>8 DEF Listing
<1>11. Listing(edited, o.host) = ToSet(edited[o.host].containers)
  BY <1>7 DEF Listing
<1>12. o.kind # "add_host" => Listing(data, o.host) = ToSet(list)
  BY <1>1 DEF Listing, list
<1>13. o.kind = "add_host" => Listing(data, o.host) = {}
  BY DEF Listing
<1>14. /\ o.kind # "remove_container" =>
            Listing(edited, o.host) = Listing(data, o.host) \cup ToSet(new)
       /\ o.kind = "remove_container" =>
            Listing(edited, o.host) = Listing(data, o.host) \ {o.name}
  BY <1>4, <1>5, <1>6, <1>8, <1>9, <1>11, <1>12, <1>13 DEF Kind
<1>15. Listing(data, o.host) \cap ToSet(new) = {}
  BY <1>3, <1>4, <1>12, <1>13
<1> QED
  BY <1>2, <1>4, <1>10, <1>14, <1>15 DEF new, edited
=============================================================================
