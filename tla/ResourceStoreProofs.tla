-------------------------- MODULE ResourceStoreProofs --------------------------
(* Proofs about ResourceStore, for any number of concurrent requests, of   *)
(* resources and of versions.                                              *)
EXTENDS ResourceStore, SequenceTheorems, TLAPS

USE DEF Rows

VersionRow == [name : Declared, version : Nat \ {0}, ok : BOOLEAN]

Call ==
  [at : Steps, name : Declared \cup {None}, value : Value \cup {None},
   version : Nat, row : Nat, links : SUBSET Nat]

-----------------------------------------------------------------------------
(* The operators.                                                          *)

(* MAX(version) + 1 is the next number when the numbers are 1..k.          *)
LEMMA NextNumber ==
  ASSUME NEW n, NEW k \in Nat, VersionsOf(n) = 1..k
  PROVE  NextVersion(n) = k + 1
<1> DEFINE isMax(m) == \A j \in VersionsOf(n) : j <= m
<1>1. k \in VersionsOf(n) \cup {0} /\ isMax(k)
  OBVIOUS
<1>2. \A m \in VersionsOf(n) \cup {0} : isMax(m) => m = k
  <2> SUFFICES ASSUME NEW m \in VersionsOf(n) \cup {0}, isMax(m) PROVE m = k
    OBVIOUS
  <2>1. CASE k = 0
    BY <2>1
  <2>2. CASE k # 0
    <3>1. k \in VersionsOf(n) /\ m \in 0..k
      BY <2>2
    <3>2. k <= m
      BY <3>1
    <3> QED  BY <3>1, <3>2
  <2> QED  BY <2>1, <2>2
<1>3. (CHOOSE m \in VersionsOf(n) \cup {0} : isMax(m)) = k
  <2> HIDE DEF isMax
  <2> QED  BY <1>1, <1>2
<1> QED  BY <1>3 DEF NextVersion

(* The INSERT adds one number to one resource.                             *)
LEMMA VersionsAfterRecord ==
  ASSUME TypeOK, NEW c \in Client, RecordVersion(c), NEW n
  PROVE  VersionsOf(n)' = IF n = call[c].name
                          THEN VersionsOf(n) \cup {call[c].version} ELSE VersionsOf(n)
<1>1. /\ Len(versions') = Len(versions) + 1
      /\ \A i \in Rows : versions'[i] = versions[i]
      /\ versions'[Len(versions) + 1].name = call[c].name
      /\ versions'[Len(versions) + 1].version = call[c].version
  BY DEF TypeOK, RecordVersion
<1>2. Rows' = Rows \cup {Len(versions) + 1}
  BY <1>1 DEF TypeOK
<1>3. \A k : k \in VersionsOf(n)' <=> \E i \in Rows' : versions'[i].name = n /\ versions'[i].version = k
  BY DEF VersionsOf
<1>4. \A k : k \in VersionsOf(n) <=> \E i \in Rows : versions[i].name = n /\ versions[i].version = k
  BY DEF VersionsOf
<1>5. Len(versions) + 1 \notin Rows
  BY DEF TypeOK
<1>6. \A k : k \in VersionsOf(n)' <=>
         \/ \E i \in Rows : versions[i].name = n /\ versions[i].version = k
         \/ n = call[c].name /\ k = call[c].version
  <2> HIDE DEF Rows
  <2> QED  BY <1>1, <1>2, <1>3
<1> QED  BY <1>4, <1>6

-----------------------------------------------------------------------------
(* Types.                                                                  *)

LEMMA TypeInit == ASSUME StoreAssumption, Init PROVE TypeOK
  BY DEF StoreAssumption, Init, TypeOK, Idle, Steps

LEMMA TypeStep ==
  ASSUME StoreAssumption, TypeOK, [Next]_vars, Inv
  PROVE  TypeOK'
<1> USE DEF StoreAssumption, TypeOK, Steps, Proceed, Idle
<1>1. ASSUME NEW c \in Client, NEW n \in Name, NEW v \in Value, GetOrCreateResource(c, n, v)
      PROVE  TypeOK'
  BY <1>1 DEF GetOrCreateResource, HasContract
<1>2. ASSUME NEW c \in Client, TakeNumber(c) PROVE TypeOK'
  <2>1. call[c].name \in Name
    BY <1>2 DEF TakeNumber, Inv, NumberInv
  <2>2. PICK k \in Nat : VersionsOf(call[c].name) = 1..k
    BY <2>1 DEF Inv, VersionsInOrder
  <2>3. NextVersion(call[c].name) = k + 1
    BY <2>2, NextNumber
  <2>4. [call[c] EXCEPT !.at = "put", !.version = k + 1] \in Call
    <3>1. call[c] \in Call
      BY DEF Call
    <3>2. "put" \in Steps /\ k + 1 \in Nat
      OBVIOUS
    <3> HIDE DEF TypeOK, Steps
    <3> QED  BY <3>1, <3>2 DEF Call
  <2>5. call' = [call EXCEPT ![c] = [call[c] EXCEPT !.at = "put", !.version = k + 1]]
    BY <1>2, <2>3 DEF TakeNumber
  <2>6. call' \in [Client -> Call]
    BY <2>4, <2>5 DEF Call
  <2> QED  BY <1>2, <2>6 DEF TakeNumber, Call
<1>3. ASSUME NEW c \in Client, PutBlob(c) PROVE TypeOK'
  <2>1. call[c].name \in Declared /\ call[c].value \in Value /\ call[c].version \in Nat \ {0}
    BY <1>3 DEF PutBlob, Inv, NumberInv
  <2>2. Uri(call[c].name, call[c].version) \in Declared \X (Nat \ {0})
    BY <2>1 DEF Uri
  <2>3. [call[c] EXCEPT !.at = "record"] \in Call
    <3>1. call[c] \in Call
      BY DEF Call
    <3>2. "record" \in Steps
      OBVIOUS
    <3> HIDE DEF TypeOK, Steps
    <3> QED  BY <3>1, <3>2 DEF Call
  <2>4. call' \in [Client -> Call]
    BY <1>3, <2>3 DEF PutBlob, Call
  <2>5. blobs' \subseteq [uri : Declared \X (Nat \ {0}), value : Value]
    BY <1>3, <2>1, <2>2 DEF PutBlob
  <2> QED  BY <1>3, <2>4, <2>5 DEF PutBlob, Call
<1>4. ASSUME NEW c \in Client, RecordVersion(c) PROVE TypeOK'
  <2>1. call[c].name \in Declared /\ call[c].value \in Value /\ call[c].version \in Nat \ {0}
    BY <1>4 DEF RecordVersion, Inv, NumberInv
  <2>2. [name |-> call[c].name, version |-> call[c].version,
         ok |-> call[c].value \in Meets[call[c].name]] \in VersionRow
    BY <2>1 DEF VersionRow
  <2>3. versions' \in Seq(VersionRow) /\ Len(versions') = Len(versions) + 1
    BY <1>4, <2>2 DEF RecordVersion, MeetsContract, VersionRow
  <2>4. uploaded' \in Seq(Value) /\ Len(uploaded') = Len(uploaded) + 1
    BY <1>4, <2>1 DEF RecordVersion
  <2>5. Rows \subseteq Rows'
    BY <2>3
  <2>6. call' \in [Client -> Call]
    BY <1>4 DEF RecordVersion, Call
  <2> QED  BY <1>4, <2>3, <2>4, <2>5, <2>6 DEF RecordVersion, VersionRow, Call
<1>5. ASSUME NEW c \in Client, RecordConflict(c) PROVE TypeOK'
  BY <1>5 DEF RecordConflict
<1>6. ASSUME NEW c \in Client, NEW i \in Rows, NEW L \in SUBSET Rows,
             DeleteDependencies(c, i, L)
      PROVE  TypeOK'
  <2>1. [Idle EXCEPT !.at = "link", !.row = i, !.links = L] \in Call
    <3>1. i \in Nat /\ L \subseteq Nat
      OBVIOUS
    <3> QED  BY <3>1 DEF Call
  <2>2. call' \in [Client -> Call]
    BY <1>6, <2>1 DEF DeleteDependencies, Call
  <2>3. dependencies' \subseteq Rows \X Rows
    BY <1>6 DEF DeleteDependencies
  <2>4. overlap' \in [uploads : SUBSET Declared, links : SUBSET Nat]
    <3>1. PICK S : S \subseteq Nat /\ overlap' = [overlap EXCEPT !.links = @ \cup S]
      <4>1. {j \in {i} : Linking(j) # {}} \subseteq Nat
        OBVIOUS
      <4> QED  BY <1>6, <4>1 DEF DeleteDependencies
    <3> QED  BY <3>1
  <2> QED  BY <1>6, <2>2, <2>3, <2>4 DEF DeleteDependencies, Call
<1>7. ASSUME NEW c \in Client, InsertDependencies(c) PROVE TypeOK'
  <2>1. Links(c) \subseteq Rows \X Rows
    BY <1>7 DEF InsertDependencies, Links, Inv, NumberInv
  <2> QED  BY <1>7, <2>1 DEF InsertDependencies
<1>8. ASSUME NEW c \in Client, InsertConflict(c) PROVE TypeOK'
  BY <1>8 DEF InsertConflict
<1>9. ASSUME NEW c \in Client, Abandon(c) PROVE TypeOK'
  BY <1>9 DEF Abandon
<1>10. ASSUME NEW n \in Name, NEW i \in Rows, Promote(n, i) PROVE TypeOK'
  BY <1>10 DEF Promote
<1>11. CASE UNCHANGED vars
  BY <1>11 DEF vars
<1> QED  BY <1>1, <1>2, <1>3, <1>4, <1>5, <1>6, <1>7, <1>8, <1>9, <1>10, <1>11 DEF Next

(* A handler that is not recording leaves what there is of versions.       *)
LEMMA SameVersions ==
  ASSUME UNCHANGED versions
  PROVE  /\ Rows' = Rows
         /\ \A n : VersionsOf(n)' = VersionsOf(n)
         /\ VersionsInOrder' <=> VersionsInOrder
  BY DEF VersionsOf, VersionsInOrder

-----------------------------------------------------------------------------
(* The invariant.  Between taking its number and inserting its row, an     *)
(* upload may see other rows appear, so its number need not be the next    *)
(* one; but it is at most the next one, so when it is free it is the next. *)

LEMMA InvInit == ASSUME StoreAssumption, Init PROVE Inv
<1>1. VersionsInOrder
  <2>1. Len(versions) = 0 /\ Rows = {}
    BY DEF Init
  <2>2. \A n : VersionsOf(n) = {}
    BY <2>1 DEF VersionsOf
  <2>3. 0 \in 0..Len(versions) /\ 1..0 = {}
    BY <2>1
  <2> HIDE DEF Rows
  <2> QED  BY <2>1, <2>2, <2>3 DEF VersionsInOrder
<1> QED  BY <1>1 DEF Init, Inv, NumberInv, BlobsPresent, CurrentIsItsOwn, Idle

(* The part of NumberInv about one client.                                 *)
NumberOK(d) ==
  /\ call[d].at \in {"number", "put", "record"} =>
       call[d].name \in resources /\ call[d].value \in Value
  /\ call[d].at \in {"put", "record"} =>
       call[d].version - 1 \in VersionsOf(call[d].name) \cup {0} /\ call[d].version > 0
  /\ call[d].at = "record" =>
       \E o \in blobs : o.uri = Uri(call[d].name, call[d].version)
  /\ call[d].at = "link" => call[d].row \in Rows /\ call[d].links \subseteq Rows

(* A step of one client that only adds to the tables and keeps the keys of *)
(* the bucket leaves what is known of the others.                          *)
LEMMA OthersKeep ==
  ASSUME NEW d \in Client, NumberOK(d), call'[d] = call[d],
         resources \subseteq resources', Rows \subseteq Rows',
         \A n : VersionsOf(n) \subseteq VersionsOf(n)',
         \A o \in blobs : \E q \in blobs' : q.uri = o.uri
  PROVE  NumberOK(d)'
  BY DEF NumberOK, Uri

LEMMA InvStep ==
  ASSUME StoreAssumption, TypeOK, Inv, [Next]_vars
  PROVE  Inv'
<1> USE DEF Proceed, Idle
<1>0. NumberInv <=> \A d \in Client : NumberOK(d)
  BY DEF NumberInv, NumberOK
<1>a. \A d \in Client : NumberOK(d)
  BY <1>0 DEF Inv
<1>b. NumberInv' <=> \A d \in Client : NumberOK(d)'
  BY DEF NumberInv, NumberOK
<1>c. \A c \in Client : DOMAIN call = Client /\ call[c] \in Call
  BY DEF TypeOK, Call
<1>1. ASSUME NEW c \in Client, NEW n \in Name, NEW v \in Value, GetOrCreateResource(c, n, v)
      PROVE  Inv'
  <2>1. UNCHANGED <<versions, blobs, current>> /\ resources' = resources \cup {n}
    BY <1>1 DEF GetOrCreateResource
  <2>2. \A d \in Client \ {c} : call'[d] = call[d]
    BY <1>1, <1>c DEF GetOrCreateResource
  <2>3. /\ call'[c].at = "number" /\ call'[c].name = n /\ call'[c].value = v
    BY <1>1, <1>c DEF GetOrCreateResource
  <2>4. NumberOK(c)'
    BY <2>1, <2>3 DEF NumberOK
  <2>5. \A d \in Client \ {c} : NumberOK(d)'
    BY <1>a, <2>1, <2>2, SameVersions, OthersKeep
  <2> QED  BY <1>b, <2>1, <2>4, <2>5, SameVersions DEF Inv, BlobsPresent, CurrentIsItsOwn
<1>2. ASSUME NEW c \in Client, TakeNumber(c) PROVE Inv'
  <2>1. UNCHANGED <<versions, blobs, current, resources>>
    BY <1>2 DEF TakeNumber
  <2>2. \A d \in Client \ {c} : call'[d] = call[d]
    BY <1>2, <1>c DEF TakeNumber
  <2>3. /\ call'[c].at = "put" /\ call'[c].name = call[c].name /\ call'[c].value = call[c].value
        /\ call'[c].version = NextVersion(call[c].name)
    BY <1>2, <1>c DEF TakeNumber, Call
  <2>4. call[c].name \in resources /\ call[c].name \in Name /\ call[c].value \in Value
    BY <1>2, <1>a DEF TakeNumber, NumberOK, TypeOK, StoreAssumption
  <2>5. PICK k \in Nat : VersionsOf(call[c].name) = 1..k
    BY <2>4 DEF Inv, VersionsInOrder, TypeOK
  <2>6. NextVersion(call[c].name) = k + 1
    BY <2>5, NextNumber
  <2>7. k \in VersionsOf(call[c].name) \cup {0}
    BY <2>5
  <2>8. NumberOK(c)'
    BY <2>1, <2>3, <2>4, <2>6, <2>7, SameVersions DEF NumberOK
  <2>9. \A d \in Client \ {c} : NumberOK(d)'
    BY <1>a, <2>1, <2>2, SameVersions, OthersKeep
  <2> QED  BY <1>b, <2>1, <2>8, <2>9, SameVersions DEF Inv, BlobsPresent, CurrentIsItsOwn
<1>3. ASSUME NEW c \in Client, PutBlob(c) PROVE Inv'
  <2> DEFINE uri == Uri(call[c].name, call[c].version)
  <2>1. /\ UNCHANGED <<versions, current, resources>>
        /\ blobs' = {o \in blobs : o.uri # uri} \cup {[uri |-> uri, value |-> call[c].value]}
    BY <1>3 DEF PutBlob
  <2>2. \A d \in Client \ {c} : call'[d] = call[d]
    BY <1>3, <1>c DEF PutBlob
  <2>3. /\ call'[c].at = "record" /\ call'[c].name = call[c].name
        /\ call'[c].value = call[c].value /\ call'[c].version = call[c].version
    BY <1>3, <1>c DEF PutBlob, Call
  <2>4. /\ \A o \in blobs : \E q \in blobs' : q.uri = o.uri
        /\ \E q \in blobs' : q.uri = uri
    <3> DEFINE new == [uri |-> uri, value |-> call[c].value]
    <3>1. new.uri = uri /\ new \in blobs'
      BY <2>1
    <3>2. \A o \in blobs : o.uri # uri => o \in blobs'
      BY <2>1
    <3> HIDE DEF new, uri
    <3> QED  BY <3>1, <3>2
  <2>6. NumberOK(c)'
    BY <1>3, <1>a, <2>1, <2>3, <2>4, SameVersions DEF PutBlob, NumberOK, Uri
  <2>7. \A d \in Client \ {c} : NumberOK(d)'
    BY <1>a, <2>1, <2>2, <2>4, SameVersions, OthersKeep
  <2>8. BlobsPresent'
    <3>1. BlobsPresent /\ Rows' = Rows /\ versions' = versions
      BY <2>1 DEF Inv
    <3>2. \A k, l : Uri(k, l)' = Uri(k, l)
      BY DEF Uri
    <3> HIDE DEF Rows, uri
    <3> QED  BY <2>4, <3>1, <3>2 DEF BlobsPresent
  <2> QED  BY <1>b, <2>1, <2>6, <2>7, <2>8, SameVersions DEF Inv, CurrentIsItsOwn
<1>4. ASSUME NEW c \in Client, RecordVersion(c) PROVE Inv'
  <2> DEFINE n == call[c].name  new == Len(versions) + 1
  <2>1. /\ UNCHANGED <<blobs, current, resources>>
        /\ call[c].at = "record" /\ call[c].version \notin VersionsOf(n)
    BY <1>4 DEF RecordVersion
  <2>2. \A d \in Client \ {c} : call'[d] = call[d]
    BY <1>4, <1>c DEF RecordVersion
  <2>3. /\ Len(versions') = new
        /\ \A i \in Rows : versions'[i] = versions[i]
        /\ versions'[new].name = n /\ versions'[new].version = call[c].version
    BY <1>4 DEF TypeOK, RecordVersion
  <2>4. Rows' = Rows \cup {new} /\ new \in Nat /\ \A i \in Rows : i < new
    BY <2>3 DEF TypeOK
  <2>5. \A m : VersionsOf(m)' = IF m = n THEN VersionsOf(m) \cup {call[c].version} ELSE VersionsOf(m)
    BY <1>4, VersionsAfterRecord
  <2>6. n \in Name /\ call[c].version \in Nat
    BY <1>a, <2>1, <1>c DEF NumberOK, TypeOK, StoreAssumption, Call
  <2>7. PICK k \in 0..Len(versions) : VersionsOf(n) = 1..k
    BY <2>6 DEF Inv, VersionsInOrder
  <2>8. call[c].version = k + 1
    <3>1. call[c].version - 1 \in (1..k) \cup {0} /\ call[c].version > 0
      BY <1>a, <2>1, <2>7 DEF NumberOK
    <3>2. call[c].version \notin 1..k
      BY <2>1, <2>7
    <3>3. k \in Nat
      BY <2>7 DEF TypeOK
    <3> HIDE DEF n
    <3> QED  BY <3>1, <3>2, <3>3, <2>6
  <2>9. VersionsInOrder'
    <3>1. \A m \in Name : \E j \in 0..Len(versions') : VersionsOf(m)' = 1..j
      <4> SUFFICES ASSUME NEW m \in Name PROVE \E j \in 0..Len(versions') : VersionsOf(m)' = 1..j
        OBVIOUS
      <4>1. CASE m = n
        <5>1. VersionsOf(m)' = 1..(k + 1)
          <6>1. k \in Nat
            BY <2>7 DEF TypeOK
          <6>2. (1..k) \cup {k + 1} = 1..(k + 1)
            BY <6>1
          <6> HIDE DEF n
          <6> QED  BY <4>1, <2>5, <2>7, <2>8, <6>2
        <5>2. k + 1 \in 0..Len(versions')
          BY <2>3, <2>7 DEF TypeOK
        <5> QED  BY <5>1, <5>2
      <4>2. CASE m # n
        <5>1. PICK j \in 0..Len(versions) : VersionsOf(m) = 1..j
          BY DEF Inv, VersionsInOrder
        <5>2. j \in 0..Len(versions')
          BY <2>3 DEF TypeOK
        <5> QED  BY <4>2, <2>5, <5>1, <5>2
      <4> QED  BY <4>1, <4>2
    <3>2. ASSUME NEW i \in Rows', NEW j \in Rows', i < j, versions'[i].name = versions'[j].name
          PROVE  versions'[i].version < versions'[j].version
      <4>1. CASE j \in Rows
        <5>1. i \in Rows
          BY <3>2, <4>1, <2>4 DEF TypeOK
        <5> QED  BY <3>2, <4>1, <5>1, <2>3 DEF Inv, VersionsInOrder
      <4>2. CASE j = new
        <5>1. i \in Rows
          BY <3>2, <4>2, <2>4 DEF TypeOK
        <5>2. versions[i].version \in VersionsOf(n)
          BY <3>2, <4>2, <5>1, <2>3 DEF VersionsOf
        <5>3. versions[i].version \in 1..k
          BY <5>2, <2>7
        <5>4. versions'[i].version = versions[i].version /\ versions'[j].version = k + 1
          BY <4>2, <5>1, <2>3, <2>8
        <5> QED  BY <5>3, <5>4, <2>7 DEF TypeOK
      <4> QED  BY <4>1, <4>2, <2>4
    <3> QED  BY <3>1, <3>2 DEF VersionsInOrder
  <2>10. NumberOK(c)'
    BY <1>4, <1>c DEF RecordVersion, NumberOK
  <2>11. \A d \in Client \ {c} : NumberOK(d)'
    <3>1. Rows \subseteq Rows'
      BY <2>4
    <3>2. \A m : VersionsOf(m) \subseteq VersionsOf(m)'
      BY <2>5
    <3> QED  BY <1>a, <2>1, <2>2, <3>1, <3>2, OthersKeep
  <2>12. BlobsPresent'
    <3>1. \E o \in blobs : o.uri = Uri(n, call[c].version)
      BY <1>a, <2>1 DEF NumberOK
    <3> QED  BY <2>1, <2>3, <2>4, <3>1 DEF Inv, BlobsPresent, Uri
  <2>13. CurrentIsItsOwn'
    BY <2>1, <2>3, <2>4 DEF Inv, CurrentIsItsOwn
  <2> QED  BY <1>b, <2>9, <2>10, <2>11, <2>12, <2>13 DEF Inv
<1>5. ASSUME NEW c \in Client, NEW to, Proceed(c, to),
             to.at \notin {"number", "put", "record"},
             to.at = "link" => to.row \in Rows /\ to.links \subseteq Rows,
             UNCHANGED <<resources, current, versions, blobs>>
      PROVE  Inv'
  <2>1. \A d \in Client \ {c} : call'[d] = call[d]
    BY <1>5, <1>c
  <2>2. call'[c] = to
    BY <1>5, <1>c
  <2>3. NumberOK(c)'
    BY <1>5, <2>2 DEF NumberOK
  <2>4. \A d \in Client \ {c} : NumberOK(d)'
    BY <1>5, <1>a, <2>1, SameVersions, OthersKeep
  <2> QED  BY <1>5, <1>b, <2>3, <2>4, SameVersions DEF Inv, BlobsPresent, CurrentIsItsOwn
<1>6. ASSUME NEW c \in Client,
             RecordConflict(c) \/ InsertDependencies(c) \/ InsertConflict(c) \/ Abandon(c)
      PROVE  Inv'
  <2>1. Proceed(c, Idle) /\ UNCHANGED <<resources, current, versions, blobs>>
    BY <1>6 DEF RecordConflict, InsertDependencies, InsertConflict, Abandon
  <2> QED  BY <2>1, <1>5
<1>7. ASSUME NEW c \in Client, NEW i \in Rows, NEW L \in SUBSET Rows,
             DeleteDependencies(c, i, L)
      PROVE  Inv'
  <2> DEFINE to == [Idle EXCEPT !.at = "link", !.row = i, !.links = L]
  <2>1. Proceed(c, to) /\ UNCHANGED <<resources, current, versions, blobs>>
    BY <1>7 DEF DeleteDependencies
  <2>2. to.at = "link" /\ to.row = i /\ to.links = L
    OBVIOUS
  <2> HIDE DEF to
  <2> QED  BY <2>1, <2>2, <1>5
<1>8. ASSUME NEW n \in Name, NEW i \in Rows, Promote(n, i) PROVE Inv'
  <2>1. UNCHANGED <<resources, versions, blobs, call>> /\ versions[i].name = n
    BY <1>8 DEF Promote
  <2>2. \A d \in Client : NumberOK(d)'
    BY <1>a, <2>1, SameVersions, OthersKeep
  <2>3. CurrentIsItsOwn'
    BY <1>8, <2>1 DEF Promote, Inv, CurrentIsItsOwn, TypeOK
  <2> QED  BY <1>b, <2>1, <2>2, <2>3, SameVersions DEF Inv, BlobsPresent
<1>9. CASE UNCHANGED vars
  <2>1. UNCHANGED <<resources, current, versions, blobs, call>>
    BY <1>9 DEF vars
  <2>2. \A d \in Client : NumberOK(d)'
    BY <1>a, <2>1, SameVersions, OthersKeep
  <2> QED  BY <1>b, <2>1, <2>2, SameVersions DEF Inv, BlobsPresent, CurrentIsItsOwn
<1> QED  BY <1>1, <1>2, <1>3, <1>4, <1>6, <1>7, <1>8, <1>9 DEF Next

(* Every variable of ResourceStore has its type, and its inductive         *)
(* invariant holds, whatever requests run at the same time and wherever    *)
(* they fail.                                                              *)
THEOREM StoreInvariant == Spec => [](TypeOK /\ Inv)
<1> USE StoreAssumption
<1>1. Init => TypeOK /\ Inv
  BY TypeInit, InvInit
<1>2. TypeOK /\ Inv /\ [Next]_vars => (TypeOK /\ Inv)'
  BY TypeStep, InvStep
<1> QED  BY <1>1, <1>2, PTL DEF Spec

(* Versions are numbered without gaps or repetitions (VersionsInOrder).    *)
THEOREM NumbersInOrder == Spec => []VersionsInOrder
<1>1. Inv => VersionsInOrder
  BY DEF Inv
<1> QED  BY <1>1, StoreInvariant, PTL

(* No version is recorded without its blob (BlobsPresent).                 *)
THEOREM VersionsHaveBlobs == Spec => []BlobsPresent
<1>1. Inv => BlobsPresent
  BY DEF Inv
<1> QED  BY <1>1, StoreInvariant, PTL

(* A current version belongs to its resource (CurrentIsItsOwn).            *)
THEOREM CurrentBelongs == Spec => []CurrentIsItsOwn
<1>1. Inv => CurrentIsItsOwn
  BY DEF Inv
<1> QED  BY <1>1, StoreInvariant, PTL

-----------------------------------------------------------------------------
(* Refinement of VersionLog.                                               *)

LogOf(n) == [k \in VersionsOf(n) |-> versions[RowOf(n, k)].ok]
CurrentOf(n) == IF current[n] = 0 THEN 0 ELSE versions[current[n]].version

(* Name and number identify a row.                                         *)
RowsKnown ==
  \A n \in Name : \A i \in Rows : versions[i].name = n => RowOf(n, versions[i].version) = i

LEMMA RowOfRow == TypeOK /\ Inv => RowsKnown
<1> SUFFICES ASSUME TypeOK, Inv, NEW n \in Name, NEW i \in Rows, versions[i].name = n
             PROVE  RowOf(n, versions[i].version) = i
  BY DEF RowsKnown
<1> DEFINE is(j) == versions[j].name = n /\ versions[j].version = versions[i].version
<1>1. is(i)
  OBVIOUS
<1>2. \A j \in Rows : is(j) => j = i
  <2> SUFFICES ASSUME NEW j \in Rows, is(j), j # i PROVE FALSE
    OBVIOUS
  <2>1. /\ i \in Nat /\ j \in Nat
        /\ versions[i].version \in Nat /\ versions[j].version = versions[i].version
    <3>1. versions \in Seq(VersionRow)
      BY DEF TypeOK, VersionRow
    <3>2. versions[i] \in VersionRow
      BY <3>1, ElementOfSeq
    <3> QED  BY <3>1, <3>2 DEF VersionRow
  <2>2. i < j \/ j < i
    BY <2>1
  <2>3. versions[j].version < versions[i].version \/ versions[i].version < versions[j].version
    BY <2>2 DEF Inv, VersionsInOrder
  <2> QED  BY <2>1, <2>3
<1>3. (CHOOSE j \in Rows : is(j)) = i
  <2> HIDE DEF is, Rows
  <2> QED  BY <1>1, <1>2
<1> QED  BY <1>3 DEF RowOf

LEMMA LogInit == Init => Log!Init
<1> SUFFICES ASSUME Init PROVE Log!Init
  OBVIOUS
<1>1. \A n : VersionsOf(n) = {}
  BY DEF Init, VersionsOf
<1>2. \A n : LogOf(n) = <<>>
  BY <1>1 DEF LogOf
<1>3. [n \in Name |-> LogOf(n)] = [n \in Name |-> <<>>]
  BY <1>2
<1>4. [n \in Name |-> CurrentOf(n)] = [n \in Name |-> 0]
  BY DEF Init, CurrentOf
<1> QED  BY <1>3, <1>4 DEF Log!Init, LogOf, CurrentOf

LEMMA LogStep ==
  ASSUME StoreAssumption, TypeOK, Inv, RowsKnown, RowsKnown', Inv', [Next]_vars
  PROVE  [Log!Next]_(Log!vars)
<1>1. ASSUME UNCHANGED <<versions, current>> PROVE UNCHANGED Log!vars
  BY <1>1 DEF Log!vars, VersionsOf, RowOf
<1>2. ASSUME NEW c \in Client, RecordVersion(c) PROVE Log!Next
  <2> DEFINE new == Len(versions) + 1
  <2>0. PICK n, ok : n = call[c].name /\ ok = (call[c].value \in Meets[call[c].name])
    OBVIOUS
  <2>13. ok \in BOOLEAN
    BY <2>0
  <2>1. /\ Len(versions') = new
        /\ \A i \in Rows : versions'[i] = versions[i]
        /\ versions'[new].name = n /\ versions'[new].version = call[c].version
        /\ versions'[new].ok = ok
    BY <1>2, <2>0 DEF TypeOK, RecordVersion, MeetsContract
  <2>2. Rows' = Rows \cup {new}
    BY <2>1 DEF TypeOK
  <2>3. n \in Declared /\ n \in Name /\ call[c].version \in Nat /\ call[c].at = "record"
    BY <1>2, <2>0 DEF RecordVersion, Inv, NumberInv, TypeOK, StoreAssumption
  <2>4. PICK k \in 0..Len(versions) : VersionsOf(n) = 1..k
    BY <2>3 DEF Inv, VersionsInOrder
  <2>5. k \in Nat /\ call[c].version = k + 1
    <3>1. call[c].version - 1 \in (1..k) \cup {0} /\ call[c].version > 0
      BY <2>0, <2>3, <2>4 DEF Inv, NumberInv
    <3>2. call[c].version \notin 1..k
      BY <1>2, <2>0, <2>4 DEF RecordVersion
    <3>3. k \in Nat
      BY <2>4 DEF TypeOK
    <3> QED  BY <3>1, <3>2, <3>3, <2>3
  <2>6. \A m \in Name : \A j \in VersionsOf(m) : LogOf(m)'[j] = LogOf(m)[j]
    <3> SUFFICES ASSUME NEW m \in Name, NEW j \in VersionsOf(m) PROVE LogOf(m)'[j] = LogOf(m)[j]
      OBVIOUS
    <3>1. PICK i \in Rows : versions[i].name = m /\ versions[i].version = j
      BY DEF VersionsOf
    <3>2. RowOf(m, j) = i
      BY <3>1 DEF RowsKnown
    <3>3. i \in Rows' /\ versions'[i] = versions[i]
      BY <2>1, <2>2
    <3>4. RowOf(m, j)' = i
      BY <3>1, <3>3 DEF RowsKnown
    <3>5. j \in VersionsOf(m)'
      BY <1>2, VersionsAfterRecord
    <3> QED  BY <3>2, <3>3, <3>4, <3>5 DEF LogOf
  <2>7. \A m \in Name \ {n} : LogOf(m)' = LogOf(m)
    <3> SUFFICES ASSUME NEW m \in Name \ {n} PROVE LogOf(m)' = LogOf(m)
      OBVIOUS
    <3>1. VersionsOf(m)' = VersionsOf(m)
      BY <1>2, <2>0, VersionsAfterRecord
    <3> QED  BY <2>6, <3>1 DEF LogOf
  <2>8. LogOf(n)' = Append(LogOf(n), ok)
    <3>1. VersionsOf(n)' = 1..(k + 1)
      <4>1. (1..k) \cup {k + 1} = 1..(k + 1)
        BY <2>5
      <4>2. VersionsOf(n)' = VersionsOf(n) \cup {call[c].version}
        BY <1>2, <2>0, VersionsAfterRecord
      <4> QED  BY <4>1, <4>2, <2>4, <2>5
    <3>2. LogOf(n)'[k + 1] = ok
      <4>1. new \in Rows'
        BY <2>2
      <4>2. RowOf(n, k + 1)' = new
        BY <4>1, <2>1, <2>3, <2>5 DEF RowsKnown
      <4>3. k + 1 \in VersionsOf(n)'
        BY <3>1, <2>5
      <4> QED  BY <4>2, <4>3, <2>1 DEF LogOf
    <3> DEFINE f == LogOf(n)
    <3>3. f = [j \in 1..k |-> f[j]] /\ \A j \in 1..k : f[j] \in BOOLEAN
      <4>1. f = [j \in 1..k |-> f[j]]
        BY <2>4 DEF LogOf
      <4>2. ASSUME NEW j \in 1..k PROVE f[j] \in BOOLEAN
        <5>1. PICK i \in Rows : versions[i].name = n /\ versions[i].version = j
          BY <2>4 DEF VersionsOf
        <5>2. RowOf(n, j) = i
          BY <2>3, <5>1 DEF RowsKnown
        <5>3. versions[i].ok \in BOOLEAN
          <6>1. versions \in Seq(VersionRow)
            BY DEF TypeOK, VersionRow
          <6>2. versions[i] \in VersionRow
            BY <6>1, ElementOfSeq
          <6> QED  BY <6>2 DEF VersionRow
        <5> QED  BY <2>4, <5>2, <5>3 DEF LogOf
      <4> QED  BY <4>1, <4>2
    <3>4. f \in Seq(BOOLEAN) /\ Len(f) = k
      <4> HIDE DEF f
      <4>1. [j \in 1..k |-> f[j]] \in Seq(BOOLEAN)
        BY <2>5, <3>3
      <4>2. Len([j \in 1..k |-> f[j]]) = k
        BY <2>5, <3>3
      <4> QED  BY <3>3, <4>1, <4>2
    <3>5. \A j \in 1..k : LogOf(n)'[j] = f[j]
      BY <2>3, <2>4, <2>6
    <3>6. LogOf(n)' = [j \in 1..(k + 1) |-> LogOf(n)'[j]]
      BY <3>1 DEF LogOf
    <3> HIDE DEF f
    <3>7. /\ Append(f, ok) \in Seq(BOOLEAN) /\ Len(Append(f, ok)) = k + 1
          /\ \A j \in 1..k : Append(f, ok)[j] = f[j]
          /\ Append(f, ok)[k + 1] = ok
      BY <2>13, <3>4, AppendProperties
    <3>8. Append(f, ok) = [j \in 1..(k + 1) |-> Append(f, ok)[j]]
      <4>1. Append(f, ok) \in [1..(k + 1) -> BOOLEAN]
        BY <3>7, LenProperties
      <4> DEFINE g == Append(f, ok)
      <4> HIDE DEF g
      <4> QED  BY <4>1 DEF g
    <3>9. \A j \in 1..(k + 1) : LogOf(n)'[j] = Append(f, ok)[j]
      BY <3>2, <3>5, <3>7, <2>5
    <3> QED  BY <3>6, <3>8, <3>9 DEF f
  <2>9. \A m \in Name : CurrentOf(m)' = CurrentOf(m)
    <3>1. current' = current
      BY <1>2 DEF RecordVersion
    <3>2. \A m \in Name : current[m] # 0 => versions'[current[m]] = versions[current[m]]
      BY <2>1 DEF Inv, CurrentIsItsOwn
    <3> QED  BY <3>1, <3>2 DEF CurrentOf
  <2>10. [m \in Name |-> LogOf(m)'] = [[m \in Name |-> LogOf(m)] EXCEPT ![n] = Append(@, ok)]
    <3> QED  BY <2>3, <2>7, <2>8
  <2>11. [m \in Name |-> CurrentOf(m)'] = [m \in Name |-> CurrentOf(m)]
    BY <2>9
  <2>12. Log!Record(n, ok)
    BY <2>3, <2>10, <2>11 DEF Log!Record, LogOf, CurrentOf
  <2> QED  BY <2>3, <2>12, <2>13 DEF Log!Next
<1>3. ASSUME NEW n \in Name, NEW i \in Rows, Promote(n, i) PROVE Log!Next
  <2>1. versions' = versions /\ current' = [current EXCEPT ![n] = i] /\ versions[i].name = n
    BY <1>3 DEF Promote
  <2>2. PICK k \in VersionsOf(n) : k = versions[i].version
    BY <2>1 DEF VersionsOf
  <2>3. \A m \in Name : LogOf(m)' = LogOf(m)
    BY <2>1 DEF LogOf, VersionsOf, RowOf
  <2>4. \A m \in Name : CurrentOf(m)' = IF m = n THEN k ELSE CurrentOf(m)
    BY <2>1, <2>2 DEF CurrentOf, TypeOK
  <2>5. [m \in Name |-> CurrentOf(m)'] = [[m \in Name |-> CurrentOf(m)] EXCEPT ![n] = k]
    BY <2>4
  <2>6. [m \in Name |-> LogOf(m)'] = [m \in Name |-> LogOf(m)]
    BY <2>3
  <2>7. k \in DOMAIN [m \in Name |-> LogOf(m)][n]
    BY <2>2 DEF LogOf
  <2>8. Log!Promote(n, k)
    BY <2>5, <2>6, <2>7 DEF Log!Promote, LogOf, CurrentOf
  <2> QED  BY <2>7, <2>8 DEF Log!Next, LogOf
<1>4. ASSUME NEW c \in Client, NEW n \in Name, NEW v \in Value, GetOrCreateResource(c, n, v)
      PROVE  UNCHANGED <<versions, current>>
  BY <1>4 DEF GetOrCreateResource
<1>5. ASSUME NEW c \in Client, NEW i \in Rows, NEW L \in SUBSET Rows, DeleteDependencies(c, i, L)
      PROVE  UNCHANGED <<versions, current>>
  BY <1>5 DEF DeleteDependencies
<1>6. ASSUME NEW c \in Client,
             \/ TakeNumber(c) \/ PutBlob(c) \/ RecordConflict(c)
             \/ InsertDependencies(c) \/ InsertConflict(c) \/ Abandon(c)
      PROVE  UNCHANGED <<versions, current>>
  BY <1>6 DEF TakeNumber, PutBlob, RecordConflict, InsertDependencies, InsertConflict, Abandon
<1>7. CASE UNCHANGED vars
  BY <1>7, <1>1 DEF vars
<1> QED  BY <1>1, <1>2, <1>3, <1>4, <1>5, <1>6, <1>7 DEF Next

(* The tables of resource_store implement VersionLog (ImplementsLog).      *)
THEOREM StoreImplementsLog == Spec => ImplementsLog
<1> USE StoreAssumption
<1>1. TypeOK /\ Inv /\ RowsKnown /\ RowsKnown' /\ Inv' /\ [Next]_vars => [Log!Next]_(Log!vars)
  BY LogStep
<1> QED  BY <1>1, LogInit, RowOfRow, StoreInvariant, PTL DEF Spec, ImplementsLog, Log!Spec

(* Every variable of ResourceStore has its type (TypeOK).                  *)
THEOREM TypesHold == Spec => []TypeOK
<1> QED  BY StoreInvariant, PTL

-----------------------------------------------------------------------------
(* Uploads and dependency updates that were handled one at a time.         *)

(* The one upload of n holds a number that no row has, and the blob under  *)
(* that number, once put, is its own.                                      *)
UploadOK(c) ==
  /\ \A d \in Uploading(call[c].name) : d = c
  /\ call[c].at \in {"put", "record"} => call[c].version \notin VersionsOf(call[c].name)
  /\ call[c].at = "record" =>
       \A o \in blobs : o.uri = Uri(call[c].name, call[c].version) => o.value = call[c].value

ContentInv ==
  \A n \in Name \ overlap.uploads : KeptSince(n) /\ \A c \in Uploading(n) : UploadOK(c)

(* The one update of row i has deleted what i had, and inserted nothing.   *)
LinkInv ==
  \A c \in Client :
    call[c].at = "link" /\ call[c].row \notin overlap.links =>
      /\ \A d \in Linking(call[c].row) : d = c
      /\ \A p \in dependencies : p[1] # call[c].row

LEMMA ContentInit == Init => ContentInv /\ LinkInv
  BY DEF Init, ContentInv, LinkInv, KeptSince, Uploading, Idle

(* What is known of the uploads of n stays while the tables, the bucket    *)
(* and those uploads are as they were, or fewer.                           *)
LEMMA ContentKeeps ==
  ASSUME NEW n, KeptSince(n) /\ \A d \in Uploading(n) : UploadOK(d),
         UNCHANGED <<versions, blobs, uploaded>>,
         \A d \in Uploading(n)' : d \in Uploading(n) /\ call'[d] = call[d]
  PROVE  KeptSince(n)' /\ \A d \in Uploading(n)' : UploadOK(d)'
<1>1. KeptSince(n)'
  BY DEF KeptSince, Uri
<1>2. ASSUME NEW d \in Uploading(n)' PROVE UploadOK(d)'
  <2>1. d \in Uploading(n) /\ call'[d] = call[d] /\ UploadOK(d) /\ call[d].name = n
    BY <1>2 DEF Uploading
  <2>2. \A e \in Uploading(call[d].name)' : e = d
    BY <2>1 DEF UploadOK
  <2>3. \A m : VersionsOf(m)' = VersionsOf(m)
    BY SameVersions
  <2> QED  BY <2>1, <2>2, <2>3 DEF UploadOK, Uri
<1> QED  BY <1>1, <1>2

LEMMA ContentStep ==
  ASSUME StoreAssumption, TypeOK, Inv, ContentInv, [Next]_vars
  PROVE  ContentInv'
<1> USE DEF Proceed, Idle
<1>c. \A c \in Client : DOMAIN call = Client /\ call[c] \in Call
  BY DEF TypeOK, Call
<1> DEFINE Good(n) == KeptSince(n) /\ \A d \in Uploading(n) : UploadOK(d)
<1>a. \A n \in Name \ overlap.uploads : Good(n)
  BY DEF ContentInv
<1>b. (\A n \in Name \ overlap'.uploads : Good(n)') => ContentInv'
  BY DEF ContentInv
<1>e. \A n \in Name : VersionsOf(n) \in {1..k : k \in Nat}
  BY DEF Inv, VersionsInOrder, TypeOK
<1> HIDE DEF Good
(* A request that ends or a step on other tables.                          *)
<1>1. ASSUME UNCHANGED <<versions, blobs, uploaded>>, overlap'.uploads = overlap.uploads,
             NEW c \in Client,
             \/ UNCHANGED call
             \/ \E f : /\ call' = [call EXCEPT ![c] = f]
                       /\ f.at \notin {"number", "put", "record"}
      PROVE  ContentInv'
  <2>1. ASSUME NEW n PROVE \A d \in Uploading(n)' : d \in Uploading(n) /\ call'[d] = call[d]
    BY <1>1, <1>c DEF Uploading
  <2>2. ASSUME NEW n \in Name \ overlap'.uploads PROVE Good(n)'
    BY <1>1, <1>a, <2>1, ContentKeeps DEF Good
  <2> QED  BY <1>b, <2>2
<1>2. ASSUME NEW c \in Client, NEW n \in Name, NEW v \in Value, GetOrCreateResource(c, n, v)
      PROVE  ContentInv'
  <2>1. /\ UNCHANGED <<versions, blobs, uploaded>> /\ call[c].at = "idle"
        /\ call' = [call EXCEPT ![c] = [Idle EXCEPT !.at = "number", !.name = n, !.value = v]]
        /\ overlap'.uploads = overlap.uploads \cup {m \in {n} : Uploading(m) # {}}
    BY <1>2 DEF GetOrCreateResource, TypeOK
  <2>2. /\ call'[c].at = "number" /\ call'[c].name = n
        /\ \A d \in Client \ {c} : call'[d] = call[d]
    BY <2>1, <1>c
  <2>3. ASSUME NEW m \in Name \ overlap'.uploads PROVE Good(m)'
    <3>1. m \notin overlap.uploads /\ Good(m)
      BY <2>1, <2>3, <1>a
    <3>2. CASE m # n
      <4>1. \A d \in Uploading(m)' : d \in Uploading(m) /\ call'[d] = call[d]
        BY <2>2, <3>2 DEF Uploading
      <4> QED  BY <2>1, <3>1, <4>1, ContentKeeps DEF Good
    <3>3. CASE m = n
      <4>1. Uploading(n) = {}
        BY <2>1, <2>3, <3>3
      <4>2. \A d \in Uploading(n)' : d = c
        BY <2>2, <4>1 DEF Uploading
      <4>3. UploadOK(c)'
        BY <2>2, <4>2 DEF UploadOK
      <4>4. KeptSince(n)'
        BY <2>1, <3>1, <3>3 DEF Good, KeptSince, Uri
      <4> QED  BY <3>3, <4>2, <4>3, <4>4 DEF Good
    <3> QED  BY <3>2, <3>3
  <2> QED  BY <1>b, <2>3
<1>3. ASSUME NEW c \in Client, TakeNumber(c) PROVE ContentInv'
  <2>1. /\ UNCHANGED <<versions, blobs, uploaded, overlap>> /\ call[c].at = "number"
        /\ call' = [call EXCEPT ![c] = [call[c] EXCEPT !.at = "put",
                                          !.version = NextVersion(call[c].name)]]
    BY <1>3 DEF TakeNumber
  <2>2. /\ call'[c].at = "put" /\ call'[c].name = call[c].name
        /\ call'[c].version = NextVersion(call[c].name)
        /\ \A d \in Client \ {c} : call'[d] = call[d]
    BY <2>1, <1>c DEF Call
  <2>3. ASSUME NEW m \in Name \ overlap'.uploads PROVE Good(m)'
    <3>1. Good(m)
      BY <2>1, <2>3, <1>a
    <3>2. CASE m # call[c].name
      <4>1. \A d \in Uploading(m)' : d \in Uploading(m) /\ call'[d] = call[d]
        BY <2>2, <3>2 DEF Uploading
      <4> QED  BY <2>1, <3>1, <4>1, ContentKeeps DEF Good
    <3>3. CASE m = call[c].name
      <4>1. c \in Uploading(m) /\ \A d \in Uploading(m) : d = c
        BY <2>1, <3>1, <3>3 DEF Good, UploadOK, Uploading
      <4>2. \A d \in Uploading(m)' : d = c
        BY <2>2, <4>1 DEF Uploading
      <4>3. call'[c].version \notin VersionsOf(m)'
        <5>1. PICK k \in Nat : VersionsOf(m) = 1..k
          BY <1>e
        <5>2. call'[c].version = k + 1
          BY <2>2, <3>3, <5>1, NextNumber
        <5> QED  BY <5>1, <5>2, <2>1, SameVersions
      <4>4. UploadOK(c)'
        BY <2>2, <3>3, <4>2, <4>3 DEF UploadOK
      <4>5. KeptSince(m)'
        BY <2>1, <3>1 DEF Good, KeptSince, Uri
      <4> QED  BY <4>2, <4>4, <4>5 DEF Good
    <3> QED  BY <3>2, <3>3
  <2> QED  BY <1>b, <2>3
<1>4. ASSUME NEW c \in Client, PutBlob(c) PROVE ContentInv'
  <2> DEFINE uri == Uri(call[c].name, call[c].version)
             new == [uri |-> uri, value |-> call[c].value]
  <2>1. /\ UNCHANGED <<versions, uploaded, overlap>> /\ call[c].at = "put"
        /\ call' = [call EXCEPT ![c] = [call[c] EXCEPT !.at = "record"]]
        /\ blobs' = {o \in blobs : o.uri # uri} \cup {new}
    BY <1>4 DEF PutBlob
  <2>2. /\ call'[c].at = "record" /\ call'[c].name = call[c].name
        /\ call'[c].value = call[c].value /\ call'[c].version = call[c].version
        /\ \A d \in Client \ {c} : call'[d] = call[d]
    BY <2>1, <1>c DEF Call
  <2>3. \A o \in blobs' : IF o.uri = uri THEN o.value = call[c].value ELSE o \in blobs
    <3>1. new.uri = uri /\ new.value = call[c].value
      OBVIOUS
    <3> HIDE DEF uri, new
    <3> QED  BY <2>1, <3>1
  <2>4. ASSUME NEW m \in Name \ overlap'.uploads PROVE Good(m)'
    <3>1. Good(m)
      BY <2>1, <2>4, <1>a
    <3>2. CASE m # call[c].name
      <4>1. KeptSince(m)'
        <5>1. \A k : Uri(m, k) # uri /\ Uri(m, k)' = Uri(m, k)
          BY <3>2 DEF Uri
        <5> HIDE DEF uri
        <5> QED  BY <2>1, <2>3, <3>1, <5>1 DEF Good, KeptSince
      <4>2. ASSUME NEW d \in Uploading(m)' PROVE UploadOK(d)'
        <5>1. d \in Uploading(m) /\ d # c /\ call'[d] = call[d] /\ call[d].name = m /\ UploadOK(d)
          BY <2>2, <3>1, <3>2, <4>2 DEF Good, Uploading
        <5>2. \A e \in Uploading(m)' : e \in Uploading(m)
          BY <2>2, <3>2 DEF Uploading
        <5>3. \A k : Uri(m, k) # uri /\ Uri(m, k)' = Uri(m, k)
          BY <3>2 DEF Uri
        <5>4. VersionsOf(m)' = VersionsOf(m)
          BY <2>1, SameVersions
        <5> HIDE DEF uri
        <5> QED  BY <2>3, <5>1, <5>2, <5>3, <5>4 DEF UploadOK
      <4> QED  BY <4>1, <4>2 DEF Good
    <3>3. CASE m = call[c].name
      <4>1. c \in Uploading(m) /\ \A d \in Uploading(m) : d = c
        BY <2>1, <3>1, <3>3 DEF Good, UploadOK, Uploading
      <4>2. \A d \in Uploading(m)' : d = c
        BY <2>2, <4>1 DEF Uploading
      <4>3. call[c].version \notin VersionsOf(m)
        BY <2>1, <3>1, <3>3, <4>1 DEF Good, UploadOK
      <4>4. UploadOK(c)'
        <5>1. call'[c].version \notin VersionsOf(m)'
          BY <4>3, <2>1, <2>2, SameVersions
        <5>2. Uri(call[c].name, call[c].version)' = uri
          BY <2>2 DEF Uri
        <5> HIDE DEF uri
        <5> QED  BY <2>2, <2>3, <3>3, <4>2, <5>1, <5>2 DEF UploadOK, Uri, uri
      <4>5. KeptSince(m)'
        <5>1. \A i \in Rows : versions[i].name = m => Uri(m, versions[i].version) # uri
          BY <3>3, <4>3 DEF VersionsOf, Uri
        <5> HIDE DEF uri
        <5> QED  BY <2>1, <2>3, <3>1, <5>1 DEF Good, KeptSince, Uri
      <4> QED  BY <4>2, <4>4, <4>5 DEF Good
    <3> QED  BY <3>2, <3>3
  <2> QED  BY <1>b, <2>4
<1>5. ASSUME NEW c \in Client, RecordVersion(c) PROVE ContentInv'
  <2> DEFINE new == Len(versions) + 1
  <2>1. /\ UNCHANGED <<blobs, overlap>> /\ call[c].at = "record"
        /\ call' = [call EXCEPT ![c] = Idle]
    BY <1>5 DEF RecordVersion
  <2>2. /\ call'[c].at = "idle" /\ \A d \in Client \ {c} : call'[d] = call[d]
    BY <2>1, <1>c
  <2>3. /\ Rows' = Rows \cup {new}
        /\ \A i \in Rows : versions'[i] = versions[i] /\ uploaded'[i] = uploaded[i]
        /\ versions'[new].name = call[c].name /\ versions'[new].version = call[c].version
        /\ uploaded'[new] = call[c].value
    BY <1>5 DEF TypeOK, RecordVersion
  <2>4. ASSUME NEW m \in Name \ overlap'.uploads PROVE Good(m)'
    <3>1. Good(m)
      BY <2>1, <2>4, <1>a
    <3>2. CASE m # call[c].name
      <4>1. KeptSince(m)'
        <5> HIDE DEF Rows, new
        <5> QED  BY <2>1, <2>3, <3>1, <3>2 DEF Good, KeptSince, Uri
      <4>2. ASSUME NEW d \in Uploading(m)' PROVE UploadOK(d)'
        <5>1. d \in Uploading(m) /\ d # c /\ call'[d] = call[d] /\ call[d].name = m /\ UploadOK(d)
          BY <2>2, <3>1, <3>2, <4>2 DEF Good, Uploading
        <5>2. \A e \in Uploading(m)' : e \in Uploading(m)
          BY <2>2, <3>2 DEF Uploading
        <5>3. VersionsOf(m)' = VersionsOf(m)
          BY <1>5, <3>2, VersionsAfterRecord
        <5> QED  BY <2>1, <5>1, <5>2, <5>3 DEF UploadOK, Uri
      <4> QED  BY <4>1, <4>2 DEF Good
    <3>3. CASE m = call[c].name
      <4>1. c \in Uploading(m) /\ UploadOK(c) /\ \A d \in Uploading(m) : d = c
        BY <2>1, <3>1, <3>3 DEF Good, UploadOK, Uploading
      <4>2. Uploading(m)' = {}
        BY <2>2, <4>1 DEF Uploading
      <4>3. KeptSince(m)'
        <5>1. \A o \in blobs : o.uri = Uri(m, call[c].version) => o.value = call[c].value
          BY <2>1, <3>3, <4>1 DEF UploadOK
        <5> HIDE DEF Rows, new
        <5> QED  BY <2>1, <2>3, <3>1, <5>1 DEF Good, KeptSince, Uri
      <4> QED  BY <4>2, <4>3 DEF Good
    <3> QED  BY <3>2, <3>3
  <2> QED  BY <1>b, <2>4
<1>6. ASSUME NEW c \in Client,
             RecordConflict(c) \/ InsertDependencies(c) \/ InsertConflict(c) \/ Abandon(c)
      PROVE  ContentInv'
  <2>1. /\ UNCHANGED <<versions, blobs, uploaded>> /\ overlap'.uploads = overlap.uploads
        /\ call' = [call EXCEPT ![c] = Idle] /\ Idle.at \notin {"number", "put", "record"}
    BY <1>6 DEF RecordConflict, InsertDependencies, InsertConflict, Abandon
  <2> QED  BY <2>1, <1>1
<1>7. ASSUME NEW c \in Client, NEW i \in Rows, NEW L \in SUBSET Rows, DeleteDependencies(c, i, L)
      PROVE  ContentInv'
  <2> DEFINE to == [Idle EXCEPT !.at = "link", !.row = i, !.links = L]
  <2>1. /\ UNCHANGED <<versions, blobs, uploaded>> /\ overlap'.uploads = overlap.uploads
        /\ call' = [call EXCEPT ![c] = to] /\ to.at \notin {"number", "put", "record"}
    BY <1>7 DEF DeleteDependencies, TypeOK
  <2> QED  BY <2>1, <1>1
<1>8. ASSUME UNCHANGED <<versions, blobs, uploaded, call, overlap>> PROVE ContentInv'
  <2>1. ASSUME NEW n PROVE \A d \in Uploading(n)' : d \in Uploading(n) /\ call'[d] = call[d]
    BY <1>8 DEF Uploading
  <2>2. ASSUME NEW n \in Name \ overlap'.uploads PROVE Good(n)'
    BY <1>8, <1>a, <2>1, ContentKeeps DEF Good
  <2> QED  BY <1>b, <2>2
<1>9. ASSUME NEW n \in Name, NEW i \in Rows, Promote(n, i) PROVE ContentInv'
  BY <1>8, <1>9 DEF Promote
<1>10. CASE UNCHANGED vars
  BY <1>8, <1>10 DEF vars
<1> QED  BY <1>2, <1>3, <1>4, <1>5, <1>6, <1>7, <1>9, <1>10 DEF Next

(* Every version has its blob, and one of a resource whose uploads were     *)
(* handled one at a time keeps                                             *)
(* the value it was uploaded with, also when uploads die half way and      *)
(* leave a blob under a number that the next one takes                     *)
(* (ContentKeptUnlessRaced).                                               *)
THEOREM ContentStays == Spec => []ContentKeptUnlessRaced
<1> USE StoreAssumption
<1>1. Inv /\ ContentInv => ContentKeptUnlessRaced
  BY DEF Inv, ContentInv, ContentKeptUnlessRaced
<1>2. TypeOK /\ Inv /\ ContentInv /\ [Next]_vars => ContentInv'
  BY ContentStep
<1> QED  BY <1>1, <1>2, ContentInit, StoreInvariant, PTL DEF Spec

-----------------------------------------------------------------------------
LEMMA LinkStep ==
  ASSUME TypeOK, LinkInv, [Next]_vars
  PROVE  LinkInv'
<1> USE DEF Proceed, Idle
<1>c. \A c \in Client : DOMAIN call = Client /\ call[c] \in Call
  BY DEF TypeOK, Call
<1>1. ASSUME NEW c \in Client, overlap' = overlap,
             \E f : call' = [call EXCEPT ![c] = f] /\ f.at # "link",
             \A p \in dependencies' \ dependencies : call[c].at = "link" /\ p[1] = call[c].row
      PROVE  LinkInv'
  <2> SUFFICES ASSUME NEW e \in Client, call'[e].at = "link", call'[e].row \notin overlap'.links
               PROVE  /\ \A d \in Linking(call[e].row)' : d = e
                      /\ \A p \in dependencies' : p[1] # call'[e].row
    BY DEF LinkInv
  <2>1. e # c /\ call'[e] = call[e] /\ \A d \in Client : call'[d].at = "link" => call'[d] = call[d]
    BY <1>1, <1>c
  <2>2. /\ \A d \in Linking(call[e].row) : d = e
        /\ \A p \in dependencies : p[1] # call[e].row
    BY <1>1, <2>1 DEF LinkInv
  <2>3. \A d \in Linking(call[e].row)' : d \in Linking(call[e].row)
    BY <2>1 DEF Linking
  <2>4. call[c].at = "link" => call[c].row # call[e].row
    BY <2>1, <2>2 DEF Linking
  <2> QED  BY <1>1, <2>1, <2>2, <2>3, <2>4
<1>2. ASSUME NEW c \in Client, NEW i \in Rows, NEW L \in SUBSET Rows, DeleteDependencies(c, i, L)
      PROVE  LinkInv'
  <2> DEFINE to == [Idle EXCEPT !.at = "link", !.row = i, !.links = L]
  <2>1. /\ call' = [call EXCEPT ![c] = to] /\ call[c].at = "idle"
        /\ dependencies' = {d \in dependencies : d[1] # i}
        /\ overlap'.links = overlap.links \cup {j \in {i} : Linking(j) # {}}
    BY <1>2 DEF DeleteDependencies, TypeOK
  <2>2. to.at = "link" /\ to.row = i
    OBVIOUS
  <2> HIDE DEF to
  <2>3. call'[c] = to /\ \A d \in Client \ {c} : call'[d] = call[d]
    BY <2>1, <1>c
  <2> SUFFICES ASSUME NEW e \in Client, call'[e].at = "link", call'[e].row \notin overlap'.links
               PROVE  /\ \A d \in Linking(call[e].row)' : d = e
                      /\ \A p \in dependencies' : p[1] # call'[e].row
    BY DEF LinkInv
  <2>4. CASE e = c
    <3>1. Linking(i) = {}
      BY <2>1, <2>2, <2>3, <2>4
    <3>2. \A d \in Linking(i)' : d = c
      BY <2>3, <3>1 DEF Linking
    <3> QED  BY <2>1, <2>2, <2>3, <2>4, <3>2
  <2>5. CASE e # c
    <3>1. /\ \A d \in Linking(call[e].row) : d = e
          /\ \A p \in dependencies : p[1] # call[e].row
          /\ call'[e] = call[e] /\ e \in Linking(call[e].row)
      BY <2>1, <2>3, <2>5 DEF LinkInv, Linking
    <3>2. call[e].row # i
      BY <2>1, <3>1
    <3>3. \A d \in Linking(call[e].row)' : d \in Linking(call[e].row)
      BY <2>2, <2>3, <3>1, <3>2 DEF Linking
    <3> QED  BY <2>1, <3>1, <3>3
  <2> QED  BY <2>4, <2>5
<1>3. ASSUME NEW c \in Client, InsertDependencies(c) PROVE LinkInv'
  <2>1. \A p \in Links(c) : p[1] = call[c].row
    BY DEF Links
  <2>2. /\ overlap' = overlap /\ call' = [call EXCEPT ![c] = Idle] /\ Idle.at # "link"
        /\ dependencies' = dependencies \cup Links(c) /\ call[c].at = "link"
    BY <1>3 DEF InsertDependencies
  <2>3. \A p \in dependencies' \ dependencies : call[c].at = "link" /\ p[1] = call[c].row
    BY <2>1, <2>2
  <2> QED  BY <1>1, <2>2, <2>3
<1>4. ASSUME NEW c \in Client, RecordConflict(c) \/ InsertConflict(c) \/ Abandon(c)
      PROVE  LinkInv'
  BY <1>1, <1>4 DEF RecordConflict, InsertConflict, Abandon
<1>5. ASSUME NEW c \in Client, PutBlob(c) \/ RecordVersion(c) PROVE LinkInv'
  BY <1>1, <1>5, <1>c DEF PutBlob, RecordVersion, Call
<1>6. ASSUME NEW c \in Client, TakeNumber(c) PROVE LinkInv'
  <2> DEFINE f == [call[c] EXCEPT !.at = "put", !.version = NextVersion(call[c].name)]
  <2>1. f.at # "link"
    BY <1>c DEF Call
  <2>2. overlap' = overlap /\ dependencies' = dependencies /\ call' = [call EXCEPT ![c] = f]
    BY <1>6 DEF TakeNumber
  <2> QED  BY <1>1, <2>1, <2>2
<1>7. ASSUME NEW c \in Client, NEW n \in Name, NEW v \in Value, GetOrCreateResource(c, n, v)
      PROVE  LinkInv'
  <2>1. /\ overlap'.links = overlap.links /\ UNCHANGED dependencies
        /\ call' = [call EXCEPT ![c] = [Idle EXCEPT !.at = "number", !.name = n, !.value = v]]
    BY <1>7 DEF GetOrCreateResource, TypeOK
  <2>2. \A d \in Client : call'[d].at = "link" => call'[d] = call[d]
    BY <2>1, <1>c
  <2>3. \A i : Linking(i)' \subseteq Linking(i)
    BY <2>2 DEF Linking
  <2> QED  BY <2>1, <2>2, <2>3 DEF LinkInv
<1>8. ASSUME UNCHANGED <<dependencies, call, overlap>> PROVE LinkInv'
  BY <1>8 DEF LinkInv, Linking
<1>9. ASSUME NEW n \in Name, NEW i \in Rows, Promote(n, i) PROVE LinkInv'
  BY <1>8, <1>9 DEF Promote
<1>10. CASE UNCHANGED vars
  BY <1>8, <1>10 DEF vars
<1> QED  BY <1>2, <1>3, <1>4, <1>5, <1>6, <1>7, <1>9, <1>10 DEF Next

(* The step of DependenciesReplaced.                                       *)
ReplacesWhole ==
  \A i \in Rows \ overlap'.links :
    \/ DependenciesOf(i)' = DependenciesOf(i)
    \/ DependenciesOf(i) = {} \/ DependenciesOf(i)' = {}

(* The dependencies of a version are those of one update_dependencies, or  *)
(* none, unless two for that version were handled at a time                *)
(* (DependenciesReplaced).                                                 *)
THEOREM DependenciesAreOfOneCall == Spec => DependenciesReplaced
<1> USE StoreAssumption
<1>1. TypeOK /\ LinkInv /\ [Next]_vars => [ReplacesWhole]_vars
  <2> SUFFICES ASSUME TypeOK, LinkInv, [Next]_vars PROVE [ReplacesWhole]_vars
    OBVIOUS
  <2>1. CASE dependencies' = dependencies
    BY <2>1 DEF ReplacesWhole, DependenciesOf
  <2>2. ASSUME NEW c \in Client, NEW i \in Rows, NEW L \in SUBSET Rows, DeleteDependencies(c, i, L)
        PROVE  ReplacesWhole
    BY <2>2 DEF DeleteDependencies, ReplacesWhole, DependenciesOf
  <2>3. ASSUME NEW c \in Client, InsertDependencies(c) PROVE ReplacesWhole
    <3>1. \A p \in Links(c) : p[1] = call[c].row
      BY DEF Links
    <3>2. call[c].at = "link" /\ dependencies' = dependencies \cup Links(c) /\ overlap' = overlap
      BY <2>3 DEF InsertDependencies
    <3>3. call[c].row \notin overlap.links => \A p \in dependencies : p[1] # call[c].row
      BY <3>2 DEF LinkInv
    <3> HIDE DEF Rows
    <3> QED  BY <3>1, <3>2, <3>3 DEF ReplacesWhole, DependenciesOf
  <2>4. CASE UNCHANGED vars
    BY <2>4
  <2> QED  BY <2>1, <2>2, <2>3, <2>4
        DEF Next, GetOrCreateResource, TakeNumber, PutBlob, RecordVersion, RecordConflict,
            InsertConflict, Abandon, Promote, ReplacesWhole, DependenciesOf
<1>2. TypeOK /\ LinkInv /\ [Next]_vars => LinkInv'
  BY LinkStep
<1>3. Spec => [][ReplacesWhole]_vars
  BY <1>1, <1>2, ContentInit, StoreInvariant, PTL DEF Spec
<1> QED  BY <1>3 DEF DependenciesReplaced, ReplacesWhole
=============================================================================
