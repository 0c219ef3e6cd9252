----------------------------- MODULE ResourceStore -----------------------------
(***************************************************************************)
(* resource_store (services/resource_store): uploads, dependencies and     *)
(* promotions.  FastAPI runs the handlers in a pool of threads, each on    *)
(* its own request; Postgres commits every statement and S3 every put, so  *)
(* one action is one statement or put, and the other handlers run between  *)
(* any two of them.                                                        *)
(***************************************************************************)
EXTENDS Naturals, Sequences, FiniteSets

CONSTANTS
  Client,    \* requests being handled at the same time
  Name,      \* resource names
  Declared,  \* the names with a contract, resources/<name>.py
  Value,     \* what clients upload
  Meets,     \* Meets[n]: the values that meet n's contract
  None,      \* SQL NULL / Python None
  MaxRows,   \* bound: uploads start while there are fewer versions than this
  MaxLinks,  \* bound: dependencies given in one update_dependencies
  MaxLinked  \* bound: only the first rows of versions are given dependencies

ASSUME StoreAssumption ==
  /\ Declared \subseteq Name
  /\ Meets \in [Declared -> SUBSET Value]
  /\ None \notin Name /\ None \notin Value
  /\ MaxRows \in Nat /\ MaxLinks \in Nat /\ MaxLinked \in Nat

VARIABLES
  resources, \* the names that have a row in resources
  current,   \* resources.current_version_id of each, 0 for NULL
  versions,  \* the resource_versions table; a row's id is its position
  dependencies, \* the resource_version_dependencies table: pairs of ids
  blobs,     \* the S3 bucket
  call,      \* the request each client has in progress
  uploaded,  \* history: the value that the upload of each version sent
  overlap    \* history: the names that two uploads at a time were handled for,
             \* and the rows that two update_dependencies were

vars == <<resources, current, versions, dependencies, blobs, call, uploaded, overlap>>

Rows == 1..Len(versions)

(* The numbers of the versions that n has.                                 *)
VersionsOf(n) == {versions[i].version : i \in {j \in Rows : versions[j].name = n}}

Uri(n, k) == <<n, k>>

(* The value the bucket has under a key, None if it has none.              *)
BlobAt(uri) ==
  IF \E o \in blobs : o.uri = uri
  THEN (CHOOSE o \in blobs : o.uri = uri).value
  ELSE None

Steps == {"idle", "number", "put", "record", "link"}
Idle ==
  [at |-> "idle", name |-> None, value |-> None, version |-> 0, row |-> 0, links |-> {}]

Init ==
  /\ resources = {}
  /\ current = [n \in Name |-> 0]
  /\ versions = <<>>
  /\ dependencies = {}
  /\ blobs = {}
  /\ call = [c \in Client |-> Idle]
  /\ uploaded = <<>>
  /\ overlap = [uploads |-> {}, links |-> {}]

Proceed(c, f) == call' = [call EXCEPT ![c] = f]

-----------------------------------------------------------------------------
(* upload_version.                                                         *)

Uploading(n) == {c \in Client : call[c].at \in {"number", "put", "record"} /\ call[c].name = n}

(* resources/<name>.py is there, with a validate function; v passes it.    *)
HasContract(n) == n \in Declared
MeetsContract(n, v) == v \in Meets[n]

(* The contract is found and run, and the resource gets its row.           *)
GetOrCreateResource(c, n, v) ==
  /\ call[c].at = "idle"
  /\ HasContract(n)
  /\ Len(versions) < MaxRows
  /\ resources' = resources \cup {n}
  /\ Proceed(c, [Idle EXCEPT !.at = "number", !.name = n, !.value = v])
  /\ overlap' = [overlap EXCEPT !.uploads = @ \cup {m \in {n} : Uploading(m) # {}}]
  /\ UNCHANGED <<current, versions, dependencies, blobs, uploaded>>

(* Mutant of NextVersion: the largest number there is, and no plus one.    *)
LastVersion(n) ==
  CHOOSE m \in VersionsOf(n) \cup {0} : \A k \in VersionsOf(n) : k <= m

(* SELECT COALESCE(MAX(version), 0) + 1                                    *)
NextVersion(n) ==
  (CHOOSE m \in VersionsOf(n) \cup {0} : \A k \in VersionsOf(n) : k <= m) + 1

TakeNumber(c) ==
  /\ call[c].at = "number"
  /\ Proceed(c, [call[c] EXCEPT !.at = "put", !.version = NextVersion(call[c].name)])
  /\ UNCHANGED <<resources, current, versions, dependencies, blobs, uploaded, overlap>>

(* Mutant of PutBlob: the version is not in the key.                       *)
PutAtFirst(c) ==
  LET uri == Uri(call[c].name, 1) IN
  /\ call[c].at = "put"
  /\ blobs' = {o \in blobs : o.uri # uri} \cup {[uri |-> uri, value |-> call[c].value]}
  /\ Proceed(c, [call[c] EXCEPT !.at = "record"])
  /\ UNCHANGED <<resources, current, versions, dependencies, uploaded, overlap>>

(* put_object replaces what the key had.                                   *)
PutBlob(c) ==
  LET uri == Uri(call[c].name, call[c].version) IN
  /\ call[c].at = "put"
  /\ blobs' = {o \in blobs : o.uri # uri} \cup {[uri |-> uri, value |-> call[c].value]}
  /\ Proceed(c, [call[c] EXCEPT !.at = "record"])
  /\ UNCHANGED <<resources, current, versions, dependencies, uploaded, overlap>>

(* The INSERT.  The request is answered with the version, or, if the value *)
(* did not meet the contract, with an error: the row is there either way.  *)
RecordVersion(c) ==
  LET u == call[c] IN
  /\ u.at = "record"
  /\ u.version \notin VersionsOf(u.name)
  /\ versions' = Append(versions,
       [name |-> u.name, version |-> u.version, ok |-> MeetsContract(u.name, u.value)])
  /\ uploaded' = Append(uploaded, u.value)
  /\ Proceed(c, Idle)
  /\ UNCHANGED <<resources, current, dependencies, blobs, overlap>>

(* The INSERT violates UNIQUE (resource_id, version) and raises.           *)
RecordConflict(c) ==
  /\ call[c].at = "record"
  /\ call[c].version \in VersionsOf(call[c].name)
  /\ Proceed(c, Idle)
  /\ UNCHANGED <<resources, current, versions, dependencies, blobs, uploaded, overlap>>

-----------------------------------------------------------------------------
(* update_dependencies, of row i to the rows L.  The rows it looks up are  *)
(* never deleted, so looking them up and the DELETE are one step.          *)

Linking(i) == {c \in Client : call[c].at = "link" /\ call[c].row = i}

(* Mutant of DeleteDependencies: what there was is kept.                   *)
DeleteNothing(c, i, L) ==
  /\ call[c].at = "idle"
  /\ i <= MaxLinked /\ Cardinality(L) <= MaxLinks
  /\ Proceed(c, [Idle EXCEPT !.at = "link", !.row = i, !.links = L])
  /\ overlap' = [overlap EXCEPT !.links = @ \cup {j \in {i} : Linking(j) # {}}]
  /\ UNCHANGED <<resources, current, versions, dependencies, blobs, uploaded>>

DeleteDependencies(c, i, L) ==
  /\ call[c].at = "idle"
  /\ i <= MaxLinked /\ Cardinality(L) <= MaxLinks
  /\ dependencies' = {d \in dependencies : d[1] # i}
  /\ Proceed(c, [Idle EXCEPT !.at = "link", !.row = i, !.links = L])
  /\ overlap' = [overlap EXCEPT !.links = @ \cup {j \in {i} : Linking(j) # {}}]
  /\ UNCHANGED <<resources, current, versions, blobs, uploaded>>

Links(c) == {call[c].row} \X call[c].links

(* executemany() sends the INSERTs as one pipeline, which commits as a     *)
(* whole, or fails as a whole if a pair is in the table already.           *)
InsertDependencies(c) ==
  /\ call[c].at = "link"
  /\ Links(c) \cap dependencies = {}
  /\ dependencies' = dependencies \cup Links(c)
  /\ Proceed(c, Idle)
  /\ UNCHANGED <<resources, current, versions, blobs, uploaded, overlap>>

InsertConflict(c) ==
  /\ call[c].at = "link"
  /\ Links(c) \cap dependencies # {}
  /\ Proceed(c, Idle)
  /\ UNCHANGED <<resources, current, versions, dependencies, blobs, uploaded, overlap>>

-----------------------------------------------------------------------------
(* promote, and what may go wrong.                                         *)

(* Mutant of Promote: any row, also one of another resource.               *)
PromoteAnyRow(n, i) ==
  /\ current' = [current EXCEPT ![n] = i]
  /\ UNCHANGED <<resources, versions, dependencies, blobs, call, uploaded, overlap>>

Promote(n, i) ==
  /\ versions[i].name = n
  /\ current' = [current EXCEPT ![n] = i]
  /\ UNCHANGED <<resources, versions, dependencies, blobs, call, uploaded, overlap>>

(* A statement or a put raises, or the process dies: the request ends      *)
(* where it is.                                                            *)
Abandon(c) ==
  /\ call[c].at # "idle"
  /\ Proceed(c, Idle)
  /\ UNCHANGED <<resources, current, versions, dependencies, blobs, uploaded, overlap>>

Next ==
  \/ \E c \in Client :
       \/ \E n \in Name, v \in Value : GetOrCreateResource(c, n, v)
       \/ TakeNumber(c) \/ PutBlob(c) \/ RecordVersion(c) \/ RecordConflict(c)
       \/ \E i \in Rows, L \in SUBSET Rows : DeleteDependencies(c, i, L)
       \/ InsertDependencies(c) \/ InsertConflict(c)
       \/ Abandon(c)
  \/ \E n \in Name, i \in Rows : Promote(n, i)

Spec == Init /\ [][Next]_vars

-----------------------------------------------------------------------------
(* Every variable has its type.                                            *)
TypeOK ==
  /\ resources \subseteq Declared
  /\ current \in [Name -> Nat]
  /\ versions \in Seq([name : Declared, version : Nat \ {0}, ok : BOOLEAN])
  /\ dependencies \subseteq Rows \X Rows
  /\ blobs \subseteq [uri : Declared \X (Nat \ {0}), value : Value]
  /\ call \in [Client ->
       [at : Steps, name : Declared \cup {None}, value : Value \cup {None},
        version : Nat, row : Nat, links : SUBSET Nat]]
  /\ uploaded \in Seq(Value) /\ Len(uploaded) = Len(versions)
  /\ overlap \in [uploads : SUBSET Declared, links : SUBSET Nat]

(* However uploads race and fail, a resource's versions are numbered 1, 2, *)
(* and so on, with no gap and no repetition, in the order of their rows.   *)
VersionsInOrder ==
  /\ \A n \in Name : \E k \in 0..Len(versions) : VersionsOf(n) = 1..k
  /\ \A i, j \in Rows :
       i < j /\ versions[i].name = versions[j].name => versions[i].version < versions[j].version

(* upload_version puts the blob before it inserts the row: an upload that  *)
(* fails, or loses the race for its number, leaves no version without one. *)
BlobsPresent ==
  \A i \in Rows : \E o \in blobs : o.uri = Uri(versions[i].name, versions[i].version)

(* current_version_id, which no foreign key guards, is a version of the    *)
(* resource it is the current version of.                                  *)
CurrentIsItsOwn ==
  \A n \in Name : current[n] # 0 => current[n] \in Rows /\ versions[current[n]].name = n

(* The inductive invariant: the number an upload holds was free, and the   *)
(* next one, when it took it.                                              *)
NumberInv ==
  \A c \in Client :
    /\ call[c].at \in {"number", "put", "record"} =>
         call[c].name \in resources /\ call[c].value \in Value
    /\ call[c].at \in {"put", "record"} =>
         call[c].version - 1 \in VersionsOf(call[c].name) \cup {0} /\ call[c].version > 0
    /\ call[c].at = "record" =>
         \E o \in blobs : o.uri = Uri(call[c].name, call[c].version)
    /\ call[c].at = "link" => call[c].row \in Rows /\ call[c].links \subseteq Rows

Inv == NumberInv /\ VersionsInOrder /\ BlobsPresent /\ CurrentIsItsOwn

(* The tables implement VersionLog: a version's number never changes its   *)
(* meaning, for any number of racing and failing requests.                 *)
RowOf(n, k) == CHOOSE i \in Rows : versions[i].name = n /\ versions[i].version = k

Log ==
  INSTANCE VersionLog
    WITH log <- [n \in Name |-> [k \in VersionsOf(n) |-> versions[RowOf(n, k)].ok]],
         current <- [n \in Name |->
                       IF current[n] = 0 THEN 0 ELSE versions[current[n]].version]

ImplementsLog == Log!Spec

-----------------------------------------------------------------------------
(* What concurrent requests may break.                                     *)

(* upload_version: a version is immutable, and a blob that a failed upload *)
(* left behind is harmless: every version keeps the value it was uploaded  *)
(* with, whatever happens to other resources.                              *)
KeptSince(n) ==
  \A i \in Rows :
    versions[i].name = n =>
      \A o \in blobs : o.uri = Uri(n, versions[i].version) => o.value = uploaded[i]

ContentKept == \A n \in Name : KeptSince(n)

(* No version is without a blob, and it is the one that was uploaded, for  *)
(* the names whose uploads were handled one at a time; the code does not   *)
(* keep the latter for the others.                                         *)
ContentKeptUnlessRaced ==
  BlobsPresent /\ \A n \in Name \ overlap.uploads : KeptSince(n)

DependenciesOf(i) == {d \in dependencies : d[1] = i}

(* update_dependencies: the set of dependencies of a version is replaced   *)
(* by that of one call, or by nothing when the call fails half way; the    *)
(* dependencies of two calls never mix, unless they overlap.               *)
DependenciesReplaced ==
  [][\A i \in Rows \ overlap'.links :
       \/ DependenciesOf(i)' = DependenciesOf(i)
       \/ DependenciesOf(i) = {} \/ DependenciesOf(i)' = {}]_vars
=============================================================================
