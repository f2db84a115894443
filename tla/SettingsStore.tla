---------------------------- MODULE SettingsStore ---------------------------
(***************************************************************************)
(* The daemon's two files, config.json and profiles.json, and the API      *)
(* requests that change them (cmd/sshcustomd/main.go): read, apply, write  *)
(* path.tmp, rename, publish in memory. Profile requests hold profileMu    *)
(* from the read to the publication, config patches hold nothing. The      *)
(* daemon may be killed at any step and is started again from the files.   *)
(***************************************************************************)
EXTENDS Naturals, Sequences, FiniteSets

CONSTANTS
  Handlers,     \* goroutines serving requests
  Requests,     \* what each handler may be asked: pairs <<handler, request>>
  Fields,       \* the booleans a config patch can change
  MaxId,        \* bound: profile ids 1..MaxId
  MaxRequests,  \* bound: requests served
  MayBeKilled,  \* may the daemon be killed?
  MayFail,      \* may a write of a file fail?
  Torn,         \* content that does not parse
  Absent,       \* no such file
  Error         \* a request that is refused

Files == {"config", "profiles"}
Ids   == 1..MaxId
None  == 0                              \* SelectedID = "", or a request without an id
ConfigType == [Fields -> BOOLEAN]
ProfilesType == [list : Seq([id : Ids, selected : BOOLEAN]), selectedID : Ids \cup {None}]
RequestType ==
  [op : {"patch"}, field : Fields, value : BOOLEAN]
  \cup [op : {"select", "delete"}, id : Ids]
  \cup [op : {"save"}, id : Ids \cup {None}, select : BOOLEAN]

ASSUME StoreAssumption ==
  /\ MaxId \in Nat \ {0} /\ MaxRequests \in Nat
  /\ \A r \in Requests : r[1] \in Handlers /\ r[2] \in RequestType
  /\ IsFiniteSet(Fields) /\ "nobody" \notin Handlers
  /\ \A c \in {Torn, Absent, Error} : c \notin ConfigType /\ c \notin ProfilesType
  /\ Torn # Absent /\ Torn # Error /\ Absent # Error
  /\ MayBeKilled \in BOOLEAN /\ MayFail \in BOOLEAN

VARIABLES
  disk,         \* the content of each file; Torn: it does not parse
  tmp,          \* the content of its .tmp, Absent when there is none
  mem,          \* cfg and pf
  up,           \* the daemon is running
  profileMu,    \* who holds it
  at, req, next,\* each handler: its place, its request, what it is about to save
  fd,           \* the file its descriptor refers to
  acked,        \* what the requests answered with success add up to, in that order
  served,       \* requests so far
  clashed       \* history: a config patch began while another was being served

vars == <<disk, tmp, mem, up, profileMu, at, req, next, fd, acked, served, clashed>>

Nobody == "nobody"
FileOf(r) == IF r.op = "patch" THEN "config" ELSE "profiles"
Busy(f)   == \E h \in Handlers : at[h] # "idle" /\ FileOf(req[h]) = f

(* ---------------------- what a request does to a file ------------------- *)

ids(pf) == {pf.list[i].id : i \in DOMAIN pf.list}

selectProfileByID(pf, id) ==
  IF id \notin ids(pf) THEN Error
  ELSE [list |-> [i \in DOMAIN pf.list |-> [pf.list[i] EXCEPT !.selected = (pf.list[i].id = id)]],
        selectedID |-> id]

\* The entries of list with another id, in their order.
filtered(list, id) ==
  LET kept    == {i \in DOMAIN list : list[i].id # id}
      Rank(i) == Cardinality({j \in kept : j <= i})
  IN  [k \in 1..Cardinality(kept) |-> list[CHOOSE i \in kept : Rank(i) = k]]

DeleteProfile_KeepsSelected(pf, id) ==   \* mutant: SelectedID is left as it was
  IF id \notin ids(pf) THEN Error ELSE [pf EXCEPT !.list = filtered(@, id)]

DeleteProfile(pf, id) ==
  IF id \notin ids(pf) THEN Error
  ELSE [list |-> filtered(pf.list, id),
        selectedID |-> IF pf.selectedID = id THEN None ELSE pf.selectedID]

\* base, base-2, base-3, ...: the first that is not used.
uniqueProfileID(pf) == CHOOSE i \in Ids \ ids(pf) : \A j \in Ids \ ids(pf) : i <= j

\* A profile that replaces another starts unselected; saving the selected one
\* selects it again.
upsertProfile(pf, id, select) ==
  IF id = None /\ ids(pf) = Ids THEN Error
  ELSE LET new  == IF id = None THEN uniqueProfileID(pf) ELSE id
           prof == [id |-> new, selected |-> FALSE]
           list == IF new \in ids(pf)
                     THEN [i \in DOMAIN pf.list |-> IF pf.list[i].id = new THEN prof ELSE pf.list[i]]
                     ELSE Append(pf.list, prof)
           saved == [pf EXCEPT !.list = list]
       IN IF select \/ pf.selectedID \in {None, new} THEN selectProfileByID(saved, new) ELSE saved

Apply(r, c) ==
  CASE r.op = "patch"  -> [c EXCEPT ![r.field] = r.value]
    [] r.op = "select" -> selectProfileByID(c, r.id)
    [] r.op = "delete" -> DeleteProfile(c, r.id)
    [] r.op = "save"   -> upsertProfile(c, r.id, r.select)

\* What run and startTunnel take: the id, else the flag, else the first.
selectedProfile(pf) ==
  LET named   == {i \in DOMAIN pf.list : pf.list[i].id = pf.selectedID}
      flagged == {i \in DOMAIN pf.list : pf.list[i].selected}
      First(S) == pf.list[CHOOSE i \in S : \A j \in S : i <= j].id
  IN CASE named # {} -> First(named)
       [] named = {} /\ flagged # {} -> First(flagged)
       [] named = {} /\ flagged = {} /\ pf.list # <<>> -> pf.list[1].id
       [] OTHER -> None

InitialProfiles == [list |-> <<[id |-> 1, selected |-> TRUE]>>, selectedID |-> 1]
Initial == [config |-> [f \in Fields |-> FALSE], profiles |-> InitialProfiles]
NoRequest == [op |-> "none"]

\* The type invariant, a part of AckedIsStored.
TypeOK ==
  /\ \A f \in Files :
       LET T == IF f = "config" THEN ConfigType ELSE ProfilesType IN
       mem[f] \in T /\ acked[f] \in T
       /\ (disk[f] # Torn => disk[f] \in T) /\ (tmp[f] \notin {Torn, Absent} => tmp[f] \in T)
  /\ up \in BOOLEAN
  /\ profileMu \in Handlers \cup {Nobody}
  /\ at \in [Handlers -> {"idle", "read", "open", "write", "rename", "publish", "fail"}]
  /\ \A h \in Handlers : req[h] \in RequestType \cup {NoRequest}
  /\ fd \in [Handlers -> {"none", "tmp", "file", "gone"}]
  /\ served \in 0..MaxRequests
  /\ clashed \in BOOLEAN

Init ==
  /\ disk = Initial /\ mem = Initial /\ acked = Initial
  /\ tmp = [f \in Files |-> Absent]
  /\ up = TRUE /\ profileMu = Nobody
  /\ at = [h \in Handlers |-> "idle"]
  /\ req = [h \in Handlers |-> NoRequest] /\ next = [h \in Handlers |-> Torn]
  /\ fd = [h \in Handlers |-> "none"]
  /\ served = 0 /\ clashed = FALSE

(* ------------------------------ the handlers ---------------------------- *)

Go(h, from, to) == up /\ at[h] = from /\ at' = [at EXCEPT ![h] = to]

Begin(h) ==
  /\ served < MaxRequests /\ Go(h, "idle", "read")
  /\ \E r \in Requests :
       /\ r[1] = h /\ req' = [req EXCEPT ![h] = r[2]]
       /\ clashed' = (clashed \/ (FileOf(r[2]) = "config" /\ Busy("config")))
  /\ served' = served + 1
  /\ UNCHANGED <<disk, tmp, mem, up, profileMu, next, fd, acked>>

ReadSettings_NoLock(h) ==   \* mutant: the lock does not cover the read
  LET f == FileOf(req[h])
      new == Apply(req[h], IF f = "config" THEN mem[f] ELSE disk[f])
  IN
  /\ up /\ at[h] = "read"
  /\ next' = [next EXCEPT ![h] = new]
  /\ at' = [at EXCEPT ![h] = IF new = Error THEN "fail" ELSE "open"]
  /\ UNCHANGED <<disk, tmp, mem, up, profileMu, req, fd, acked, served, clashed>>

\* getConfig and applyConfigPatch; or profileMu.Lock, loadProfiles and the change.
ReadSettings(h) ==
  LET f == FileOf(req[h])
      new == Apply(req[h], IF f = "config" THEN mem[f] ELSE disk[f])
  IN
  /\ up /\ at[h] = "read"
  /\ f = "profiles" => profileMu = Nobody
  /\ profileMu' = IF f = "profiles" THEN h ELSE profileMu
  /\ next' = [next EXCEPT ![h] = new]
  /\ at' = [at EXCEPT ![h] = IF new = Error THEN "fail" ELSE "open"]
  /\ UNCHANGED <<disk, tmp, mem, up, req, fd, acked, served, clashed>>

OpenTmp_InPlace(h) ==   \* mutant: WriteFile on the file itself
  LET f == FileOf(req[h]) IN
  /\ Go(h, "open", "write")
  /\ disk' = [disk EXCEPT ![f] = Torn] /\ fd' = [fd EXCEPT ![h] = "file"]
  /\ tmp' = [tmp EXCEPT ![f] = Torn]
  /\ UNCHANGED <<mem, up, profileMu, req, next, acked, served, clashed>>

\* os.WriteFile: the shared .tmp is created or truncated,
OpenTmp(h) ==
  LET f == FileOf(req[h]) IN
  /\ Go(h, "open", "write")
  /\ tmp' = [tmp EXCEPT ![f] = Torn] /\ fd' = [fd EXCEPT ![h] = "tmp"]
  /\ UNCHANGED <<disk, mem, up, profileMu, req, next, acked, served, clashed>>

\* and written from its start: over longer content a tail of that remains.
Size(f, c) == IF c = Torn \/ f = "profiles" THEN 0 ELSE Cardinality({x \in Fields : ~c[x]})
Over(f, old, new) == IF Size(f, new) < Size(f, old) THEN Torn ELSE new

WriteTmp(h) ==
  LET f == FileOf(req[h]) IN
  /\ Go(h, "write", "rename") /\ fd' = [fd EXCEPT ![h] = "none"]
  /\ tmp' = IF fd[h] = "tmp" THEN [tmp EXCEPT ![f] = Over(f, @, next[h])] ELSE tmp
  /\ disk' = IF fd[h] = "file" THEN [disk EXCEPT ![f] = Over(f, @, next[h])] ELSE disk
  /\ UNCHANGED <<mem, up, profileMu, req, next, acked, served, clashed>>

WriteFails(h) ==
  /\ MayFail /\ Go(h, "write", "fail") /\ fd' = [fd EXCEPT ![h] = "none"]
  /\ UNCHANGED <<disk, tmp, mem, up, profileMu, req, next, acked, served, clashed>>

\* A descriptor that another handler holds on .tmp now refers to the file.
Rename(h) ==
  LET f == FileOf(req[h]) IN
  /\ up /\ at[h] = "rename"
  /\ IF tmp[f] = Absent
       THEN at' = [at EXCEPT ![h] = "fail"] /\ UNCHANGED <<disk, tmp, fd>>
       ELSE /\ at' = [at EXCEPT ![h] = "publish"]
            /\ disk' = [disk EXCEPT ![f] = tmp[f]] /\ tmp' = [tmp EXCEPT ![f] = Absent]
            /\ fd' = [g \in Handlers |->
                 IF FileOf(req[g]) # f \/ fd[g] = "none" THEN fd[g]
                 ELSE IF fd[g] = "tmp" THEN "file" ELSE "gone"]
  /\ UNCHANGED <<mem, up, profileMu, req, next, acked, served, clashed>>

Finish(h) ==
  /\ profileMu' = IF profileMu = h THEN Nobody ELSE profileMu
  /\ req' = [req EXCEPT ![h] = NoRequest] /\ next' = [next EXCEPT ![h] = Torn]

Publish(h) ==
  LET f == FileOf(req[h]) IN
  /\ Go(h, "publish", "idle")
  /\ mem' = [mem EXCEPT ![f] = next[h]]
  /\ acked' = [acked EXCEPT ![f] = Apply(req[h], @)]
  /\ Finish(h)
  /\ UNCHANGED <<disk, tmp, up, fd, served, clashed>>

Fail_KeepsLock(h) ==   \* mutant: the error returns before Unlock
  /\ Go(h, "fail", "idle")
  /\ req' = [req EXCEPT ![h] = NoRequest] /\ next' = [next EXCEPT ![h] = Torn]
  /\ UNCHANGED <<disk, tmp, mem, up, profileMu, fd, acked, served, clashed>>

\* The request is answered with an error.
Fail(h) ==
  /\ Go(h, "fail", "idle") /\ Finish(h)
  /\ UNCHANGED <<disk, tmp, mem, up, fd, acked, served, clashed>>

\* GET /profiles and startTunnel take what the file holds.
LoadProfiles ==
  /\ up /\ profileMu = Nobody /\ disk["profiles"] # Torn
  /\ mem' = [mem EXCEPT !["profiles"] = disk["profiles"]]
  /\ UNCHANGED <<disk, tmp, up, profileMu, at, req, next, fd, acked, served, clashed>>

Handle(h) ==
  ReadSettings(h) \/ OpenTmp(h) \/ WriteTmp(h) \/ Rename(h) \/ Publish(h) \/ Fail(h)

(* --------------------------- killed and started ------------------------- *)

\* Those that have renamed file f and not yet answered.
Renamed(f) == {h \in Handlers : at[h] = "publish" /\ FileOf(req[h]) = f}

\* A request cut off between its rename and its answer has taken effect; what was
\* acknowledged before stays so.
Killed ==
  /\ MayBeKilled /\ up /\ up' = FALSE /\ profileMu' = Nobody
  /\ acked' = [f \in Files |-> IF Renamed(f) = {} THEN acked[f]
                                ELSE Apply(req[CHOOSE h \in Renamed(f) : TRUE], acked[f])]
  /\ at' = [h \in Handlers |-> "idle"]
  /\ req' = [h \in Handlers |-> NoRequest] /\ next' = [h \in Handlers |-> Torn]
  /\ fd' = [h \in Handlers |-> "none"]
  /\ UNCHANGED <<disk, tmp, mem, served, clashed>>

\* run: log.Fatal when a file does not parse, or when no profile can be selected
\* and the daemon is not started idle.
Boot ==
  /\ ~up /\ Torn \notin {disk[f] : f \in Files}
  /\ \E idleMode \in BOOLEAN : idleMode \/ selectedProfile(disk["profiles"]) # None
  /\ up' = TRUE /\ mem' = disk
  /\ UNCHANGED <<disk, tmp, profileMu, at, req, next, fd, acked, served, clashed>>

Next == Killed \/ Boot \/ LoadProfiles
        \/ \E h \in Handlers : Begin(h) \/ Handle(h) \/ WriteFails(h)

Spec == Init /\ [][Next]_vars

FairSpec == Spec /\ \A h \in Handlers : WF_vars(Handle(h))

(* ------------------------------ properties ----------------------------- *)

\* Nobody else has written the file f beside a request so far: profileMu sees to
\* it for the profiles, the callers for the configuration.
OneWriter(f) == f = "profiles" \/ ~clashed

\* Whenever the daemon is killed, both files parse, so that run does not stop at
\* log.Fatal: the profiles whatever is asked at once, the configuration unless two
\* patches overlapped (they share one .tmp and no lock).
FilesWhole == \A f \in Files : OneWriter(f) => disk[f] # Torn

\* docs/openapi.yaml:174: the daemon "persists it via atomic rename". A file that
\* is only ever replaced whole always parses.
AlwaysWhole == \A f \in Files : disk[f] # Torn

\* Between requests a file, and memory with it, is what the requests answered
\* with success add up to, one after the other: none is lost, failed ones leave
\* nothing behind, and a restart finds all of them. For the configuration this
\* takes that no two patches ever overlapped. (And TypeOK.)
AckedIsStored ==
  TypeOK /\ \A f \in Files :
    OneWriter(f) /\ ~Busy(f) => disk[f] = acked[f] /\ (up => mem[f] = acked[f])

\* Ids are unique, SelectedID is empty or names a profile, and exactly that one
\* is flagged: selectedProfile never depends on which of the two it looks at.
ProfilesConsistent ==
  LET pf == disk["profiles"] IN
  pf # Torn =>
    /\ Cardinality(ids(pf)) = Len(pf.list)
    /\ pf.selectedID \in ids(pf) \cup {None}
    /\ \A i \in DOMAIN pf.list : pf.list[i].selected = (pf.list[i].id = pf.selectedID)

\* Every request is answered unless the daemon is killed: no error path keeps
\* profileMu.
RequestsEnd == \A h \in Handlers : at[h] # "idle" ~> at[h] = "idle"
=============================================================================
