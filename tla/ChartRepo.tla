----------------------------- MODULE ChartRepo -----------------------------
(***************************************************************************)
(* The chart repositories of one machine: repos.json, the cached index of  *)
(* a repository and the cached archives, shared by `swarmcli charts`       *)
(* commands that run beside each other and may be killed at any step. One  *)
(* repository name and one chart; versions count up, and what a version    *)
(* holds is a number, which is also its digest. Ages, warnings and the     *)
(* checks of names and URLs are left out.                                  *)
(***************************************************************************)
EXTENDS Integers, Sequences, FiniteSets

CONSTANTS
  Programs,
  Urls,           \* where the repository may be
  Seeded,         \* the one a machine starts with
  Undigested,     \* of them, those whose index publishes no digest
  MaxContents,    \* bound on what is ever published
  MaxCommands,    \* bound on commands
  Retries         \* Len(pullBackoff)

Absent == "absent"     \* no file, or no entry
Torn == "torn"         \* truncated, and not yet written

VARIABLES
  published,   \* what each URL serves: per version, its content
  ever,        \* what was ever published: [version, content]
  repos,       \* the file: Absent when it is not there, else its entries, as the URL of the name
  index,       \* the cached index: the URL it came from and its entries
  archives,    \* the cached archives: a content's file, and what is in it
  run,         \* the command each program is in
  commands, overlapped

files == <<repos, index, archives>>
vars == <<published, ever, repos, index, archives, run, commands, overlapped>>

None == "no entries"
Spoilt == MaxContents + 1    \* bytes that nobody published
NoIndex == [url |-> Absent, entries |-> <<>>]
Idle == [todo |-> <<>>, otherwise |-> <<>>, url |-> None, version |-> 0, always |-> FALSE, refreshed |-> FALSE,
         fetched |-> NoIndex, entry |-> [version |-> 0, content |-> 0, digest |-> FALSE], tries |-> 0, loaded |-> 0]

At(p, step) == run[p].todo # <<>> /\ Head(run[p].todo) = step
Rest(p) == Tail(run[p].todo)
\* Of a command that has ended only what it loaded is kept.
On(p, r) ==
  run' = [run EXCEPT ![p] = IF r.todo # <<>> THEN r ELSE IF r.loaded = 0 THEN Idle
                            ELSE [Idle EXCEPT !.version = r.version, !.entry = r.entry, !.loaded = r.loaded]]
Go(p, todo) == On(p, [run[p] EXCEPT !.todo = todo])

\* An error ends the command, or, of a refresh that may fail, is a warning.
Fails(p) == On(p, [run[p] EXCEPT !.todo = run[p].otherwise, !.otherwise = <<>>])

Quiet == UNCHANGED <<published, ever, commands, overlapped>>

Load == <<"resolve", "read", "pull">>
Refresh == <<"list", "fetch", "write">>
AddSavedFirst == <<"may-add", "fetch", "truncate", "save", "write">>
Add == <<"may-add", "fetch", "write", "truncate", "save">>

-----------------------------------------------------------------------------
(***************************************************************************)
(* Commands; newStore seeds a machine that never had a repository          *)
(***************************************************************************)
Start(p, r) ==
  /\ run[p].todo = <<>> /\ commands < MaxCommands /\ commands' = commands + 1
  /\ On(p, r)
  /\ overlapped' = (overlapped \/ \E q \in Programs \ {p} : run[q].todo # <<>>)
  /\ repos' = IF repos = Absent THEN Seeded ELSE repos
  /\ UNCHANGED <<published, ever, index, archives>>

RepoAdd(p) == \E u \in Urls : Start(p, [Idle EXCEPT !.todo = Add, !.url = u])
RepoRemove(p) == Start(p, [Idle EXCEPT !.todo = <<"may-remove", "truncate", "save", "unlink">>])
RepoUpdate(p) == Start(p, [Idle EXCEPT !.todo = Refresh])
Install(p) == \E always \in BOOLEAN, v \in 0..2 :
  Start(p, [Idle EXCEPT !.todo = Load, !.version = v, !.always = always])
Apply(p) == \E always \in BOOLEAN, u \in Urls :
  Start(p, [Idle EXCEPT !.todo = <<"ensure">> \o Load, !.version = 1, !.always = always, !.url = u])

Unreadable(p) == repos = Torn /\ Fails(p)

\* Add rejects a name it has; Remove one it has not.
MayAdd(p) ==
  /\ At(p, "may-add")
  /\ \/ Unreadable(p)
     \/ repos \in Urls /\ Fails(p)
     \/ repos \in {Absent, None} /\ Go(p, Rest(p))
  /\ Quiet /\ UNCHANGED files

MayRemove(p) ==
  /\ At(p, "may-remove")
  /\ \/ Unreadable(p)
     \/ repos \in {Absent, None} /\ Fails(p)
     \/ repos \in Urls /\ Go(p, Rest(p))
  /\ Quiet /\ UNCHANGED files

\* EnsureRepos: what is absent is added, what is there is refreshed, which may fail, and
\* nothing is repointed.
Ensure(p) ==
  /\ At(p, "ensure")
  /\ \/ Unreadable(p)
     \/ repos \in {Absent, None} /\ Go(p, Add \o Rest(p))
     \/ repos \in Urls \ {run[p].url} /\ Fails(p)
     \/ repos = run[p].url /\ ~run[p].always /\ Go(p, Rest(p))
     \/ repos = run[p].url /\ run[p].always
        /\ On(p, [run[p] EXCEPT !.todo = Refresh \o Rest(p), !.otherwise = Rest(p)])
  /\ Quiet /\ UNCHANGED files

-----------------------------------------------------------------------------
(***************************************************************************)
(* The index                                                               *)
(***************************************************************************)
\* update: the URL comes from the file, and the visit is recorded before it is made.
List(p) ==
  /\ At(p, "list")
  /\ \/ Unreadable(p)
     \/ repos \in {Absent, None} /\ Fails(p)
     \/ repos \in Urls /\ On(p, [run[p] EXCEPT !.todo = Rest(p), !.url = repos, !.refreshed = TRUE])
  /\ Quiet /\ UNCHANGED files

Fetch(p) ==
  /\ At(p, "fetch")
  /\ \/ Fails(p)
     \/ On(p, [run[p] EXCEPT !.todo = Rest(p), !.fetched = [url |-> run[p].url, entries |-> published[run[p].url]]])
  /\ Quiet /\ UNCHANGED files

\* writeCache renames: a reader sees the old index or the new one.
Write(p) ==
  /\ At(p, "write")
  /\ index' = run[p].fetched
  /\ On(p, [run[p] EXCEPT !.todo = Rest(p), !.refreshed = TRUE, !.otherwise = <<>>])
  /\ Quiet /\ UNCHANGED <<repos, archives>>

\* save truncates repos.json before it writes it.
Truncate(p) == At(p, "truncate") /\ repos' = Torn /\ Go(p, Rest(p)) /\ Quiet /\ UNCHANGED <<index, archives>>

SaveRepos(p) ==
  /\ At(p, "save")
  /\ repos' = run[p].url
  /\ Go(p, Rest(p)) /\ Quiet /\ UNCHANGED <<index, archives>>

Unlink(p) == At(p, "unlink") /\ index' = NoIndex /\ Go(p, Rest(p)) /\ Quiet /\ UNCHANGED <<repos, archives>>

\* Resolve, up to the read of the index; autoRefresh comes first, once per process.
Resolve(p) ==
  /\ At(p, "resolve")
  /\ \/ Unreadable(p)
     \/ repos \in {Absent, None} /\ Fails(p)
     \/ /\ repos \in Urls
        /\ IF run[p].always /\ ~run[p].refreshed
           THEN On(p, [run[p] EXCEPT !.todo = Refresh \o Rest(p), !.otherwise = Rest(p), !.url = repos])
           ELSE On(p, [run[p] EXCEPT !.todo = Rest(p), !.url = repos])
  /\ Quiet /\ UNCHANGED files

\* LoadIndex and the choice of an entry: the version asked for, or the latest.
Read(p) ==
  /\ At(p, "read")
  /\ LET n == Len(index.entries)
         v == IF run[p].version = 0 THEN n ELSE run[p].version
     IN \/ v \notin 1..n /\ Fails(p)
        \/ v \in 1..n
           /\ On(p, [run[p] EXCEPT !.todo = Rest(p),
                       !.entry = [version |-> v, content |-> index.entries[v], digest |-> index.url \notin Undigested]])
  /\ Quiet /\ UNCHANGED files

-----------------------------------------------------------------------------
(***************************************************************************)
(* The archive                                                             *)
(***************************************************************************)
Loaded(p, content) == On(p, [run[p] EXCEPT !.todo = Rest(p), !.loaded = content])

\* cachedArchive: what is on disk counts when its digest is the entry's.
HitByName(e) == e.digest /\ e.content \in DOMAIN archives
Hit(e) == HitByName(e) /\ archives[e.content] = e.content

\* verifyDigest
Verified(e, body) == e.digest => body = e.content

Cached(p) ==
  /\ At(p, "pull") /\ Hit(run[p].entry)
  /\ Loaded(p, archives[run[p].entry.content])
  /\ Quiet /\ UNCHANGED files

\* downloadArchive: the tarball is under the URL that was read before the index was; a
\* version gone from there, and a body that is not the entry's, fail for good.
Download(p) ==
  LET e == run[p].entry
      served == published[run[p].url] IN
  /\ At(p, "pull") /\ ~Hit(e)
  /\ \/ run[p].tries < Retries /\ On(p, [run[p] EXCEPT !.tries = @ + 1]) /\ UNCHANGED archives
     \/ (run[p].tries = Retries \/ e.version \notin DOMAIN served) /\ Fails(p) /\ UNCHANGED archives
     \/ /\ e.version \in DOMAIN served /\ ~Verified(e, served[e.version])
        /\ Fails(p) /\ UNCHANGED archives
     \/ /\ e.version \in DOMAIN served /\ Verified(e, served[e.version])
        /\ Loaded(p, served[e.version])
        /\ \/ e.digest /\ archives' = [c \in DOMAIN archives \cup {e.content} |-> IF c = e.content THEN c ELSE archives[c]]
           \/ UNCHANGED archives
  /\ Quiet /\ UNCHANGED <<repos, index>>

\* Archives age out, and a file may be cut or edited by hand.
Sweep ==
  /\ \E c \in DOMAIN archives :
       \/ archives' = [d \in DOMAIN archives \ {c} |-> archives[d]]
       \/ archives' = [archives EXCEPT ![c] = Spoilt]
  /\ UNCHANGED <<repos, index, run>> /\ Quiet

\* The program is killed.
Crash(p) ==
  /\ run[p].todo # <<>> /\ On(p, [run[p] EXCEPT !.todo = <<>>, !.loaded = 0])
  /\ Quiet /\ UNCHANGED files

\* A chart is released, or its last version is built anew and published again.
Publish ==
  /\ Cardinality(ever) < MaxContents
  /\ LET c == Cardinality(ever) + 1 IN \E u \in Urls :
       \E v \in {Len(published[u]), Len(published[u]) + 1} \ {0} :
         /\ published' = [published EXCEPT ![u] = SubSeq(@, 1, v - 1) \o <<c>>]
         /\ ever' = ever \cup {[version |-> v, content |-> c]}
  /\ UNCHANGED <<run, commands, overlapped>> /\ UNCHANGED files

Init ==
  /\ published = [u \in Urls |-> <<>>] /\ ever = {}
  /\ repos = Absent /\ index = NoIndex /\ archives = [c \in {} |-> 0]
  /\ run = [p \in Programs |-> Idle] /\ commands = 0 /\ overlapped = FALSE

Next ==
  \/ \E p \in Programs :
       \/ RepoAdd(p) \/ RepoRemove(p) \/ RepoUpdate(p) \/ Install(p) \/ Apply(p)
       \/ MayAdd(p) \/ MayRemove(p) \/ Ensure(p)
       \/ List(p) \/ Fetch(p) \/ Write(p) \/ Truncate(p) \/ SaveRepos(p) \/ Unlink(p)
       \/ Resolve(p) \/ Read(p) \/ Cached(p) \/ Download(p) \/ Crash(p)
  \/ Sweep \/ Publish

Spec == Init /\ [][Next]_vars

-----------------------------------------------------------------------------
(***************************************************************************)
(* What must hold                                                          *)
(***************************************************************************)
\* Every piece of state keeps to its type.
TypeOK ==
  /\ repos \in Urls \cup {Absent, None, Torn}
  /\ index.url \in Urls \cup {Absent} /\ ever \subseteq [version : 1..MaxContents, content : 1..MaxContents]
  /\ \A c \in DOMAIN archives : archives[c] \in {Spoilt, c}
  /\ \A p \in Programs : run[p].tries <= Retries /\ run[p].loaded \in 0..Spoilt
  /\ commands <= MaxCommands

\* "It can never resolve one to the wrong version": what a command loads for a pinned version
\* was published as that version, and where digests are published it is what the index entry
\* it chose names, whoever else wrote the index, the archives and the repository meanwhile.
LoadsWhatWasPublished ==
  \A p \in Programs : LET r == run[p] IN r.loaded # 0 =>
    /\ [version |-> r.entry.version, content |-> r.loaded] \in ever
    /\ r.version # 0 => r.entry.version = r.version
    /\ r.entry.digest => r.loaded = r.entry.content

\* Of commands that do not overlap, however many of them were killed half way, the cached
\* index of the repository that is configured came from the URL it is configured with.
CacheIsItsRepositorys ==
  ~overlapped /\ repos \in Urls /\ index # NoIndex => index.url = repos
=============================================================================
