----------------------------- MODULE AppRegistry -----------------------------
(***************************************************************************)
(* The App Registry: a clone of a repository with the metadata of          *)
(* applications, the tables indexed from it, and the synchronisation with  *)
(* new commits, by a job every ten minutes and at the start of the service.*)
(*                                                                         *)
(* An application has a directory, which it may be moved from; its names   *)
(* are those of no other application and stand for its chain ID, too.  A   *)
(* file holds one value, the chain name (app.json) or the set of its       *)
(* tokens (nativetokens.json), or is missing.                              *)
(***************************************************************************)
EXTENDS Integers, Sequences, FiniteSets, SequencesExt

CONSTANTS
  App,             \* applications, and their directories at first
  ChainName,       \* what the names of an application tell apart
  TokenSets,       \* contents of nativetokens.json
  PoolSize,        \* connections to the database
  MaxPushes,       \* bound: commits
  MaxMishaps       \* bound: failed requests and restarts

ASSUME RegistryAssumption == ChainName # {} /\ TokenSets # {}

VARIABLES
  commits,         \* of the repository: for each, the files of each directory
  localFiles,      \* the clone, if isCloned
  isCloned,
  tempFiles,       \* temp-downloads, which every synchronisation uses
  lastSyncedCommit,
  appTable, tokenTable,
  syncing,         \* the synchronisation of the start and that of the job
  openTrx,         \* transactions that were opened and never ended
  accidents,       \* history: what has gone wrong
  registryMishaps

registryVars == <<commits, localFiles, isCloned, tempFiles, lastSyncedCommit, appTable,
                  tokenTable, syncing, openTrx, accidents, registryMishaps>>

APP_JSON == "app.json"
NATIVETOKENS_JSON == "nativetokens.json"
MetaFiles == {APP_JSON, NATIVETOKENS_JSON}
NoFiles == [a \in App |-> [f \in MetaFiles |-> << >>]]
head == commits[Len(commits)]

\* The job and the start of the service (bound: the job does not overlap itself).
Sync == {"init", "job"}
NotSyncing == [pc |-> "idle"]
-----------------------------------------------------------------------------
(* The repository.                                                         *)

\* The application whose app.json a directory holds, and what may be pushed there:
\* another name or other tokens of it, or an application that has no directory.
AppOf(files, a) == {m \in App : \E n \in ChainName : files[a][APP_JSON] = <<<<m, n>>>>}
Contents(a, f) ==
  LET known == IF AppOf(head, a) # {} THEN AppOf(head, a)
               ELSE App \ UNION {AppOf(head, b) : b \in App}
  IN  {<< >>} \cup {<<c>> : c \in IF f = APP_JSON THEN known \X ChainName ELSE TokenSets}

Commit(files) ==
  /\ Len(commits) <= MaxPushes
  /\ files # head
  /\ \* tokens come with an application
     \A a \in App : files[a][NATIVETOKENS_JSON] # << >> => files[a][APP_JSON] # << >>
  /\ commits' = Append(commits, files)
  /\ UNCHANGED <<localFiles, isCloned, tempFiles, lastSyncedCommit, appTable, tokenTable,
                 syncing, openTrx, accidents, registryMishaps>>

Push(a, f, content) == Commit([head EXCEPT ![a][f] = content])

\* The files of a directory are moved to another one, which is new.
PushMove(b, a) ==
  /\ head[a] = NoFiles[a]
  /\ Commit([head EXCEPT ![a] = head[b], ![b] = NoFiles[b]])

\* Metadata files only, sorted by name: app.json comes first.
groupFilesByNetworkAndApp(files) ==
  (IF APP_JSON \in files THEN <<APP_JSON>> ELSE << >>)
    \o (IF NATIVETOKENS_JSON \in files THEN <<NATIVETOKENS_JSON>> ELSE << >>)

\* A file that is gone from one directory, and one like it that is new in another
\* (external: how GitHub finds out).
areAlike(f, old, new) ==
  IF f = APP_JSON THEN old[1][1] = new[1][1] ELSE old[1] \cap new[1] # {}
isRenamed(from, to, b, a, f) ==
  /\ from[b][f] # << >> /\ to[b][f] = << >>
  /\ from[a][f] = << >> /\ to[a][f] # << >>
  /\ areAlike(f, from[b][f], to[a][f])

fileStatus(old, new, a, f) ==
  IF new[a][f] = << >> THEN "removed"
  ELSE IF old[a][f] # << >> THEN "modified"
  ELSE IF \E b \in App : isRenamed(old, new, b, a, f) THEN "renamed" ELSE "added"

\* Files of a directory that two commits differ in.  Of a renamed file GitHub lists
\* the new name only; a copied one is treated as one that was added.
getDiff(from, to, a) ==
  LET old == commits[from]
      new == commits[to]
      changed == groupFilesByNetworkAndApp(
                   {f \in MetaFiles : /\ old[a][f] # new[a][f]
                                      /\ ~\E b \in App : isRenamed(old, new, a, b, f)})
  IN  [i \in DOMAIN changed |->
         [filename |-> changed[i], status |-> fileStatus(old, new, a, changed[i])]]

\* For these what was indexed is deleted: not for the old name of a renamed file.
fileUpdatedStatuses == {"removed", "modified"}
-----------------------------------------------------------------------------
(* The tables, and the statements that change them.                        *)

indexAppMeta(a, name) == [do |-> "indexApp", dir |-> a, chainName |-> name, tokens |-> {}]
indexTokensMeta(a, name, tokens) ==
  [do |-> "indexTokens", dir |-> a, chainName |-> name, tokens |-> tokens]
deleteAppMeta(name) == [do |-> "deleteApp", dir |-> "", chainName |-> name, tokens |-> {}]
deleteTokensMeta(name, tokens) ==
  [do |-> "deleteTokens", dir |-> "", chainName |-> name, tokens |-> tokens]

TokenRow(op, t) == [chainName |-> op.chainName, token |-> t]

Execute(tables, op) ==
  LET others == {r \in tables.app : r.chainName # op.chainName}
      rest == {r \in tables.token : r.chainName # op.chainName \/ r.token \notin op.tokens}
  IN  CASE op.do = "indexApp" ->
             [tables EXCEPT !.app = others \cup {[dir |-> op.dir, chainName |-> op.chainName]}]
        [] op.do = "deleteApp" -> [tables EXCEPT !.app = others]
        [] op.do = "indexTokens" ->
             [tables EXCEPT !.token = rest \cup {TokenRow(op, t) : t \in op.tokens}]
        [] op.do = "deleteTokens" -> [tables EXCEPT !.token = rest]

ExecuteAll(ops) == FoldLeft(Execute, [app |-> appTable, token |-> tokenTable], ops)

\* Of a downloaded file, next to which there may be a new app.json.
indexMetadataFromFile(a, f, temp) ==
  LET appJson == IF temp[a][APP_JSON] # << >> THEN temp[a][APP_JSON] ELSE localFiles[a][APP_JSON]
  IN  IF f = APP_JSON THEN indexAppMeta(a, appJson[1])
      ELSE indexTokensMeta(a, appJson[1], temp[a][f][1])

\* Mutant of deleteIndexedMetadataFromFile: what the new file says is deleted.
deleteMetadataOfNewFile(a, f) ==
  IF f = APP_JSON THEN deleteAppMeta(IF head[a][f] # << >> THEN head[a][f][1] ELSE localFiles[a][f][1])
  ELSE deleteTokensMeta(localFiles[a][APP_JSON][1],
                        IF head[a][f] # << >> THEN head[a][f][1] ELSE localFiles[a][f][1])

\* Of a file of the clone, before it is replaced.
deleteIndexedMetadataFromFile(a, f) ==
  IF f = APP_JSON THEN deleteAppMeta(localFiles[a][f][1])
  ELSE deleteTokensMeta(localFiles[a][APP_JSON][1], localFiles[a][f][1])
-----------------------------------------------------------------------------
(* syncWithRemoteRepo.                                                     *)

\* The transaction takes a connection of the pool, or the call fails.
startSync(s) ==
  /\ openTrx < PoolSize
  /\ openTrx' = openTrx + 1
  /\ syncing' = [syncing EXCEPT ![s] = [pc |-> "commits"]]
  /\ UNCHANGED <<commits, localFiles, isCloned, tempFiles, lastSyncedCommit, appTable,
                 tokenTable, accidents, registryMishaps>>

\* An error ends the start of the service, which then indexes nothing.
Aborted(s) == IF s = "init" THEN {"start failed"} ELSE {}

\* Where the caller goes on: the start of the service indexes all files next.
AfterSync(s) == [syncing EXCEPT ![s] = IF s = "init" THEN [pc |-> "indexAll"] ELSE NotSyncing]

\* No new commit: the transaction is neither committed nor rolled back.
skipSync(s) ==
  /\ syncing[s].pc = "commits"
  /\ lastSyncedCommit = Len(commits)
  /\ syncing' = AfterSync(s)
  /\ UNCHANGED <<commits, localFiles, isCloned, tempFiles, lastSyncedCommit, appTable,
                 tokenTable, openTrx, accidents, registryMishaps>>

\* The directory for downloads is made anew, and with it that of the clone.
\* Without a commit to compare with, the comparison fails.
getCommitInfo(s) ==
  /\ syncing[s].pc = "commits"
  /\ lastSyncedCommit # Len(commits)
  /\ tempFiles' = NoFiles
  /\ isCloned' = TRUE
  /\ IF lastSyncedCommit = 0
     THEN /\ syncing' = [syncing EXCEPT ![s] = NotSyncing]
          /\ openTrx' = openTrx - 1
     ELSE /\ syncing' = [syncing EXCEPT ![s] =
               [pc |-> "files", to |-> Len(commits), ops |-> << >>, done |-> {},
                todo |-> [a \in App |-> getDiff(lastSyncedCommit, Len(commits), a)]]]
          /\ UNCHANGED openTrx
  /\ accidents' = accidents
       \cup (IF lastSyncedCommit = 0 THEN Aborted(s) ELSE {})
       \cup (IF \E r \in Sync \ {s} : syncing[r].pc \in {"files", "move"} THEN {"overlap"} ELSE {})
  /\ UNCHANGED <<commits, localFiles, lastSyncedCommit, appTable, tokenTable, registryMishaps>>

\* Mutant of canProcess: also for a new file there has to be an old one.
canProcessKnownFile(a, entry) ==
  /\ localFiles[a][APP_JSON] # << >>
  /\ localFiles[a][entry.filename] # << >>
  /\ entry.status # "removed" => head[a][entry.filename] # << >>

\* What a file needs: its old version and app.json to delete what was indexed,
\* its new version to download, and an app.json to index.
canProcess(a, entry) ==
  /\ entry.status \in fileUpdatedStatuses =>
       localFiles[a][APP_JSON] # << >> /\ localFiles[a][entry.filename] # << >>
  /\ entry.status # "removed" =>
       /\ head[a][entry.filename] # << >>
       /\ \/ entry.filename = APP_JSON
          \/ tempFiles[a][APP_JSON] # << >>
          \/ localFiles[a][APP_JSON] # << >>

\* The latest version of the file is downloaded, whichever commit it is of.
processFile(s, a) ==
  /\ syncing[s].pc = "files"
  /\ syncing[s].todo[a] # << >>
  /\ LET entry == Head(syncing[s].todo[a])
         f == entry.filename
         temp == [tempFiles EXCEPT ![a][f] = head[a][f]]
         deletion == IF entry.status \in fileUpdatedStatuses
                     THEN <<deleteIndexedMetadataFromFile(a, f)>> ELSE << >>
         indexing == IF entry.status = "removed" THEN << >>
                     ELSE <<indexMetadataFromFile(a, f, temp)>>
     IN  /\ canProcess(a, entry)
         /\ tempFiles' = IF entry.status = "removed" THEN tempFiles ELSE temp
         /\ syncing' = [syncing EXCEPT ![s] =
              [pc |-> "files", to |-> syncing[s].to,
               ops |-> syncing[s].ops \o deletion \o indexing,
               done |-> syncing[s].done \cup {[dir |-> a, filename |-> f, status |-> entry.status]},
               todo |-> [syncing[s].todo EXCEPT ![a] = Tail(@)]]]
  /\ UNCHANGED <<commits, localFiles, isCloned, lastSyncedCommit, appTable, tokenTable,
                 openTrx, accidents, registryMishaps>>

\* An application got another name and its tokens, which are left alone, keep the
\* rows with its old name.
RenamedAlone(s) ==
  \E a \in App : /\ \E d \in syncing[s].done : d.dir = a /\ d.filename = APP_JSON
                 /\ \A d \in syncing[s].done : d.dir = a => d.filename = APP_JSON
                 /\ localFiles[a][NATIVETOKENS_JSON] # << >>

commitSync(s) ==
  /\ syncing[s].pc = "files"
  /\ \A a \in App : syncing[s].todo[a] = << >>
  /\ LET tables == ExecuteAll(syncing[s].ops)
     IN  appTable' = tables.app /\ tokenTable' = tables.token
  /\ lastSyncedCommit' = syncing[s].to
  /\ openTrx' = openTrx - 1
  /\ accidents' = accidents \cup (IF RenamedAlone(s) THEN {"renamed"} ELSE {})
  /\ syncing' = [syncing EXCEPT ![s] = [pc |-> "move", done |-> syncing[s].done]]
  /\ UNCHANGED <<commits, localFiles, isCloned, tempFiles, registryMishaps>>

rm(files, d) == [files EXCEPT ![d.dir][d.filename] = << >>]
mv(d) == [localFiles EXCEPT ![d.dir][d.filename] = tempFiles[d.dir][d.filename]]

\* Only now are files removed from the clone, and then the new ones moved there.
moveFile(s, d) ==
  /\ syncing[s].pc = "move"
  /\ d \in syncing[s].done
  /\ d.status # "removed" => /\ \A e \in syncing[s].done : e.status # "removed"
                             /\ tempFiles[d.dir][d.filename] # << >>
  /\ localFiles' = IF d.status = "removed" THEN rm(localFiles, d) ELSE mv(d)
  /\ tempFiles' = IF d.status = "removed" THEN tempFiles ELSE rm(tempFiles, d)
  /\ syncing' = [syncing EXCEPT ![s] = [pc |-> "move", done |-> syncing[s].done \ {d}]]
  /\ UNCHANGED <<commits, isCloned, lastSyncedCommit, appTable, tokenTable, openTrx,
                 accidents, registryMishaps>>

endSync(s) ==
  /\ syncing[s].pc = "move"
  /\ syncing[s].done = {}
  /\ tempFiles' = NoFiles
  /\ syncing' = AfterSync(s)
  /\ UNCHANGED <<commits, localFiles, isCloned, lastSyncedCommit, appTable, tokenTable,
                 openTrx, accidents, registryMishaps>>

\* A file is missing, or a request fails.  Before the commit everything is
\* rolled back; after it the files of the clone remain as they are.
failSync(s) ==
  /\ \/ /\ syncing[s].pc = "files"
        /\ \/ \E a \in App : /\ syncing[s].todo[a] # << >>
                             /\ ~canProcess(a, Head(syncing[s].todo[a]))
              /\ UNCHANGED registryMishaps
           \/ /\ registryMishaps < MaxMishaps
              /\ registryMishaps' = registryMishaps + 1
        /\ openTrx' = openTrx - 1
        /\ accidents' = accidents \cup Aborted(s)
     \/ /\ syncing[s].pc = "move"
        /\ \A d \in syncing[s].done :
             d.status # "removed" /\ tempFiles[d.dir][d.filename] = << >>
        /\ syncing[s].done # {}
        /\ accidents' = accidents \cup {"torn"} \cup Aborted(s)
        /\ UNCHANGED <<openTrx, registryMishaps>>
  /\ syncing' = [syncing EXCEPT ![s] = NotSyncing]
  /\ UNCHANGED <<commits, localFiles, isCloned, tempFiles, lastSyncedCommit, appTable, tokenTable>>

\* The pool is used up and the call for a transaction times out.
failStart(s) ==
  /\ openTrx = PoolSize
  /\ syncing[s].pc = "start"
  /\ syncing' = [syncing EXCEPT ![s] = NotSyncing]
  /\ accidents' = accidents \cup Aborted(s)
  /\ UNCHANGED <<commits, localFiles, isCloned, tempFiles, lastSyncedCommit, appTable,
                 tokenTable, openTrx, registryMishaps>>
-----------------------------------------------------------------------------
(* The job, and the start of the service.                                  *)

metadataJob ==
  /\ syncing["job"] = NotSyncing
  /\ startSync("job")

\* downloadRepositoryToFS
initSyncs ==
  /\ syncing["init"].pc = "start"
  /\ lastSyncedCommit # 0 /\ isCloned
  /\ startSync("init")

downloadAndExtractTarball ==
  /\ syncing["init"].pc = "start"
  /\ ~(lastSyncedCommit # 0 /\ isCloned)
  /\ isCloned' = FALSE
  /\ localFiles' = NoFiles
  /\ syncing' = [syncing EXCEPT !["init"] = [pc |-> "extracted", files |-> head]]
  /\ UNCHANGED <<commits, tempFiles, lastSyncedCommit, appTable, tokenTable, openTrx,
                 accidents, registryMishaps>>

\* The directory is given its name, unless the job has made one in between.
renameExtracted ==
  /\ syncing["init"].pc = "extracted"
  /\ IF isCloned
     THEN /\ syncing' = [syncing EXCEPT !["init"] = NotSyncing]
          /\ accidents' = accidents \cup Aborted("init")
          /\ UNCHANGED <<localFiles, isCloned>>
     ELSE /\ localFiles' = syncing["init"].files
          /\ isCloned' = TRUE
          /\ syncing' = [syncing EXCEPT !["init"] =
                           [pc |-> "hash"]]
          /\ UNCHANGED accidents
  /\ UNCHANGED <<commits, tempFiles, lastSyncedCommit, appTable, tokenTable, openTrx,
                 registryMishaps>>

\* The commit is asked for last: one that was pushed after the download counts
\* as synchronised.
setLatestCommitHash ==
  /\ syncing["init"].pc = "hash"
  /\ lastSyncedCommit' = Len(commits)
  /\ accidents' = accidents \cup (IF localFiles # head THEN {"skipped"} ELSE {})
  /\ syncing' = [syncing EXCEPT !["init"] = [pc |-> "indexAll"]]
  /\ UNCHANGED <<commits, localFiles, isCloned, tempFiles, appTable, tokenTable, openTrx,
                 registryMishaps>>

\* Files of the clone lag behind the tables.
IsMoving == \E s \in Sync : syncing[s].pc = "move" /\ syncing[s].done # {}

\* Every file of the clone in a transaction of its own; nothing is deleted.
indexAllBlockchainAppsMeta ==
  LET fileOps(a) ==
        IF localFiles[a][APP_JSON] = << >> THEN << >>
        ELSE <<indexAppMeta(a, localFiles[a][APP_JSON][1])>>
               \o (IF localFiles[a][NATIVETOKENS_JSON] = << >> THEN << >>
                   ELSE <<indexMetadataFromFile(a, NATIVETOKENS_JSON, localFiles)>>)
      tables == ExecuteAll(FlattenSeq(SetToSeq({fileOps(a) : a \in App})))
  IN  /\ syncing["init"].pc = "indexAll"
      /\ openTrx < PoolSize
      /\ appTable' = tables.app
      /\ tokenTable' = tables.token
      /\ accidents' = accidents \cup (IF IsMoving THEN {"torn"} ELSE {})
      /\ syncing' = [syncing EXCEPT !["init"] = NotSyncing]
      /\ UNCHANGED <<commits, localFiles, isCloned, tempFiles, lastSyncedCommit, openTrx,
                     registryMishaps>>

\* The service is started again; the database rolls back what was open.
RestartRegistry ==
  /\ registryMishaps < MaxMishaps
  /\ registryMishaps' = registryMishaps + 1
  /\ syncing' = [s \in Sync |-> IF s = "init" THEN [pc |-> "start"] ELSE NotSyncing]
  /\ openTrx' = 0
  /\ accidents' = (accidents \ {"start failed"}) \cup (IF IsMoving THEN {"torn"} ELSE {})
  /\ UNCHANGED <<commits, localFiles, isCloned, tempFiles, lastSyncedCommit, appTable, tokenTable>>
-----------------------------------------------------------------------------
RegistryInit ==
  /\ commits = <<[a \in App |-> [f \in MetaFiles |->
                    IF a # CHOOSE b \in App : TRUE THEN << >>
                    ELSE IF f = APP_JSON THEN <<<<a, CHOOSE n \in ChainName : TRUE>>>>
                    ELSE <<CHOOSE t \in TokenSets : TRUE>>]]>>
  /\ localFiles = NoFiles
  /\ isCloned = FALSE
  /\ tempFiles = NoFiles
  /\ lastSyncedCommit = 0
  /\ appTable = {} /\ tokenTable = {}
  /\ syncing = [s \in Sync |-> IF s = "init" THEN [pc |-> "start"] ELSE NotSyncing]
  /\ openTrx = 0
  /\ accidents = {}
  /\ registryMishaps = 0

SyncStep(s) ==
  \/ skipSync(s) \/ getCommitInfo(s)
  \/ \E a \in App : processFile(s, a)
  \/ commitSync(s)
  \/ \E d \in [dir : App, filename : MetaFiles,
                status : {"added", "renamed"} \cup fileUpdatedStatuses] : moveFile(s, d)
  \/ endSync(s) \/ failSync(s) \/ failStart(s)

InitStep ==
  \/ initSyncs \/ downloadAndExtractTarball \/ renameExtracted \/ setLatestCommitHash
  \/ indexAllBlockchainAppsMeta

RegistryNext ==
  \/ \E a \in App, f \in MetaFiles : \E c \in Contents(a, f) : Push(a, f, c)
  \/ \E a, b \in App : PushMove(b, a)
  \/ metadataJob
  \/ \E s \in Sync : SyncStep(s)
  \/ InitStep
  \/ RestartRegistry
-----------------------------------------------------------------------------
RegistryAtRest == \A s \in Sync : syncing[s] = NotSyncing

\* Some comparison of commits shows this file as one that was renamed: it stays in
\* the clone, and its rows in the tables, until they are overwritten.
LeftBehind(a, f) ==
  \E k \in 1..Len(commits) : \E i \in 1..k, b \in App :
    isRenamed(commits[i], commits[k], a, b, f)

\* At rest the tables hold what the clone holds, no more and no less, although
\* files of later commits are downloaded, requests fail and the service is
\* restarted; unless the start failed or overlapped the job, a commit that came
\* during the download was taken for cloned, the service was stopped between the
\* commit and the last file, an application got another name and its tokens were
\* not touched, or a file was left behind.  Those of the clone that the repository
\* has as well are in the tables even then.
TablesMirrorClone ==
  RegistryAtRest /\ accidents \cap {"start failed", "skipped", "overlap", "torn", "renamed"} = {} =>
    LET names(dirs) == {localFiles[a][APP_JSON][1] : a \in {b \in dirs : localFiles[b][APP_JSON] # << >>}}
        tokens(dirs) == UNION {{[chainName |-> localFiles[a][APP_JSON][1], token |-> t] :
                                  t \in localFiles[a][NATIVETOKENS_JSON][1]} :
                                 a \in {b \in dirs : localFiles[b][NATIVETOKENS_JSON] # << >>}}
        inHead == {a \in App : localFiles[a] = head[a]}
    IN  /\ names(inHead) \subseteq {r.chainName : r \in appTable}
        /\ tokens(inHead) \subseteq tokenTable
        /\ \/ /\ appTable = {[dir |-> a, chainName |-> localFiles[a][APP_JSON][1]] :
                               a \in {b \in App : localFiles[b][APP_JSON] # << >>}}
              /\ tokenTable = tokens(App)
           \/ \E a \in App, f \in MetaFiles : LeftBehind(a, f)

\* A file of the clone is as in the latest commit, or the repository has gone back
\* to what the file held before the commit that the clone has it of: a file may be
\* downloaded from a later commit than is recorded, and when that one is undone the
\* comparison with the recorded one shows nothing to do.
ClonedOrUndone(a, f) ==
  \/ localFiles[a][f] = head[a][f]
  \/ \E k \in 1..Len(commits) : \E i \in 1..(k - 1) :
       localFiles[a][f] = commits[k][a][f] /\ commits[i][a][f] = head[a][f]

\* Every file of the repository is in the clone, and a file that is there in
\* addition was left behind.
CloneHoldsHead ==
  \A a \in App, f \in MetaFiles :
    ClonedOrUndone(a, f) \/ (head[a][f] = << >> /\ LeftBehind(a, f))

\* What is recorded as synchronised is in the clone.
SyncedCommitIsCloned ==
  RegistryAtRest /\ lastSyncedCommit = Len(commits)
    /\ accidents \cap {"skipped", "overlap", "torn"} = {} => CloneHoldsHead

\* What keeps the clone from following: the start failed or overlapped the job, a
\* commit that came during the download was taken for cloned, or files were not moved.
HasFallenBehind == accidents \cap {"start failed", "skipped", "overlap", "torn"} # {}

\* Once nothing is pushed any more the clone becomes that of the latest commit if
\* the service has a connection left then: a synchronisation that has something to
\* do gives its connection back, after as many failures as there may be.
CloneCatchesUp ==
  (Len(commits) > MaxPushes /\ lastSyncedCommit # 0 /\ openTrx < PoolSize)
    ~> (HasFallenBehind \/ CloneHoldsHead)

\* jobs/metadata.js keeps the metadata up to date.
RegistryStaysUpToDate == <>[](HasFallenBehind \/ CloneHoldsHead)
=============================================================================
