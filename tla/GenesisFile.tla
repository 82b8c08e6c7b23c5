---------------------------- MODULE GenesisFile ----------------------------
(***************************************************************************)
(* The genesis block that the connector reads from a file: getGenesisBlock *)
(* (blockchain-connector/shared/sdk/genesisBlock.js) and what it calls     *)
(* (sdk/blocksUtils.js, utils/download.js, utils/fs.js).  When the file    *)
(* cannot be had or read, the node is asked.                               *)
(*                                                                         *)
(* Loaders share the directory, the stream over the file and one parser.   *)
(***************************************************************************)
EXTENDS Integers, FiniteSets

CONSTANTS
  Loader,             \* calls of getGenesisBlock
  Retries,            \* of the download
  MaxLoaderRestarts,  \* bound: restarts of the service
  MaxBadDownloads     \* bound: downloads that fail or are damaged

VARIABLES
  hosted,         \* what is hosted at the configured URL: "none" without one, "missing",
                  \* the block as "json", or an "archive" that holds it
  isURLNotFound,  \* isGenesisBlockURLNotFound
  isConfigured,   \* genesisBlockUrl and genesisBlockFilePath are set
  isMetadataSet,  \* formatBlock has what it needs
  file,           \* genesis_block.json: "absent", "partial", "damaged" or "complete"
  archive,        \* the archive next to it, likewise
  readStream,     \* "none", the file it was opened on, or "consumed"
  parser,         \* "unused", "reading", or what it has read; shared by all
  genesisBlock,   \* "none", or what file it was read from
  loaders,        \* what each call is doing
  attempts,       \* downloads that a loader may still try
  overlapped,     \* history: two calls have been under way at the same time
  restarts, badDownloads

configVars == <<hosted, isURLNotFound, isConfigured, isMetadataSet>>
diskVars == <<file, archive>>
readVars == <<readStream, parser, genesisBlock>>
genesisVars == <<configVars, diskVars, readVars, loaders, attempts, overlapped, restarts,
                 badDownloads>>

At(l, step) == loaders' = [loaders EXCEPT ![l] = step]

\* The calls that have not returned.
pending == {l \in Loader : loaders[l] \notin {"idle", "file", "answered"}}

GenesisInit ==
  /\ hosted \in {"none", "missing", "json", "archive"}
  /\ isURLNotFound = FALSE
  /\ isConfigured = FALSE
  /\ isMetadataSet \in BOOLEAN
  /\ file = "absent"
  /\ archive = "absent"
  /\ readStream = "none"
  /\ parser = "unused"
  /\ genesisBlock = "none"
  /\ loaders = [l \in Loader |-> "idle"]
  /\ attempts = [l \in Loader |-> 0]
  /\ overlapped = FALSE
  /\ restarts = 0
  /\ badDownloads = 0
-----------------------------------------------------------------------------
(* getGenesisBlockFromFS                                                    *)

\* Mutant of AfterConfig: the stored block is not looked for.
AfterConfigAlways == "exists"

\* The stored block is returned when there is one.
AfterConfig == IF genesisBlock = "none" THEN "exists" ELSE "file"

getGenesisBlock(l) ==
  /\ loaders[l] = "idle"
  /\ At(l, IF isURLNotFound THEN "node" ELSE IF isConfigured THEN AfterConfig ELSE "config")
  /\ overlapped' = (overlapped \/ pending # {})
  /\ UNCHANGED <<configVars, diskVars, readVars, attempts, restarts, badDownloads>>

\* An unknown network has no file; a file that is there gets a new stream.
loadConfig(l) ==
  /\ loaders[l] = "config"
  /\ isConfigured' = (hosted # "none")
  /\ readStream' = IF hosted # "none" /\ file # "absent" THEN file ELSE readStream
  /\ At(l, AfterConfig)
  /\ UNCHANGED <<hosted, isURLNotFound, isMetadataSet, diskVars, parser, genesisBlock, attempts,
                 overlapped, restarts, badDownloads>>

\* Without a path the download fails at once.
exists(l) ==
  /\ loaders[l] = "exists"
  /\ At(l, IF ~isConfigured THEN "node" ELSE IF file = "absent" THEN "download" ELSE "read")
  /\ attempts' = [attempts EXCEPT ![l] = Retries + 1]
  /\ UNCHANGED <<configVars, diskVars, readVars, overlapped, restarts, badDownloads>>

\* The process ends and is started again; files stay.
RestartConnector ==
  /\ restarts < MaxLoaderRestarts
  /\ restarts' = restarts + 1
  /\ isURLNotFound' = FALSE
  /\ isConfigured' = FALSE
  /\ isMetadataSet' = FALSE
  /\ readStream' = "none"
  /\ parser' = "unused"
  /\ genesisBlock' = "none"
  /\ loaders' = [l \in Loader |-> "idle"]
  /\ attempts' = [l \in Loader |-> 0]
  /\ UNCHANGED <<hosted, overlapped>>
Crash == RestartConnector /\ UNCHANGED <<diskVars, badDownloads>>

\* Another attempt, or process.exit when none is left.
Again(l) ==
  \/ /\ attempts[l] > 1
     /\ At(l, "download")
     /\ attempts' = [attempts EXCEPT ![l] = @ - 1]
     /\ UNCHANGED <<configVars, readVars, overlapped, restarts>>
  \/ attempts[l] = 1 /\ RestartConnector

Damage == badDownloads < MaxBadDownloads /\ badDownloads' = badDownloads + 1

\* What is downloaded is the file itself or the archive.
downloaded == IF hosted = "archive" THEN archive ELSE file
Download(content) ==
  /\ file' = IF hosted = "archive" THEN file ELSE content
  /\ archive' = IF hosted = "archive" THEN content ELSE archive

\* downloadFile, twice: written while it arrives, over what is there.
DownloadStarts(l) ==
  /\ loaders[l] = "download"
  /\ hosted \in {"json", "archive"}
  /\ Download("partial")
  /\ At(l, "downloading")
  /\ UNCHANGED <<configVars, readVars, attempts, overlapped, restarts, badDownloads>>

\* It is all there, as it was or damaged, unless another loader removed it.
DownloadEnds(l) ==
  /\ loaders[l] = "downloading"
  /\ \/ downloaded # "absent" /\ Download("complete") /\ UNCHANGED badDownloads
     \/ downloaded # "absent" /\ Download("damaged") /\ Damage
     \/ downloaded = "absent" /\ UNCHANGED <<diskVars, badDownloads>>
  /\ At(l, "verify")
  /\ UNCHANGED <<configVars, readVars, attempts, overlapped, restarts>>

\* 404 is final, any other failure is not.
DownloadFails(l) ==
  /\ loaders[l] \in {"download", "downloading"}
  /\ hosted \in {"json", "archive"}
  /\ Damage
  /\ Again(l)
  /\ UNCHANGED diskVars
DownloadNotFound(l) ==
  /\ loaders[l] = "download"
  /\ hosted = "missing"
  /\ isURLNotFound' = TRUE
  /\ At(l, "node")
  /\ UNCHANGED <<hosted, isConfigured, isMetadataSet, diskVars, readVars, attempts, overlapped,
                 restarts, badDownloads>>

\* verifyFileChecksum, of what is in the directory now.
Verified(content) == content = "complete"

\* If the digest differs, the directory is removed, whoever else uses it.
VerifyDownload(l) ==
  /\ loaders[l] = "verify"
  /\ \/ /\ Verified(downloaded)
        /\ At(l, IF hosted = "archive" THEN "extract" ELSE "open")
        /\ UNCHANGED <<configVars, diskVars, readVars, attempts, overlapped, restarts>>
     \/ /\ ~Verified(downloaded)
        /\ file' = "absent"
        /\ archive' = "absent"
        /\ Again(l)
  /\ UNCHANGED badDownloads

\* The archive is opened, unless it was removed, and unpacked into the file; one
\* that was written over meanwhile unpacks in part.
extractTarBall(l) ==
  /\ loaders[l] = "extract"
  /\ \/ /\ archive # "absent"
        /\ file' = "partial"
        /\ At(l, "extracting")
        /\ UNCHANGED <<configVars, archive, readVars, attempts, overlapped, restarts>>
     \/ /\ archive = "absent"
        /\ Again(l)
        /\ UNCHANGED diskVars
  /\ UNCHANGED badDownloads
ExtractEnds(l) ==
  /\ loaders[l] = "extracting"
  /\ file' = IF file = "partial" /\ archive \in {"complete", "absent"} THEN "complete" ELSE file
  /\ At(l, "open")
  /\ UNCHANGED <<configVars, archive, readVars, attempts, overlapped, restarts, badDownloads>>

\* Nobody listens for an error of the stream: without the file the process ends.
createReadStream(l) ==
  /\ loaders[l] = "open"
  /\ \/ /\ file # "absent"
        /\ readStream' = file
        /\ At(l, "read")
        /\ UNCHANGED <<configVars, parser, genesisBlock, attempts, overlapped, restarts>>
     \/ file = "absent" /\ RestartConnector
  /\ UNCHANGED <<diskVars, badDownloads>>

IsOpen == readStream \notin {"none", "consumed"}
IsUsable == parser \in {"unused", "reading"}

\* Piping.  Without a stream, or into a parser that has ended, the loader fails;
\* from a stream that is consumed nothing ever arrives.
Pipe(l) ==
  /\ loaders[l] = "read"
  /\ \/ /\ readStream = "none" \/ (IsOpen /\ ~IsUsable)
        /\ At(l, "node")
        /\ UNCHANGED parser
     \/ /\ IsOpen /\ IsUsable
        /\ parser' = "reading"
        /\ At(l, "piped")
     \/ /\ readStream = "consumed"
        /\ At(l, "piped")
        /\ UNCHANGED parser
  /\ UNCHANGED <<configVars, diskVars, readStream, genesisBlock, attempts, overlapped, restarts,
                 badDownloads>>

\* The stream delivers the file as it was when it was opened, or what has been
\* written over it.  The parser ends: with a block for all who wait; with an error,
\* if the content was partial, or if it was piped twice and its parts came mixed
\* up; or, if it was partial, with nothing.
EndOfFile ==
  LET waiting == {l \in Loader : loaders[l] = "piped"}
      To(step) == [l \in Loader |-> IF l \in waiting THEN step ELSE loaders[l]]
  IN  \E content \in {readStream} \cup ({file} \ {"absent"}) :
        /\ parser = "reading"
        /\ parser' = content
        /\ readStream' = "consumed"
        /\ \/ content # "partial" /\ loaders' = To("format")
           \/ (content = "partial" \/ Cardinality(waiting) > 1) /\ loaders' = To("node")
           \/ content = "partial" /\ UNCHANGED loaders
        /\ UNCHANGED <<configVars, diskVars, genesisBlock, attempts, overlapped, restarts,
                       badDownloads>>

\* formatBlock needs the node's metadata; the first block is kept.
formatGenesisBlock(l) ==
  /\ loaders[l] = "format"
  /\ genesisBlock' = IF isMetadataSet /\ genesisBlock = "none" THEN parser ELSE genesisBlock
  /\ At(l, IF isMetadataSet THEN "file" ELSE "node")
  /\ UNCHANGED <<configVars, diskVars, readStream, parser, attempts, overlapped, restarts,
                 badDownloads>>

\* The fallback; a call that has returned may be made again.
AskNode(l) ==
  /\ loaders[l] = "node"
  /\ At(l, "answered")
  /\ UNCHANGED <<configVars, diskVars, readVars, attempts, overlapped, restarts, badDownloads>>
LoadAgain(l) ==
  /\ loaders[l] \in {"file", "answered"}
  /\ At(l, "idle")
  /\ UNCHANGED <<configVars, diskVars, readVars, attempts, overlapped, restarts, badDownloads>>

\* init sets the metadata, while calls may already come in.
setMetadata ==
  /\ ~isMetadataSet
  /\ isMetadataSet' = TRUE
  /\ UNCHANGED <<hosted, isURLNotFound, isConfigured, diskVars, readVars, loaders, attempts,
                 overlapped, restarts, badDownloads>>

LoaderStep(l) ==
  \/ loadConfig(l) \/ exists(l)
  \/ DownloadStarts(l) \/ DownloadEnds(l) \/ DownloadFails(l) \/ DownloadNotFound(l)
  \/ VerifyDownload(l) \/ extractTarBall(l) \/ ExtractEnds(l)
  \/ createReadStream(l) \/ Pipe(l) \/ formatGenesisBlock(l) \/ AskNode(l)

GenesisNext ==
  \/ \E l \in Loader : getGenesisBlock(l) \/ LoadAgain(l) \/ LoaderStep(l)
  \/ EndOfFile \/ setMetadata \/ Crash
-----------------------------------------------------------------------------
(* Properties                                                               *)

\* A damaged file is never served.  Unpacking protects an archive however loaders
\* share the directory and whenever the service ends; a file that is downloaded as
\* it is, only as long as no two calls overlap, since one may read what the other
\* has not checked, and no restart finds a file that was not checked.
GenesisVerified ==
  genesisBlock = "damaged" => hosted = "json" /\ (restarts > 0 \/ overlapped)

\* A call is answered, from the file or by the node, as long as no two overlap,
\* the metadata is there in time and the service was not interrupted: the
\* parser serves one reading only, and whoever comes later is never answered.
LoneLoadersAnswered ==
  [](/\ Cardinality(pending) <= 1
     /\ \A l \in Loader : loaders[l] = "format" => isMetadataSet
     /\ restarts = 0)
    => \A l \in Loader : (l \in pending) ~> (l \notin pending)
=============================================================================
