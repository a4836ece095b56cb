------------------------------- MODULE FileLinks -------------------------------
(***************************************************************************)
(* Workspace files handed to an agent by the gateway's MCP: GetFileService *)
(* makes an upload ticket, has the console's client PUT the file, and      *)
(* answers with a temporary link, the bytes of an image, or the bytes of   *)
(* what an earlier call left in the cache.  All calls here are for one     *)
(* file, so that they share one cache key of TemporaryFileLinkStore; a     *)
(* call's ticket, record, upload and file go by the name of the call.      *)
(***************************************************************************)
EXTENDS Naturals, FiniteSets

CONSTANTS Gets, Downloads,      \* calls of get; requests for a link
          MaxDownloads,         \* FILE_LINK_MAX_DOWNLOADS (3)
          MaxLinkRestarts,      \* bound on the gateway's restarts
          NoGet

ASSUME FileLinksAssumption ==
  /\ NoGet \notin Gets /\ IsFiniteSet(Downloads)
  /\ MaxDownloads \in Nat /\ MaxLinkRestarts \in Nat

VARIABLES
  call,          \* [kind, state, source]: source is the record whose bytes it reads
  listed,        \* records in the maps by token
  cacheKey,      \* recordsByCacheKey of the file
  ready,         \* records with status "ready"
  expired,       \* records whose time is over
  upload,        \* the PUT of a ticket
  partialPath,   \* files on disk: being uploaded, and
  filePath,      \* uploaded
  removing,      \* records of which deleteRecord is removing the files
  downloadCount, \* of a record
  download,      \* [of, state]
  linkRestarts

records == <<listed, cacheKey, removing>>
disk == <<partialPath, filePath>>
fileLinksVars == <<call, records, ready, expired, upload, disk, downloadCount, download,
                   linkRestarts>>

\* A record counts the downloads that are under way or came to their end, and
\* no more than the limit: the count is what admits the next one.
FileLinksTypeOK ==
  /\ call \in [Gets -> [kind : {"url", "image", "base64"}, source : Gets \cup {NoGet},
                        state : {"none", "invoked", "reading", "returned", "failing",
                                 "failed", "lost"}]]
  /\ cacheKey \in Gets \cup {NoGet}
  /\ {listed, ready, expired, partialPath, filePath, removing} \subseteq SUBSET Gets
  /\ upload \in [Gets -> {"none", "accepted", "streaming", "renamed", "stored", "failed"}]
  /\ download \in [Downloads -> [of : Gets \cup {NoGet},
                                 state : {"none", "streaming", "done", "failed"}]]
  /\ downloadCount \in [Gets -> 0..MaxDownloads]
  /\ \A g \in Gets : downloadCount[g] =
       Cardinality({d \in Downloads : download[d].of = g /\ download[d].state # "failed"})
  /\ linkRestarts \in 0..MaxLinkRestarts

FileLinksInit ==
  /\ call \in [Gets -> [kind : {"url", "image", "base64"}, source : {NoGet}, state : {"none"}]]
  /\ cacheKey = NoGet
  /\ listed = {} /\ ready = {} /\ expired = {} /\ removing = {}
  /\ partialPath = {} /\ filePath = {}
  /\ upload = [g \in Gets |-> "none"]
  /\ downloadCount = [g \in Gets |-> 0]
  /\ download = [d \in Downloads |-> [of |-> NoGet, state |-> "none"]]
  /\ linkRestarts = 0

Becoming(g, state) == call' = [call EXCEPT ![g].state = state]
Putting(g, state) == upload' = [upload EXCEPT ![g] = state]

\* getReadyLink and readCachedBase64 both want such a record.
Usable(g) == g \in ready \ expired
Hit == cacheKey # NoGet /\ Usable(cacheKey)

-----------------------------------------------------------------------------
(***************************************************************************)
(* The store's records.                                                    *)
(***************************************************************************)

\* deleteRecord, up to the removal of the files.
deleteRecord_byKey(g) ==
  /\ listed' = listed \ {g}
  /\ cacheKey' = NoGet
  /\ removing' = removing \cup ({g, cacheKey} \ {NoGet})

deleteRecord(g) ==
  /\ listed' = listed \ {g}
  /\ cacheKey' = IF cacheKey = g THEN NoGet ELSE cacheKey
  /\ removing' = removing \cup {g}

\* Its two removals.
filesRemoved(g) ==
  /\ g \in removing
  /\ removing' = removing \ {g}
  /\ partialPath' = partialPath \ {g} /\ filePath' = filePath \ {g}
  /\ UNCHANGED <<call, listed, cacheKey, ready, expired, upload, downloadCount, download,
                 linkRestarts>>

\* Ten minutes pass; the cleanup comes by within the next.
expire(g) ==
  /\ g \in listed \ expired
  /\ expired' = expired \cup {g}
  /\ UNCHANGED <<call, records, ready, upload, disk, downloadCount, download, linkRestarts>>

cleanupExpired(g) ==
  /\ g \in listed \cap expired
  /\ deleteRecord(g)
  /\ UNCHANGED <<call, ready, expired, upload, disk, downloadCount, download, linkRestarts>>

\* The gateway goes down and comes back: start empties the directory.
linkStoreRestart ==
  /\ linkRestarts < MaxLinkRestarts
  /\ linkRestarts' = linkRestarts + 1
  /\ listed' = {} /\ cacheKey' = NoGet /\ removing' = {}
  /\ partialPath' = {} /\ filePath' = {}
  /\ call' = [g \in Gets |-> IF call[g].state = "none" THEN call[g]
                             ELSE [call[g] EXCEPT !.state = "lost", !.source = NoGet]]
  /\ upload' = [g \in Gets |-> IF call[g].state = "none" THEN "none" ELSE "failed"]
  /\ ready' = {} /\ expired' = {}
  /\ downloadCount' = [g \in Gets |-> 0]
  /\ download' = [d \in Downloads |-> IF download[d].state = "none" THEN download[d]
                                      ELSE [of |-> NoGet, state |-> "failed"]]

-----------------------------------------------------------------------------
(***************************************************************************)
(* The calls.                                                              *)
(***************************************************************************)

others == <<ready, expired, upload, disk, downloadCount, download, linkRestarts>>

\* get: a link or an image wants a ticket of its own; base64 looks in the cache
\* first and asks the client for the bytes otherwise, past the store.
createTicket(g) ==
  /\ call[g].state = "none" /\ call[g].kind # "base64"
  /\ Becoming(g, "invoked")
  /\ listed' = listed \cup {g} /\ cacheKey' = g
  /\ UNCHANGED <<removing, others>>

getBase64(g) ==
  /\ call[g].state = "none" /\ call[g].kind = "base64"
  /\ call' = [call EXCEPT ![g].state = IF Hit THEN "reading" ELSE "returned",
                          ![g].source = IF Hit THEN cacheKey ELSE NoGet]
  /\ UNCHANGED <<records, others>>

\* The client's action has answered that the file is uploaded: a link is
\* returned, an image is read through the cache key.
uploadAnswered(g) ==
  /\ call[g].state = "invoked" /\ upload[g] = "stored"
  /\ call' = [call EXCEPT ![g].state = IF g \notin listed \/ ~Usable(g) THEN "failing"
                                       ELSE IF call[g].kind = "url" THEN "returned"
                                       ELSE IF Hit THEN "reading" ELSE "failing",
                          ![g].source = IF call[g].kind = "image" /\ Hit
                                        THEN cacheKey ELSE NoGet]
  /\ UNCHANGED <<records, others>>

\* The action fails, is not answered in time, or finds no client.
uploadNotAnswered(g) ==
  /\ call[g].state = "invoked"
  /\ Becoming(g, "failing")
  /\ UNCHANGED <<records, others>>

\* readFile, and the check of what was read.
contentRead(g, accepted) ==
  /\ call[g].state = "reading"
  /\ call' = [call EXCEPT ![g].source = NoGet,
                          ![g].state = IF call[g].source \in filePath /\ accepted THEN "returned"
                                       ELSE IF call[g].kind = "image" THEN "failing"
                                       ELSE "failed"]
  /\ UNCHANGED <<records, others>>

\* get's catch takes the ticket back.
discard_byKey(g) ==
  /\ call[g].state = "failing"
  /\ Becoming(g, "failed")
  /\ deleteRecord_byKey(g)
  /\ UNCHANGED others

discard(g) ==
  /\ call[g].state = "failing"
  /\ Becoming(g, "failed")
  /\ IF g \in listed THEN deleteRecord(g) ELSE UNCHANGED records
  /\ UNCHANGED others

-----------------------------------------------------------------------------
(***************************************************************************)
(* The client's upload: it goes on whatever becomes of the call.           *)
(***************************************************************************)

handleUpload(g) ==
  /\ call[g].state # "none" /\ call[g].kind # "base64" /\ upload[g] = "none"
  /\ Putting(g, IF g \in listed \ (expired \cup ready) THEN "accepted" ELSE "failed")
  /\ UNCHANGED <<call, records, ready, expired, disk, downloadCount, download, linkRestarts>>

\* The write stream creates the file.
partialOpened(g) ==
  /\ upload[g] = "accepted"
  /\ Putting(g, "streaming")
  /\ partialPath' = partialPath \cup {g}
  /\ UNCHANGED <<call, records, ready, expired, filePath, downloadCount, download, linkRestarts>>

\* All of it has come: it is renamed, if deleteRecord has left it there.
renamed(g) ==
  /\ upload[g] = "streaming"
  /\ IF g \in partialPath
     THEN /\ Putting(g, "renamed")
          /\ partialPath' = partialPath \ {g} /\ filePath' = filePath \cup {g}
     ELSE Putting(g, "failed") /\ UNCHANGED disk
  /\ UNCHANGED <<call, records, ready, expired, downloadCount, download, linkRestarts>>

\* The transfer breaks, is too long, or is not as long as declared.
uploadFails(g) ==
  /\ upload[g] = "streaming"
  /\ Putting(g, "failed")
  /\ partialPath' = partialPath \ {g}
  /\ UNCHANGED <<call, records, ready, expired, filePath, downloadCount, download, linkRestarts>>

\* handleUpload resumes, and makes the record ready.
uploadStored(g) ==
  /\ upload[g] = "renamed"
  /\ Putting(g, "stored")
  /\ ready' = ready \cup {g}
  /\ UNCHANGED <<call, records, expired, disk, downloadCount, download, linkRestarts>>

-----------------------------------------------------------------------------
(***************************************************************************)
(* Downloads.                                                              *)
(***************************************************************************)

handleDownload_countsLater(d, g) ==
  /\ download[d].state = "none" /\ call[g].state = "returned"
  /\ g \in listed /\ Usable(g) /\ downloadCount[g] < MaxDownloads
  /\ download' = [download EXCEPT ![d] = [of |-> g, state |-> "streaming"]]
  /\ UNCHANGED <<call, records, ready, expired, upload, disk, downloadCount, linkRestarts>>

handleDownload(d, g) ==
  /\ download[d].state = "none" /\ call[g].state = "returned"
  /\ g \in listed /\ Usable(g) /\ downloadCount[g] < MaxDownloads
  /\ download' = [download EXCEPT ![d] = [of |-> g, state |-> "streaming"]]
  /\ downloadCount' = [downloadCount EXCEPT ![g] = @ + 1]
  /\ UNCHANGED <<call, records, ready, expired, upload, disk, linkRestarts>>

downloaded(d) ==
  /\ download[d].state = "streaming"
  /\ download' = [download EXCEPT ![d].state = "done"]
  /\ UNCHANGED <<call, records, ready, expired, upload, disk, downloadCount, linkRestarts>>

downloadFails(d) ==
  /\ download[d].state = "streaming"
  /\ download' = [download EXCEPT ![d].state = "failed"]
  /\ downloadCount' = [downloadCount EXCEPT ![download[d].of] = @ - 1]
  /\ UNCHANGED <<call, records, ready, expired, upload, disk, linkRestarts>>

-----------------------------------------------------------------------------
FileLinksNext ==
  \/ \E g \in Gets :
       \/ createTicket(g) \/ getBase64(g) \/ uploadAnswered(g) \/ uploadNotAnswered(g)
       \/ (\E accepted \in BOOLEAN : contentRead(g, accepted)) \/ discard(g)
       \/ handleUpload(g) \/ partialOpened(g) \/ renamed(g) \/ uploadFails(g) \/ uploadStored(g)
       \/ expire(g) \/ cleanupExpired(g) \/ filesRemoved(g)
       \/ \E d \in Downloads : handleDownload(d, g)
  \/ \E d \in Downloads : downloaded(d) \/ downloadFails(d)
  \/ linkStoreRestart

FileLinksSpec == FileLinksInit /\ [][FileLinksNext]_fileLinksVars

\* A link that an agent was given serves its file until its time is over,
\* whatever other calls for the same file do meanwhile: fail and discard,
\* replace the cached record, expire.
LinkServesFile ==
  \A g \in Gets : call[g].state = "returned" /\ call[g].kind # "base64" /\ g \notin expired =>
    g \in listed /\ Usable(g) /\ g \in filePath /\ g \notin removing
=============================================================================
