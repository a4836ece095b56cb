--------------------------- MODULE BrowserRecordings ---------------------------
(***************************************************************************)
(* Recordings of an attached tab, for one console, one browser and one tab *)
(* of it: what BrowserAttachServer keeps in memory, the one record that    *)
(* the store has per session, and what the extension believes to record.   *)
(* Calls of start and stop come from the tools and from the extension's    *)
(* panel, and overlap with each other, with events, with timers and with   *)
(* the loss of the socket at every await.                                  *)
(***************************************************************************)
EXTENDS Naturals, FiniteSets

CONSTANTS Recordings,     \* calls of startRecording, by the id each would give
          Stops,          \* calls of stopRecording
          MaxCalls,       \* bound on the calls of the two
          MaxBreaks,      \* bound on sockets that break and restarts of the server
          NoRecording

ASSUME RecordingsAssumption ==
  /\ NoRecording \notin Recordings /\ Recordings \cap Stops = {}
  /\ MaxCalls \in Nat /\ MaxBreaks \in Nat

VARIABLES
  starting,      \* how far a start has come
  stop,          \* a stop: how far, the record it read, whether it was active
  status,        \* status of the record in memory, shared by all who hold it
  active,        \* activeRecordingsById
  stored,        \* the store's record of the session
  persisting,    \* pendingRecordingPersist
  appending,     \* recordings with an event that is being written
  ending,        \* recordings that the disconnect handler is stopping
  unwritable,    \* history: recordings whose last line could not be written
  registered,    \* the instance is in socketsByInstanceId
  linked,        \* its socket carries data
  control,       \* pendingRecordingControls: asked, answered
  extActive,     \* the extension's activeRecordingsById
  extTab,        \* the extension's activeRecordingIdByTabId of the tab
  breaks

recordingsVars == <<starting, stop, status, active, stored, persisting, appending, ending,
                    unwritable, registered, linked, control, extActive, extTab,
                    breaks>>
calls == <<starting, stop>>
memory == <<status, active, persisting, appending, ending, unwritable>>
transportOf == <<registered, linked, breaks>>
extension == <<extActive, extTab>>

Controls == Recordings \cup Stops
Begun == {r \in Recordings : starting[r] # "none"} \cup {k \in Stops : stop[k].at # "none"}
NoRecord == [id |-> NoRecording, status |-> "none"]
Record(r, s) == [id |-> r, status |-> s]
Statuses == {"none", "recording", "stopped"}

RecordingsTypeOK ==
  /\ starting \in [Recordings -> {"none", "creating", "announcing", "controlling",
                                  "clearing", "started", "refused", "failed"}]
  /\ stop \in [Stops -> [at : {"none", "controlling", "appending", "finalizing",
                               "done", "failed"},
                         id : Recordings \cup {NoRecording}, seen : Statuses, held : BOOLEAN]]
  /\ status \in [Recordings -> Statuses]
  /\ active \subseteq Recordings
  /\ stored.id \in Recordings => stored.status # "none"
  /\ stored \in [id : Recordings, status : Statuses] \cup {NoRecord}
  /\ persisting \subseteq Recordings /\ appending \subseteq Recordings
  /\ ending \subseteq Recordings /\ unwritable \subseteq Recordings
  /\ registered \in BOOLEAN /\ linked \in BOOLEAN
  /\ control \in [Controls -> {"none", "asked", "ok", "error"}]
  /\ extActive \subseteq Recordings /\ extTab \in Recordings \cup {NoRecording}
  /\ breaks \in 0..MaxBreaks

RecordingsInit ==
  /\ starting = [r \in Recordings |-> "none"]
  /\ stop = [k \in Stops |-> [at |-> "none", id |-> NoRecording, seen |-> "none",
                               held |-> FALSE]]
  /\ status = [r \in Recordings |-> "none"]
  /\ active = {} /\ stored = NoRecord /\ persisting = {} /\ appending = {}
  /\ ending = {} /\ unwritable = {}
  /\ registered = TRUE /\ linked = TRUE
  /\ control = [c \in Controls |-> "none"]
  /\ extActive = {} /\ extTab = NoRecording
  /\ breaks = 0

-----------------------------------------------------------------------------
(* The store and the throttled writes.                                      *)

setBrowserRecording(r) == stored' = Record(r, status'[r])

\* One timer at a time; it writes the record as it is when it fires.
scheduleRecordingPersist(r) == persisting' = persisting \cup {r}
flushRecordingPersist(r) == persisting' = persisting \ {r} /\ setBrowserRecording(r)

\* The timer writes the record as it was when the timer was armed.
persistTimer_oldCopy(r) ==
  /\ r \in persisting
  /\ persisting' = persisting \ {r}
  /\ stored' = Record(r, "recording")
  /\ UNCHANGED <<calls, status, active, appending, ending, unwritable, control, transportOf,
                 extension>>

persistTimer(r) ==
  /\ r \in persisting
  /\ persisting' = persisting \ {r}
  /\ stored' = Record(r, status[r])
  /\ UNCHANGED <<calls, status, active, appending, ending, unwritable, control, transportOf,
                 extension>>

\* A request goes into the instance's socket, which may be dead.
invokeRecordingControl(c) ==
  control' = [control EXCEPT ![c] = IF linked THEN "asked" ELSE "none"]

-----------------------------------------------------------------------------
(* Starting.                                                                *)

\* A record that says "recording" is returned, or refused for another tab.
startRecording(r) ==
  /\ starting[r] = "none" /\ Cardinality(Begun) < MaxCalls
  /\ starting' = [starting EXCEPT ![r] =
                    IF stored.status = "recording" THEN "refused" ELSE "creating"]
  /\ UNCHANGED <<stop, stored, memory, control, transportOf, extension>>

\* The record goes to the store before it has its status.
created_storesFirst(r) ==
  /\ starting[r] = "creating"
  /\ starting' = [starting EXCEPT ![r] = "announcing"]
  /\ active' = active \cup {r}
  /\ status' = [status EXCEPT ![r] = "recording"]
  /\ stored' = Record(r, status[r])
  /\ UNCHANGED <<stop, persisting, appending, ending, unwritable, control, transportOf,
                 extension>>

created(r) ==
  /\ starting[r] = "creating"
  /\ starting' = [starting EXCEPT ![r] = "announcing"]
  /\ active' = active \cup {r}
  /\ status' = [status EXCEPT ![r] = "recording"]
  /\ setBrowserRecording(r)
  /\ UNCHANGED <<stop, persisting, appending, ending, unwritable, control, transportOf,
                 extension>>

createFails(r) ==
  /\ starting[r] = "creating"
  /\ starting' = [starting EXCEPT ![r] = "failed"]
  /\ UNCHANGED <<stop, stored, memory, control, transportOf, extension>>

\* A start that fails leaves its recording in the map.
giveUpStart_keepsActive(r) ==
  /\ starting' = [starting EXCEPT ![r] = "clearing"]
  /\ UNCHANGED active
  /\ persisting' = persisting \ {r}

\* The catch of startRecording; the record in the store goes after an await.
giveUpStart(r) ==
  /\ starting' = [starting EXCEPT ![r] = "clearing"]
  /\ active' = active \ {r}
  /\ persisting' = persisting \ {r}

controlStart(r) ==
  /\ starting[r] = "announcing"
  /\ IF registered
     THEN /\ starting' = [starting EXCEPT ![r] = "controlling"]
          /\ invokeRecordingControl(r)
          /\ UNCHANGED <<active, persisting>>
     ELSE giveUpStart(r) /\ UNCHANGED control
  /\ UNCHANGED <<stop, status, stored, appending, ending, unwritable, transportOf, extension>>

\* The answer, or none in time.
startControlled(r) ==
  /\ starting[r] = "controlling"
  /\ IF control[r] = "ok"
     THEN /\ starting' = [starting EXCEPT ![r] = "started"]
          /\ UNCHANGED <<active, persisting>>
     ELSE giveUpStart(r)
  /\ control' = [control EXCEPT ![r] = "none"]
  /\ UNCHANGED <<stop, status, stored, appending, ending, unwritable, transportOf, extension>>

\* Whichever recording the session's record names by now.
startCleared(r) ==
  /\ starting[r] = "clearing"
  /\ starting' = [starting EXCEPT ![r] = "failed"]
  /\ stored' = NoRecord
  /\ UNCHANGED <<stop, memory, control, transportOf, extension>>

-----------------------------------------------------------------------------
(* Stopping.                                                                *)

\* A recording that is not in memory is left as the store has it.
Settles_heldOnly(k, id, seen, held) ==
  /\ stop' = [stop EXCEPT ![k] = [id |-> id, seen |-> seen, held |-> held,
                                  at |-> IF held THEN "appending" ELSE "done"]]
  /\ status' = IF held THEN [status EXCEPT ![id] = "stopped"] ELSE status

\* What follows the control request, or at once if there is no instance: the
\* record in memory is stopped, or else a copy of the one that was read.
Settles(k, id, seen, held) ==
  /\ stop' = [stop EXCEPT ![k] =
       [id |-> id, seen |-> seen, held |-> held,
        at |-> CASE held -> "appending"
                 [] ~held /\ seen = "recording" -> "finalizing"
                 [] OTHER -> "done"]]
  /\ status' = IF held THEN [status EXCEPT ![id] = "stopped"] ELSE status

stopRecording(k) ==
  /\ stop[k].at = "none" /\ Cardinality(Begun) < MaxCalls
  /\ LET id == stored.id
         held == id \in active IN
     IF stored = NoRecord
     THEN stop' = [stop EXCEPT ![k].at = "done"] /\ UNCHANGED <<status, control>>
     ELSE IF registered
     THEN /\ stop' = [stop EXCEPT ![k] = [at |-> "controlling", id |-> id,
                                          seen |-> stored.status, held |-> held]]
          /\ invokeRecordingControl(k)
          /\ UNCHANGED status
     ELSE Settles(k, id, stored.status, held) /\ UNCHANGED control
  /\ UNCHANGED <<starting, active, stored, persisting, appending, ending, unwritable,
                 transportOf, extension>>

\* An error or a timeout does not keep the stop from going on.
stopControlled(k) ==
  /\ stop[k].at = "controlling"
  /\ Settles(k, stop[k].id, stop[k].seen, stop[k].held)
  /\ control' = [control EXCEPT ![k] = "none"]
  /\ UNCHANGED <<starting, active, stored, persisting, appending, ending, unwritable,
                 transportOf, extension>>

stopAppended(k) ==
  /\ stop[k].at = "appending"
  /\ stop' = [stop EXCEPT ![k].at = "done"]
  /\ active' = active \ {stop[k].id}
  /\ UNCHANGED status
  /\ flushRecordingPersist(stop[k].id)
  /\ UNCHANGED <<starting, appending, ending, unwritable, control, transportOf, extension>>

stopAppendFails(k) ==
  /\ stop[k].at = "appending"
  /\ stop' = [stop EXCEPT ![k].at = "failed"]
  /\ UNCHANGED <<starting, stored, memory, control, transportOf, extension>>

finalizeExisting(k) ==
  /\ stop[k].at = "finalizing"
  /\ stop' = [stop EXCEPT ![k].at = "done"]
  /\ stored' = Record(stop[k].id, "stopped")
  /\ UNCHANGED <<starting, memory, control, transportOf, extension>>

-----------------------------------------------------------------------------
(* Events, and the loss of the instance.                                    *)

\* An event of the page, written over several awaits; then a throttled write.
handleRecordingEvent(r) ==
  /\ linked /\ r \in extActive /\ extTab = r
  /\ r \in active \ appending
  /\ appending' = appending \cup {r}
  /\ UNCHANGED <<calls, stored, status, active, persisting, ending, unwritable, control,
                 transportOf, extension>>

eventAppended(r) ==
  /\ r \in appending
  /\ appending' = appending \ {r}
  /\ scheduleRecordingPersist(r)
  /\ UNCHANGED <<calls, stored, status, active, ending, unwritable, control, transportOf,
                 extension>>

\* The close of the instance's current socket stops all that was active.  Two of
\* them that write the same recording at once are not told apart.
handleInstanceDisconnect ==
  /\ registered /\ ~linked
  /\ registered' = FALSE
  /\ ending' = ending \cup active
  /\ status' = [r \in Recordings |-> IF r \in active THEN "stopped" ELSE status[r]]
  /\ UNCHANGED <<calls, stored, active, persisting, appending, unwritable, control,
                 linked, breaks, extension>>

disconnectAppended(r) ==
  /\ r \in ending
  /\ ending' = ending \ {r} /\ active' = active \ {r}
  /\ UNCHANGED status
  /\ flushRecordingPersist(r)
  /\ UNCHANGED <<calls, appending, unwritable, control, transportOf, extension>>

\* The rejection is logged; the recording stays in the map.
disconnectFails(r) ==
  /\ r \in ending
  /\ ending' = ending \ {r}
  /\ unwritable' = unwritable \cup {r}
  /\ UNCHANGED <<calls, stored, status, active, persisting, appending, control, transportOf,
                 extension>>

-----------------------------------------------------------------------------
(* The extension and its socket.                                            *)

\* Another tab is selected, or it is gone: an error, or a throw and no answer.
\* A throw after the maps are set leaves the recording there.
extStartRecording(r) ==
  /\ control[r] = "asked"
  /\ \E kept \in BOOLEAN, answer \in {"ok", "error", "none"} :
       /\ answer = "ok" => kept
       /\ answer = "error" => ~kept
       /\ control' = [control EXCEPT ![r] = answer]
       /\ extActive' = IF kept THEN extActive \cup {r} ELSE extActive
       /\ extTab' = IF kept THEN r ELSE extTab
  /\ UNCHANGED <<calls, stored, memory, transportOf>>

\* The tab's entry goes, whichever recording it names.
extStopRecording(k) ==
  /\ control[k] = "asked"
  /\ control' = [control EXCEPT ![k] = "ok"]
  /\ extActive' = extActive \ {stop[k].id}
  /\ extTab' = NoRecording
  /\ UNCHANGED <<calls, stored, memory, transportOf>>

\* The network, or the whole worker with all it knew.
socketBreaks ==
  /\ linked /\ breaks < MaxBreaks
  /\ breaks' = breaks + 1
  /\ linked' = FALSE
  /\ control' = [c \in Controls |-> "none"]
  /\ \/ extActive' = {} /\ extTab' = NoRecording
     \/ UNCHANGED extension
  /\ UNCHANGED <<calls, stored, memory, registered>>

\* A hello before the old socket's close replaces it, and nothing is stopped.
handleHello ==
  /\ ~linked
  /\ linked' = TRUE /\ registered' = TRUE
  /\ UNCHANGED <<calls, stored, memory, control, breaks, extension>>

serverDies ==
  /\ breaks < MaxBreaks
  /\ breaks' = breaks + 1
  /\ starting' = [r \in Recordings |-> IF starting[r] \in {"none", "started", "refused"}
                                       THEN starting[r] ELSE "failed"]
  /\ stop' = [k \in Stops |-> IF stop[k].at \in {"none", "done"} THEN stop[k]
                              ELSE [stop[k] EXCEPT !.at = "failed"]]
  /\ active' = {} /\ persisting' = {} /\ appending' = {} /\ ending' = {}
  /\ registered' = FALSE /\ linked' = FALSE
  /\ control' = [c \in Controls |-> "none"]
  /\ UNCHANGED <<status, stored, unwritable, extension>>

-----------------------------------------------------------------------------
RecordingsNext ==
  \/ \E r \in Recordings :
       \/ startRecording(r) \/ created(r) \/ createFails(r) \/ controlStart(r)
       \/ startControlled(r) \/ startCleared(r) \/ persistTimer(r)
       \/ handleRecordingEvent(r) \/ eventAppended(r) \/ disconnectAppended(r)
       \/ disconnectFails(r) \/ extStartRecording(r)
  \/ \E k \in Stops :
       \/ stopRecording(k) \/ stopControlled(k) \/ stopAppended(k) \/ stopAppendFails(k)
       \/ finalizeExisting(k) \/ extStopRecording(k)
  \/ handleInstanceDisconnect \/ socketBreaks \/ handleHello \/ serverDies

RecordingsSpec == RecordingsInit /\ [][RecordingsNext]_recordingsVars

-----------------------------------------------------------------------------
(***************************************************************************)
(* Properties.                                                             *)
(***************************************************************************)

\* Excepted below: an event that was being written when the start failed arms
\* the timer of a throttled write after cancelRecordingPersist has run.
StartFailed(r) == starting[r] \in {"clearing", "failed"}

\* Once the store has a recording as stopped it never has it as running again,
\* though a throttled write, an overlapping stop, the disconnect handler and a
\* start that resumes may all still write it (browserAttachServer.ts:799, 818).
StoppedStaysStopped ==
  [][\A r \in Recordings : stored = Record(r, "stopped") /\ ~StartFailed(r) =>
       stored' # Record(r, "recording")]_recordingsVars

\* A recording is active only while its browser is there, or the handler of
\* the disconnect or of the start that made it will still take it out, unless
\* its bundle could not be written (browserAttachServer.ts:846).
ActiveHasInstance ==
  \A r \in active :
    registered \/ r \in ending \cup unwritable \/ starting[r] \in {"announcing", "controlling"}

\* A stop that returns has ended the recording it found, also over a restart,
\* a failed control request or an overlapping disconnect: it is not active and
\* the store does not call it running (browserAttachServer.ts:363).
StopEndsRecording ==
  [][\A k \in Stops : stop[k].at # "done" /\ stop'[k].at = "done" =>
       LET r == stop'[k].id IN
         r \in Recordings /\ ~StartFailed(r) =>
           r \notin active' /\ stored' # Record(r, "recording")]_recordingsVars
=============================================================================
