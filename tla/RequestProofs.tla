---------------------------- MODULE RequestProofs ----------------------------
(***************************************************************************)
(* The safety invariants of what a request goes through: its search        *)
(* (ProviderSearch), its playback (Playback), and the move of what it has  *)
(* downloaded (CompletedMove); for any providers, links, hashes, qualities *)
(* and seeds, any number of ticks in flight and any capacity of            *)
(* t.bufferFinished, and any torrents, files, folders and names.  The      *)
(* three specifications have no variable in common, and a theorem is about *)
(* one of them.                                                            *)
(***************************************************************************)
EXTENDS ProviderSearch, Playback, CompletedMove, TLAPS

(***************************************************************************)
(*                                 Playback                                *)
(*                                                                         *)
(* What orders the goroutines is the broadcaster: its promise              *)
(* (BroadcastLog) makes a listener act on the first event broadcast after  *)
(* it subscribed.  So the invariant says what stands in the log, relative  *)
(* to the position from which the handler listens.                         *)
(***************************************************************************)

\* Buffer has subscribed.
Began == handler \notin {"start", "spawned"}

\* The log holds a failure the handler is told of, or it holds a success.
Heard == \E j \in 1 .. Len(log) : j > from["handler"] /\ log[j] = "err"
Ok    == \E j \in 1 .. Len(log) : log[j] = "ok"

\* The first event the handler is told of is a success.
OkNext == from["handler"] < Len(log) /\ log[from["handler"] + 1] = "ok"

\* Nothing stands against a success: the pieces are there, or the user has
\* removed the torrent, or the handler hears of a failure.
Sound == have \/ removed \/ Heard

\* The types of the log and of the counters.
Logged ==
  /\ Events!TypeOK
  /\ \A r \in Listeners : from[r] <= Len(log)

Counted == ticks \in Nat /\ finishes \in Nat /\ finishing \in Nat

\* Before the handler listens nothing has been played or buffered.
Early ==
  ~Began => /\ loop = "none" /\ dialog = "none" /\ ~Ok /\ ~closed
            /\ ticks = 0 /\ finishes = 0 /\ finishing = 0
            /\ dropped => removed

\* The goroutines start one another; the loop acts on what the log holds.
LoopOrder ==
  /\ dialog # "none" => loop \notin {"none", "start"}
  /\ loop # "none" => handler \notin {"start", "spawned", "listening"}
  /\ loop \notin {"none", "start"} => from["handler"] <= from["loop"]
  /\ loop \in {"none", "start", "wait"} => got["loop"] = <<>>
  /\ loop \in {"playwait", "play"} => Ok
  /\ Ok => dialog = "done"
  /\ played => Ok /\ ~background

\* What the handler has been told when it has left its wait.
HandlerTold ==
  /\ handler \in {"start", "spawned", "listening", "wait"} => got["handler"] = <<>>
  /\ handler \in {"close", "body", "remove", "done"} /\ ~background =>
       got["handler"] = <<"err">> /\ Heard
  /\ handler = "redirect" => got["handler"] = <<"ok">> /\ chosen /\ (have \/ removed)

\* A file is chosen, then downloaded, and then its first pieces are buffered.
FilesOrder ==
  /\ files => chosen
  /\ meta \in {"files", "buffer"} => chosen
  /\ meta = "buffer" => files
  /\ pieces => files

\* Who may say that the buffer is complete, and when.
Buffered ==
  ~background =>
    /\ Ok => files /\ Sound
    /\ Began /\ dialog # "done" /\ ~buffering => files /\ Sound
    /\ OkNext /\ Began => have \/ removed
    /\ Began /\ dropped => Sound
    /\ loop \notin {"none", "start", "wait"} => Sound
    /\ ticks > 0 \/ finishes > 0 \/ finishing > 0 => have /\ files

\* Who has closed the player, and what becomes of the torrent then.
Closing ==
  /\ closed <=> handler \in {"remove", "done"} \/ loop \in {"remove", "done"}
  /\ closed /\ ~files /\ ~background => handler = "remove" \/ loop = "remove" \/ dropped
  /\ dropped => removed \/ handler = "done" \/ loop = "done"

PlayInv ==
  /\ Logged /\ Counted
  /\ Early /\ LoopOrder /\ HandlerTold /\ FilesOrder /\ Buffered /\ Closing

----------------------------------------------------------------------------
(* The log *)

\* A write is heard by everyone, and says nothing else.
LEMMA Writes ==
  ASSUME Logged, NEW v \in {"ok", "err"}, Events!Write(v)
  PROVE  /\ Logged'
         /\ from' = from /\ got' = got
         /\ Heard => Heard'
         /\ v = "err" => Heard' /\ (Ok' <=> Ok) /\ (OkNext' <=> OkNext)
         /\ v = "ok" => Ok' /\ (OkNext' => OkNext \/ ~Heard)
<1>1. /\ log \in Seq({"ok", "err"}) /\ from' = from /\ got' = got
      /\ from["handler"] \in Nat /\ from["handler"] <= Len(log)
  BY DEF Logged, Events!TypeOK, Events!Write, Listeners
<1>2. /\ log' \in Seq({"ok", "err"})
      /\ Len(log') = Len(log) + 1 /\ log'[Len(log) + 1] = v
      /\ \A j \in 1 .. Len(log) : log'[j] = log[j]
  BY <1>1 DEF Events!Write
<1>3. Logged'
  BY <1>1, <1>2 DEF Logged, Events!TypeOK, Events!Write, Listeners
<1>4. Heard => Heard'
  BY <1>1, <1>2 DEF Heard
<1>5. v = "err" => Heard'
  BY <1>1, <1>2 DEF Heard
<1>6. v = "err" => (Ok' <=> Ok)
  BY <1>1, <1>2 DEF Ok
<1>7. v = "err" => (OkNext' <=> OkNext)
  BY <1>1, <1>2 DEF OkNext
<1>8. v = "ok" => Ok'
  BY <1>1, <1>2 DEF Ok
<1>9. v = "ok" => (OkNext' => OkNext \/ ~Heard)
  BY <1>1, <1>2 DEF OkNext, Heard
<1> QED
  BY <1>1, <1>3, <1>4, <1>5, <1>6, <1>7, <1>8, <1>9

\* A listener hears nothing of what was written before it subscribed.
LEMMA Subscribes ==
  ASSUME Logged, NEW r \in Listeners, Events!Subscribe(r)
  PROVE  /\ Logged'
         /\ got' = got /\ (Ok' <=> Ok)
         /\ from'[r] = Len(log)
         /\ r = "handler" => ~OkNext'
         /\ r = "loop" => from'["handler"] = from["handler"] /\ (Heard' <=> Heard)
                          /\ (OkNext' <=> OkNext) /\ from'["handler"] <= from'["loop"]
<1>1. /\ log' = log /\ got' = got
      /\ from \in [Listeners -> Nat] /\ log \in Seq({"ok", "err"})
      /\ from' = [from EXCEPT ![r] = Len(log)]
  BY DEF Logged, Events!TypeOK, Events!Subscribe
<1>2. /\ from'[r] = Len(log)
      /\ from' \in [Listeners -> Nat]
      /\ \A q \in Listeners : from'[q] <= Len(log)
  BY <1>1 DEF Logged
<1>3. Logged'
  BY <1>1, <1>2 DEF Logged, Events!TypeOK, Events!Subscribe
<1>4. r = "handler" => ~OkNext'
  BY <1>1, <1>2 DEF OkNext
<1>5. ASSUME r = "loop"
      PROVE  /\ from'["handler"] = from["handler"] /\ (Heard' <=> Heard)
             /\ (OkNext' <=> OkNext) /\ from'["handler"] <= from'["loop"]
  BY <1>1, <1>2, <1>5 DEF Heard, OkNext, Listeners
<1>6. Ok' <=> Ok
  BY <1>1 DEF Ok
<1> QED
  BY <1>1, <1>2, <1>3, <1>4, <1>5, <1>6

\* The first thing a listener is told is what follows its subscription.
LEMMA Consumes ==
  ASSUME Logged, NEW r \in Listeners, Events!Consume(r), got[r] = <<>>
  PROVE  /\ Logged'
         /\ from' = from /\ (Heard' <=> Heard) /\ (Ok' <=> Ok) /\ (OkNext' <=> OkNext)
         /\ \A q \in Listeners \ {r} : got'[q] = got[q]
         /\ got'[r] = <<"ok">> \/ got'[r] = <<"err">>
         /\ got'[r] = <<"ok">> => Ok /\ (r = "handler" => OkNext)
         /\ got'[r] = <<"err">> /\ from["handler"] <= from[r] => Heard
<1>1. /\ log' = log /\ from' = from
      /\ from \in [Listeners -> Nat] /\ log \in Seq({"ok", "err"})
      /\ from[r] < Len(log)
      /\ got \in [Listeners -> Seq({"ok", "err"})]
      /\ got' = [got EXCEPT ![r] = <<log[from[r] + 1]>>]
  <2>1. /\ log' = log /\ from' = from
        /\ from \in [Listeners -> Nat] /\ log \in Seq({"ok", "err"})
        /\ got \in [Listeners -> Seq({"ok", "err"})]
        /\ from[r] + Len(got[r]) < Len(log)
        /\ got' = [got EXCEPT ![r] = Append(got[r], log[from[r] + Len(got[r]) + 1])]
    BY DEF Logged, Events!TypeOK, Events!Consume
  <2>2. Len(got[r]) = 0 /\ Append(got[r], log[from[r] + 1]) = <<log[from[r] + 1]>>
    OBVIOUS
  <2>3. from[r] + Len(got[r]) = from[r]
    BY <2>1, <2>2
  <2> QED
    BY <2>1, <2>2, <2>3
<1>2. log[from[r] + 1] \in {"ok", "err"} /\ from[r] + 1 \in 1 .. Len(log)
  BY <1>1
<1>3. /\ got'[r] = <<log[from[r] + 1]>>
      /\ \A q \in Listeners \ {r} : got'[q] = got[q]
  BY <1>1
<1>4. got' \in [Listeners -> Seq({"ok", "err"})]
  BY <1>1, <1>2
<1>5. Logged'
  BY <1>1, <1>4 DEF Logged, Events!TypeOK, Events!Consume
<1>6. (Heard' <=> Heard) /\ (Ok' <=> Ok) /\ (OkNext' <=> OkNext)
  BY <1>1 DEF Heard, Ok, OkNext
<1>7. got'[r] = <<"ok">> => Ok /\ (r = "handler" => OkNext)
  BY <1>1, <1>2, <1>3 DEF Ok, OkNext
<1>8. got'[r] = <<"err">> /\ from["handler"] <= from[r] => Heard
  <2> SUFFICES ASSUME got'[r] = <<"err">>, from["handler"] <= from[r] PROVE Heard
    OBVIOUS
  <2>1. log[from[r] + 1] = "err"
    BY <1>3
  <2>2. from["handler"] \in Nat
    BY <1>1 DEF Listeners
  <2>3. from[r] + 1 > from["handler"]
    BY <1>1, <2>2
  <2> QED
    BY <1>2, <2>1, <2>3 DEF Heard
<1> QED
  BY <1>1, <1>2, <1>3, <1>5, <1>6, <1>7, <1>8

LEMMA SilentLog ==
  ASSUME Logged, UNCHANGED events
  PROVE  Logged' /\ from' = from /\ got' = got /\ (Heard' <=> Heard) /\ (Ok' <=> Ok)
         /\ (OkNext' <=> OkNext)
BY DEF events, Logged, Events!TypeOK, Heard, Ok, OkNext

----------------------------------------------------------------------------
(* The invariant *)

LEMMA PlayInit == Init => PlayInv
<1> SUFFICES ASSUME Init PROVE PlayInv
  OBVIOUS
<1>1. log = <<>> /\ Len(log) = 0 /\ ~Ok
  BY DEF Init, Events!Init, Ok
<1>2. Logged
  BY <1>1 DEF Init, Events!Init, Logged, Events!TypeOK
<1> QED
  BY <1>1, <1>2 DEF Init, Events!Init, PlayInv, Counted, Early, LoopOrder, HandlerTold,
                    FilesOrder, Buffered, Closing, Began, Listeners

\* Buffer and Play, up to the redirect.
LEMMA HandlerStep ==
  ASSUME PlayInv,
         BufferSpawn \/ BufferListen \/ BufferRun \/ BufferReturn
  PROVE  PlayInv'
<1> USE DEF PlayInv, Counted, Early, LoopOrder, HandlerTold, FilesOrder, Buffered, Closing,
            Began, Sound, player, history, torrent
<1>0. Logged /\ "handler" \in Listeners /\ "loop" \in Listeners
  BY DEF Listeners
<1>1. CASE BufferSpawn
  BY <1>1, <1>0, SilentLog DEF BufferSpawn, events
<1>2. CASE BufferListen
  BY <1>2, <1>0, Writes, Subscribes, Consumes, SilentLog DEF BufferListen
<1>3. CASE BufferRun
  BY <1>3, <1>0, SilentLog DEF BufferRun, events
<1>4. CASE BufferReturn
  <2>1. Events!Consume("handler") /\ got["handler"] = <<>>
    BY <1>4 DEF BufferReturn
  <2>2. /\ Logged'
        /\ from' = from /\ (Heard' <=> Heard) /\ (Ok' <=> Ok) /\ (OkNext' <=> OkNext)
        /\ got'["loop"] = got["loop"]
        /\ got'["handler"] = <<"ok">> => Ok /\ OkNext
        /\ got'["handler"] = <<"ok">> \/ (got'["handler"] = <<"err">> /\ Heard)
    <3>1. from["handler"] <= from["handler"]
      BY <1>0 DEF Logged, Events!TypeOK
    <3> QED
      BY <1>0, <2>1, <3>1, Consumes
  <2>3. <<"ok">> # <<"err">>
    OBVIOUS
  <2>4. CASE handler' = "redirect"
    BY <1>4, <2>2, <2>3, <2>4 DEF BufferReturn
  <2>5. CASE handler' = "close"
    BY <1>4, <2>2, <2>3, <2>5 DEF BufferReturn
  <2> QED
    BY <1>4, <2>4, <2>5 DEF BufferReturn
<1> QED
  BY <1>1, <1>2, <1>3, <1>4

\* The handler closes its player.
LEMMA HandlerCloses ==
  ASSUME PlayInv,
         HandlerClose
  PROVE  PlayInv'
<1> USE DEF PlayInv, Counted, Early, LoopOrder, HandlerTold, FilesOrder, Buffered, Closing,
            Began, Sound, player, history, torrent
<1>0. Logged /\ "handler" \in Listeners /\ "loop" \in Listeners
  BY DEF Listeners
<1>1. CASE HandlerClose
  <2>1. Logged' /\ from' = from /\ got' = got /\ (Heard' <=> Heard) /\ (Ok' <=> Ok)
        /\ (OkNext' <=> OkNext)
    BY <1>0, <1>1, SilentLog DEF HandlerClose, events
  <2>2. CASE handler = "close"
    BY <1>1, <2>1, <2>2 DEF HandlerClose, CloseTest
  <2>3. CASE handler = "body"
    BY <1>1, <2>1, <2>3 DEF HandlerClose, CloseBody, AfterBody
  <2>4. CASE handler = "remove"
    <3>1. dropped' = TRUE \/ (files /\ dropped' = dropped)
      BY <1>1, <2>4 DEF HandlerClose, Remove
    <3>2. CASE dropped' = TRUE
      BY <1>1, <2>1, <2>4, <3>2 DEF HandlerClose, Remove
    <3>3. CASE files /\ dropped' = dropped
      BY <1>1, <2>1, <2>4, <3>3 DEF HandlerClose, Remove
    <3> QED
      BY <3>1, <3>2, <3>3
  <2> QED
    BY <1>1, <2>2, <2>3, <2>4 DEF HandlerClose
<1> QED
  BY <1>1

\* processMetadata, and the look at the free space.
LEMMA MetadataStep ==
  ASSUME PlayInv,
         ChooseFail \/ ChooseFile \/ DownloadFile \/ Buffer \/ SpaceCheck
  PROVE  PlayInv'
<1> USE DEF PlayInv, Counted, Early, LoopOrder, HandlerTold, FilesOrder, Buffered, Closing,
            Began, Sound, player, history, torrent
<1>0. Logged /\ "handler" \in Listeners /\ "loop" \in Listeners
  BY DEF Listeners
<1>1. CASE ChooseFail
  BY <1>1, <1>0, Writes, Subscribes, Consumes, SilentLog DEF ChooseFail
<1>2. CASE ChooseFile
  BY <1>2, <1>0, SilentLog DEF ChooseFile, events
<1>3. CASE DownloadFile
  BY <1>3, <1>0, SilentLog DEF DownloadFile, events
<1>4. CASE Buffer
  BY <1>4, <1>0, SilentLog DEF Buffer, BufferFinished, events
<1>5. CASE SpaceCheck
  BY <1>5, <1>0, Writes, Subscribes, Consumes, SilentLog DEF SpaceCheck
<1> QED
  BY <1>1, <1>2, <1>3, <1>4, <1>5

\* playerLoop
LEMMA LoopStep ==
  ASSUME PlayInv,
         LoopListen \/ LoopBuffered \/ PlaybackStarts \/ PlaybackTimeout \/ PlaybackStops \/ LoopClose
  PROVE  PlayInv'
<1> USE DEF PlayInv, Counted, Early, LoopOrder, HandlerTold, FilesOrder, Buffered, Closing,
            Began, Sound, player, history, torrent
<1>0. Logged /\ "handler" \in Listeners /\ "loop" \in Listeners
  BY DEF Listeners
<1>1. CASE LoopListen
  BY <1>1, <1>0, Writes, Subscribes, Consumes, SilentLog DEF LoopListen
<1>2. CASE LoopBuffered
  BY <1>2, <1>0, Writes, Subscribes, Consumes, SilentLog DEF LoopBuffered
<1>3. CASE PlaybackStarts
  BY <1>3, <1>0, SilentLog DEF PlaybackStarts, events
<1>4. CASE PlaybackTimeout
  BY <1>4, <1>0, Writes, Subscribes, Consumes, SilentLog DEF PlaybackTimeout
<1>5. CASE PlaybackStops
  BY <1>5, <1>0, SilentLog DEF PlaybackStops, events
<1>6. CASE LoopClose
  <2>1. Logged' /\ from' = from /\ got' = got /\ (Heard' <=> Heard) /\ (Ok' <=> Ok)
        /\ (OkNext' <=> OkNext)
    BY <1>0, <1>6, SilentLog DEF LoopClose, events
  <2>2. CASE loop = "close"
    BY <1>6, <2>1, <2>2 DEF LoopClose, CloseTest
  <2>3. CASE loop = "body"
    BY <1>6, <2>1, <2>3 DEF LoopClose, CloseBody, AfterBody
  <2>4. CASE loop = "remove"
    <3>1. dropped' = TRUE \/ (files /\ dropped' = dropped)
      BY <1>6, <2>4 DEF LoopClose, Remove
    <3>2. CASE dropped' = TRUE
      BY <1>6, <2>1, <2>4, <3>2 DEF LoopClose, Remove
    <3>3. CASE files /\ dropped' = dropped
      BY <1>6, <2>1, <2>4, <3>3 DEF LoopClose, Remove
    <3> QED
      BY <3>1, <3>2, <3>3
  <2> QED
    BY <1>6, <2>2, <2>3, <2>4 DEF LoopClose
<1> QED
  BY <1>1, <1>2, <1>3, <1>4, <1>5, <1>6

\* bufferDialog
LEMMA DialogStep ==
  ASSUME PlayInv,
         DialogCancel \/ DialogReset \/ DialogUpdate \/ DialogSignal
  PROVE  PlayInv'
<1> USE DEF PlayInv, Counted, Early, LoopOrder, HandlerTold, FilesOrder, Buffered, Closing,
            Began, Sound, player, history, torrent
<1>0. Logged /\ "handler" \in Listeners /\ "loop" \in Listeners
  BY DEF Listeners
<1>1. CASE DialogCancel
  BY <1>1, <1>0, Writes, Subscribes, Consumes, SilentLog DEF DialogCancel, Abandoned
<1>2. CASE DialogReset
  BY <1>2, <1>0, SilentLog DEF DialogReset, events
<1>3. CASE DialogUpdate
  BY <1>3, <1>0, SilentLog DEF DialogUpdate, events
<1>4. CASE DialogSignal
  BY <1>4, <1>0, Writes, Subscribes, Consumes, SilentLog DEF DialogSignal
<1> QED
  BY <1>1, <1>2, <1>3, <1>4

\* The torrent, and the user.
LEMMA TorrentStep ==
  ASSUME PlayInv,
         Tick \/ SendFinished \/ WatchFinished \/ WatchEnds \/ FinishedEvent
           \/ Download \/ Cancel \/ RemoveByUser
  PROVE  PlayInv'
<1> USE DEF PlayInv, Counted, Early, LoopOrder, HandlerTold, FilesOrder, Buffered, Closing,
            Began, Sound, player, history, torrent
<1>0. Logged /\ "handler" \in Listeners /\ "loop" \in Listeners
  BY DEF Listeners
<1>1. CASE Tick
  BY <1>1, <1>0, SilentLog DEF Tick, events
<1>2. CASE SendFinished
  BY <1>2, <1>0, SilentLog DEF SendFinished, events
<1>3. CASE WatchFinished
  BY <1>3, <1>0, SilentLog DEF WatchFinished, events
<1>4. CASE WatchEnds
  BY <1>4, <1>0, SilentLog DEF WatchEnds, events
<1>5. CASE FinishedEvent
  BY <1>5, <1>0, SilentLog DEF FinishedEvent, BufferFinished, events
<1>6. CASE Download
  BY <1>6, <1>0, SilentLog DEF Download, events
<1>7. CASE Cancel
  BY <1>7, <1>0, SilentLog DEF Cancel, events
<1>8. CASE RemoveByUser
  BY <1>8, <1>0, SilentLog DEF RemoveByUser, events
<1> QED
  BY <1>1, <1>2, <1>3, <1>4, <1>5, <1>6, <1>7, <1>8

LEMMA PlayStep == PlayInv /\ [Next]_vars => PlayInv'
<1> SUFFICES ASSUME PlayInv, [Next]_vars PROVE PlayInv'
  OBVIOUS
<1>1. CASE Steps
  BY <1>1, HandlerStep, HandlerCloses, MetadataStep, LoopStep, DialogStep, TorrentStep
     DEF Steps, Handler, Metadata, Loop, Dialog, Watch
<1>2. CASE Cancel \/ RemoveByUser
  BY <1>2, TorrentStep
<1>3. CASE UNCHANGED vars
  <2>1. UNCHANGED events
    BY <1>3 DEF vars
  <2>2. Logged' /\ from' = from /\ got' = got /\ (Heard' <=> Heard) /\ (Ok' <=> Ok)
        /\ (OkNext' <=> OkNext)
    BY <2>1, SilentLog DEF PlayInv
  <2> QED
    BY <1>3, <2>2 DEF vars, player, history, torrent, PlayInv, Counted, Early, LoopOrder,
                      HandlerTold, FilesOrder, Buffered, Closing, Began, Sound
<1> QED
  BY <1>1, <1>2, <1>3 DEF Next

LEMMA Playing == Spec => []PlayInv
BY PlayInit, PlayStep, PTL DEF Spec

----------------------------------------------------------------------------
(* The theorems *)

\* Kodi is sent to the file only when its first pieces are there, or the
\* user removed the torrent: the success the handler has been told of was
\* not broadcast while a failure stood before it.
THEOREM RedirectsAreBuffered == Spec => []RedirectOnlyBuffered
<1>1. PlayInv => RedirectOnlyBuffered
  BY DEF PlayInv, HandlerTold, RedirectOnlyBuffered
<1> QED
  BY <1>1, Playing, PTL

\* Nothing closes the player of a request that is being played: of the two
\* closers the handler has been told of a success, and the loop waits.
THEOREM ServedStaysUp == Spec => []TornDownOnlyAfterPlayback
<1>1. PlayInv => TornDownOnlyAfterPlayback
  <2> SUFFICES ASSUME PlayInv, Served PROVE ~closed /\ (dropped => removed)
    BY DEF TornDownOnlyAfterPlayback
  <2>1. <<"ok">> # <<"err">>
    OBVIOUS
  <2>2. handler \notin {"remove", "done"} /\ loop \notin {"remove", "done"}
    BY <2>1 DEF PlayInv, HandlerTold, Served
  <2> QED
    BY <2>2 DEF PlayInv, Closing
<1> QED
  BY <1>1, Playing, PTL

\* Of the two closers the first one to come removes the torrent of which no
\* file was chosen.
THEOREM GivenUpGoes == Spec => []GivenUpIsDropped
<1>1. PlayInv => GivenUpIsDropped
  BY DEF PlayInv, Closing, GivenUpIsDropped
<1> QED
  BY <1>1, Playing, PTL

------------------------------------------------------------------------------
(***************************************************************************)
(*                              ProviderSearch                             *)
(***************************************************************************)

\* The types of what the links pass through.
SearchTypes ==
  /\ main \in {"collect", "start", "wait", "merge", "done"}
  /\ call \in [Providers -> {"wait", "send"}]
  /\ accepted \in [Providers -> SUBSET Links]
  /\ toSend \in [Providers -> SUBSET Links]
  /\ torrents \in Seq(Links)
  /\ outcome \in [Links -> {"none", "ok", "failed"}]
  /\ resolver \in [Links -> {"none", "wait", "report", "reported", "gaveup"}]
  /\ passed \in 0 .. Len(torrents)
  /\ \A k \in DOMAIN result : result[k] \in Merged

\* What a provider returned is on its way or has been received, and all of it
\* has been received when the collecting ends.
Received(l) == \E i \in DOMAIN torrents : torrents[i] = l

Delivered ==
  /\ \A p \in Providers : \A l \in accepted[p] : l \in toSend[p] \/ Received(l)
  /\ \A p \in Providers : call[p] = "wait" => accepted[p] = {} /\ toSend[p] = {}
  /\ main # "collect" => \A p \in Providers : call[p] = "send" /\ toSend[p] = {}

\* While the results are merged no resolver runs, so that InTime is settled.
Settled ==
  /\ main \in {"merge", "done"} => \A l \in Links : resolver[l] \in {"none", "reported", "gaveup"}
  /\ progressClosed => main = "done"
  /\ main \notin {"merge", "done"} => passed = 0 /\ result = <<>>
  /\ main = "done" => passed = Len(torrents)

\* The result is that of the links the merging loop has passed.
Included(l) == InTime(l) => Key(l) \in DOMAIN result /\ BestFor(result[Key(l)], l)

MergedSoFar == \A i \in 1 .. passed : Included(torrents[i])

SearchInv == SearchTypes /\ Delivered /\ Settled /\ MergedSoFar

----------------------------------------------------------------------------
\* A link alone is the best of its group.
LEMMA Opened ==
  ASSUME NEW l \in Links
  PROVE  New(l) \in Merged /\ BestFor(New(l), l)
BY SearchAssumption DEF New, Merged, BestFor

\* A join is the best for the link that joins, and stays so for the others.
LEMMA Joined ==
  ASSUME NEW m \in Merged, NEW l \in Links
  PROVE  /\ Join(m, l) \in Merged
         /\ BestFor(Join(m, l), l)
         /\ \A x \in Links : BestFor(m, x) => BestFor(Join(m, l), x)
<1> DEFINE j == Join(m, l)
<1>1. /\ j.of = m.of
      /\ j.name = IF Quality[l] > Quality[m.name] THEN l ELSE m.name
      /\ j.seeds = IF Seeds[l] > Seeds[m.seeds] THEN l ELSE m.seeds
      /\ j.uri = IF m.uri \in Magnets /\ l \notin Magnets THEN l ELSE m.uri
      /\ j.from = m.from \cup {ProviderOf[l]}
      /\ DOMAIN j = {"of", "name", "seeds", "uri", "from"}
  BY DEF Join, Merged
<1>2. /\ m.of \in Links /\ m.name \in Links /\ m.seeds \in Links /\ m.uri \in Links
      /\ m.from \subseteq Providers
  BY DEF Merged
<1>3. /\ Quality[l] \in Nat /\ Quality[m.name] \in Nat
      /\ Seeds[l] \in Nat /\ Seeds[m.seeds] \in Nat /\ ProviderOf[l] \in Providers
      /\ \A x \in Links : Quality[x] \in Nat /\ Seeds[x] \in Nat
  BY <1>2, SearchAssumption
<1>4. j \in Merged
  BY <1>2, <1>3 DEF Join, Merged
<1>5. BestFor(j, l)
  BY <1>1, <1>2, <1>3 DEF BestFor
<1>6. \A x \in Links : BestFor(m, x) => BestFor(j, x)
  BY <1>1, <1>2, <1>3 DEF BestFor
<1> QED
  BY <1>4, <1>5, <1>6

\* Adding a link puts it in its group, and takes nothing from the others.
LEMMA Added ==
  ASSUME NEW l \in Links, \A k \in DOMAIN result : result[k] \in Merged,
         result' = Add(result, l)
  PROVE  /\ \A k \in DOMAIN result' : result'[k] \in Merged
         /\ Key(l) \in DOMAIN result' /\ BestFor(result'[Key(l)], l)
         /\ \A x \in Links : Key(x) \in DOMAIN result /\ BestFor(result[Key(x)], x) =>
              Key(x) \in DOMAIN result' /\ BestFor(result'[Key(x)], x)
<1> DEFINE m == IF Key(l) \in DOMAIN result THEN Join(result[Key(l)], l) ELSE New(l)
<1>1. m \in Merged /\ BestFor(m, l)
  BY Opened, Joined
<1>2. \A x \in Links : Key(x) = Key(l) /\ Key(l) \in DOMAIN result
                       /\ BestFor(result[Key(l)], x) => BestFor(m, x)
  BY Joined
<1> HIDE DEF m
<1>3. result' = [k \in DOMAIN result \cup {Key(l)} |-> IF k = Key(l) THEN m ELSE result[k]]
  BY DEF Add, m
<1>4. /\ DOMAIN result' = DOMAIN result \cup {Key(l)}
      /\ result'[Key(l)] = m
      /\ \A k \in DOMAIN result : k # Key(l) => result'[k] = result[k]
  BY <1>3
<1> QED
  BY <1>1, <1>2, <1>4
----------------------------------------------------------------------------
(* The invariant *)

LEMMA SearchInvInit == SearchInit => SearchInv
<1> SUFFICES ASSUME SearchInit PROVE SearchInv
  OBVIOUS
<1>1. SearchTypes
  BY DEF SearchInit, SearchTypes
<1>2. Delivered /\ Settled /\ MergedSoFar
  BY DEF SearchInit, Delivered, Settled, MergedSoFar
<1> QED
  BY <1>1, <1>2 DEF SearchInv

LEMMA SearchTypesStep ==
  ASSUME SearchTypes, [SearchNext]_searchVars
  PROVE  SearchTypes'
<1> USE DEF SearchTypes
<1> USE DEF calls, resolving, merging
<1>1. ASSUME NEW p \in Providers, PostFind(p) \/ Provider(p) PROVE SearchTypes'
  BY <1>1 DEF PostFind, Provider, PostRemove, PostSend, CallAnswered, CallTimeout
<1>2. CASE CollectEnd \/ StartUpdater \/ ResolversDone \/ MergeEnd
  BY <1>2 DEF CollectEnd, StartUpdater, ResolversDone, MergeEnd
<1>3. CASE MergeNext
  <2>1. CASE HasHash(torrents[passed + 1])
    <3>1. torrents[passed + 1] \in Links /\ result' = Add(result, torrents[passed + 1])
      BY <1>3, <2>1 DEF MergeNext
    <3>2. \A k \in DOMAIN result' : result'[k] \in Merged
      BY <3>1, Added
    <3> QED
      BY <1>3, <3>2 DEF MergeNext
  <2>2. CASE ~HasHash(torrents[passed + 1])
    BY <1>3, <2>2 DEF MergeNext
  <2> QED
    BY <2>1, <2>2
<1>4. ASSUME NEW l \in Links, Collect(l) PROVE SearchTypes'
  BY <1>4 DEF Collect
<1>5. ASSUME NEW l \in Links, Resolved(l) \/ GiveUp(l) \/ Report(l) \/ Resolve(l) PROVE SearchTypes'
  BY <1>5 DEF Resolved, GiveUp, Report, Resolve
<1>6. CASE UpdaterEnds \/ TimePasses
  BY <1>6 DEF UpdaterEnds, TimePasses
<1>7. CASE UNCHANGED searchVars
  BY <1>7 DEF searchVars
<1> QED
  BY <1>1, <1>2, <1>3, <1>4, <1>5, <1>6, <1>7 DEF SearchNext, Main, Resolver

\* A link leaves toSend only for torrents, which keeps it; the last provider
\* is through before the collecting ends.
LEMMA DeliveredStep ==
  ASSUME SearchTypes, SearchTypes', Delivered, [SearchNext]_searchVars
  PROVE  Delivered'
<1> USE DEF Delivered, calls, resolving, merging
<1>1. ASSUME NEW p \in Providers, CallAnswered(p) \/ CallTimeout(p) PROVE Delivered'
  <2>1. UNCHANGED <<torrents, main>> /\ call[p] = "wait" /\ main = "collect"
    BY <1>1 DEF CallAnswered, CallTimeout
  <2>2. /\ call'[p] = "send" /\ accepted'[p] = toSend'[p]
        /\ \A q \in Providers \ {p} : /\ call'[q] = call[q]
                                     /\ accepted'[q] = accepted[q] /\ toSend'[q] = toSend[q]
    <3>1. CASE CallAnswered(p)
      <4>1. PICK links \in SUBSET Links : /\ accepted' = [accepted EXCEPT ![p] = links]
                                         /\ toSend' = [toSend EXCEPT ![p] = links]
        BY <3>1 DEF CallAnswered
      <4> QED
        BY <3>1, <4>1 DEF CallAnswered, SearchTypes
    <3>2. CASE CallTimeout(p)
      BY <2>1, <3>2 DEF CallTimeout, SearchTypes
    <3> QED
      BY <1>1, <3>1, <3>2
  <2> QED
    BY <2>1, <2>2 DEF Received
<1>2. ASSUME NEW p \in Providers, PostFind(p) \/ PostRemove(p) \/ PostSend(p) PROVE Delivered'
  BY <1>2 DEF PostFind, PostRemove, PostSend, Received
<1>3. ASSUME NEW l \in Links, Collect(l) PROVE Delivered'
  <2>1. PICK p \in Providers : l \in toSend[p] /\ toSend' = [toSend EXCEPT ![p] = @ \ {l}]
    BY <1>3 DEF Collect
  <2>2. /\ main = "collect" /\ main' = main /\ call' = call /\ accepted' = accepted
        /\ torrents' = Append(torrents, l) /\ torrents \in Seq(Links)
    BY <1>3 DEF Collect, SearchTypes
  <2>3. /\ DOMAIN torrents = 1 .. Len(torrents)
        /\ DOMAIN torrents' = 1 .. (Len(torrents) + 1)
        /\ torrents'[Len(torrents) + 1] = l
        /\ \A i \in DOMAIN torrents : torrents'[i] = torrents[i]
    BY <2>2
  <2>4. Received(l)' /\ \A x : Received(x) => Received(x)'
    BY <2>3 DEF Received
  <2>5. \A q \in Providers : \A x \in toSend[q] : x \in toSend'[q] \/ x = l
    BY <2>1 DEF SearchTypes
  <2>6. \A q \in Providers : toSend'[q] \subseteq toSend[q]
    BY <2>1 DEF SearchTypes
  <2> QED
    BY <2>2, <2>4, <2>5, <2>6
<1>4. CASE CollectEnd
  BY <1>4 DEF CollectEnd, Received
<1>5. CASE StartUpdater \/ ResolversDone \/ MergeNext \/ MergeEnd
  BY <1>5 DEF StartUpdater, ResolversDone, MergeNext, MergeEnd, Received
<1>6. ASSUME NEW l \in Links, Resolved(l) \/ GiveUp(l) \/ Report(l) \/ Resolve(l)
      PROVE  Delivered'
  BY <1>6 DEF Resolved, GiveUp, Report, Resolve, Received
<1>7. CASE UpdaterEnds \/ TimePasses \/ UNCHANGED searchVars
  BY <1>7 DEF UpdaterEnds, TimePasses, searchVars, Received
<1> QED
  BY <1>1, <1>2, <1>3, <1>4, <1>5, <1>6, <1>7 DEF SearchNext, Provider, Main, Resolver

\* A resolver starts only while links are collected, and the merge only when
\* all of them have ended.
LEMMA SettledStep ==
  ASSUME SearchTypes, Settled, [SearchNext]_searchVars
  PROVE  Settled'
<1> USE DEF Settled, calls, resolving, merging
<1>1. ASSUME NEW p \in Providers, PostFind(p) \/ Provider(p) PROVE Settled'
  BY <1>1 DEF PostFind, Provider, PostRemove, PostSend, CallAnswered, CallTimeout
<1>2. CASE CollectEnd \/ StartUpdater \/ ResolversDone
  <2>1. UNCHANGED <<passed, result, progressClosed, resolver>>
    BY <1>2 DEF CollectEnd, StartUpdater, ResolversDone
  <2>2. main \notin {"merge", "done"} /\ main' # "done"
    BY <1>2 DEF CollectEnd, StartUpdater, ResolversDone
  <2>3. main' = "merge" => \A l \in Links : resolver[l] \in {"none", "reported", "gaveup"}
    BY <1>2 DEF CollectEnd, StartUpdater, ResolversDone
  <2> QED
    BY <2>1, <2>2, <2>3
<1>3. CASE MergeNext
  BY <1>3 DEF MergeNext
<1>4. CASE MergeEnd
  BY <1>4 DEF MergeEnd
<1>5. ASSUME NEW l \in Links, Collect(l) PROVE Settled'
  BY <1>5 DEF Collect
<1>6. ASSUME NEW l \in Links, Resolved(l) \/ GiveUp(l) \/ Report(l) PROVE Settled'
  BY <1>6 DEF Resolved, GiveUp, Report, SearchTypes
<1>7. ASSUME NEW l \in Links, Resolve(l) PROVE Settled'
  BY <1>7 DEF Resolve
<1>8. CASE UpdaterEnds \/ TimePasses \/ UNCHANGED searchVars
  BY <1>8 DEF UpdaterEnds, TimePasses, searchVars
<1> QED
  BY <1>1, <1>2, <1>3, <1>4, <1>5, <1>6, <1>7, <1>8 DEF SearchNext, Main, Resolver

\* While the result grows, nothing new comes in time.
LEMMA NoLateComer ==
  ASSUME SearchTypes, Settled, main \in {"merge", "done"}, [SearchNext]_searchVars
  PROVE  torrents' = torrents /\ \A l \in Links : InTime(l)' => InTime(l)
<1> USE DEF calls, resolving, merging
<1>1. ASSUME NEW p \in Providers, PostFind(p) \/ Provider(p)
      PROVE  UNCHANGED <<torrents, resolver, outcome>>
  BY <1>1 DEF PostFind, Provider, PostRemove, PostSend, CallAnswered, CallTimeout
<1>2. CASE Main \/ UpdaterEnds \/ TimePasses \/ UNCHANGED searchVars
  BY <1>2 DEF Main, CollectEnd, StartUpdater, ResolversDone, MergeNext, MergeEnd, UpdaterEnds,
              TimePasses, searchVars, InTime
<1>3. ASSUME NEW l \in Links PROVE ~Resolver(l)
  BY DEF Resolver, Collect, Resolved, GiveUp, Report, Settled
<1>4. ASSUME NEW l \in Links, Resolve(l)
      PROVE  torrents' = torrents /\ \A x \in Links : InTime(x)' => InTime(x)
  <2>1. /\ torrents' = torrents /\ resolver' = resolver /\ resolver[l] # "reported"
        /\ \A x \in Links \ {l} : outcome'[x] = outcome[x]
    BY <1>4 DEF Resolve, SearchTypes
  <2> QED
    BY <2>1 DEF InTime
<1> QED
  BY <1>1, <1>2, <1>3, <1>4 DEF SearchNext, InTime

LEMMA MergedStep ==
  ASSUME SearchTypes, Settled, MergedSoFar, [SearchNext]_searchVars
  PROVE  MergedSoFar'
<1> USE DEF calls, resolving, merging
<1>1. torrents \in Seq(Links) /\ passed \in 0 .. Len(torrents)
  BY DEF SearchTypes
<1>2. CASE MergeNext
  <2>1. /\ passed' = passed + 1 /\ passed + 1 \in 1 .. Len(torrents)
        /\ torrents' = torrents /\ \A l \in Links : InTime(l)' => InTime(l)
    BY <1>1, <1>2, NoLateComer DEF MergeNext
  <2>2. PICK l \in Links : l = torrents[passed + 1]
    BY <1>1, <2>1
  <2>3. CASE HasHash(l)
    <3>1. result' = Add(result, l)
      BY <1>2, <2>2, <2>3 DEF MergeNext
    <3>2. Included(l)'
      BY <3>1, Added DEF Included, SearchTypes
    <3>3. \A x \in Links : Included(x) => Included(x)'
      BY <2>1, <3>1, Added DEF Included, SearchTypes
    <3> QED
      BY <1>1, <2>1, <2>2, <3>2, <3>3 DEF MergedSoFar
  <2>4. CASE ~HasHash(l)
    <3>1. result' = result /\ ~InTime(l)
      BY <1>2, <2>2, <2>4 DEF MergeNext, HasHash, InTime
    <3>2. Included(l)' /\ \A x \in Links : Included(x) => Included(x)'
      BY <2>1, <3>1 DEF Included, BestFor, Key
    <3> QED
      BY <1>1, <2>1, <2>2, <3>2 DEF MergedSoFar
  <2> QED
    BY <2>3, <2>4
<1>3. ASSUME UNCHANGED <<passed, result>> PROVE MergedSoFar'
  <2>1. CASE main \in {"merge", "done"}
    <3>1. torrents' = torrents /\ \A l \in Links : InTime(l)' => InTime(l)
      BY <2>1, NoLateComer
    <3>2. \A x \in Links : Included(x) => Included(x)'
      BY <1>3, <3>1 DEF Included, BestFor, Key
    <3> QED
      BY <1>1, <1>3, <3>1, <3>2 DEF MergedSoFar
  <2>2. CASE main \notin {"merge", "done"}
    BY <1>3, <2>2 DEF Settled, MergedSoFar
  <2> QED
    BY <2>1, <2>2
<1>4. MergeNext \/ UNCHANGED <<passed, result>>
  BY DEF SearchNext, Provider, Main, Resolver, PostFind, PostRemove, PostSend, CallAnswered,
         CallTimeout, CollectEnd, StartUpdater, ResolversDone, MergeEnd, Collect, Resolved,
         GiveUp, Report, Resolve, UpdaterEnds, TimePasses, searchVars
<1> QED
  BY <1>2, <1>3, <1>4

LEMMA SearchInvStep == SearchInv /\ [SearchNext]_searchVars => SearchInv'
BY SearchTypesStep, DeliveredStep, SettledStep, MergedStep DEF SearchInv

LEMMA Searching == SearchSpec => []SearchInv
BY SearchInvInit, SearchInvStep, PTL DEF SearchSpec

----------------------------------------------------------------------------
(* The theorems *)

\* Nobody sends on progressUpdate after its close: it is closed by the end of
\* processLinks, which has waited for every resolver.
THEOREM ReportsBeforeClose == SearchSpec => []NoReportAfterClose
<1>1. SearchInv => NoReportAfterClose
  BY DEF SearchInv, Settled, NoReportAfterClose
<1> QED
  BY <1>1, Searching, PTL

\* Every link that a provider returned and that has its info hash in time is
\* in the result, whatever the other providers and resolvers do.
THEOREM InTimeIsFound == SearchSpec => []NothingInTimeIsLost
<1>1. SearchInv => NothingInTimeIsLost
  <2> SUFFICES ASSUME SearchInv, main = "done",
                      NEW p \in Providers, NEW l \in accepted[p], InTime(l)
               PROVE  Key(l) \in DOMAIN result
    BY DEF NothingInTimeIsLost
  <2>1. Received(l)
    BY DEF SearchInv, Delivered
  <2>2. PICK i \in 1 .. passed : torrents[i] = l
    BY <2>1 DEF SearchInv, SearchTypes, Settled, Received
  <2> QED
    BY <2>2 DEF SearchInv, MergedSoFar, Included
<1> QED
  BY <1>1, Searching, PTL

\* The merged torrent is the best of its group, in whatever order the links
\* arrived.
THEOREM BestIsMerged == SearchSpec => []MergedIsBest
<1>1. SearchInv => MergedIsBest
  <2> SUFFICES ASSUME SearchInv, main = "done", NEW i \in DOMAIN torrents, InTime(torrents[i])
               PROVE  BestFor(result[Key(torrents[i])], torrents[i])
    BY DEF MergedIsBest
  <2>1. i \in 1 .. passed
    BY DEF SearchInv, SearchTypes, Settled
  <2> QED
    BY <2>1 DEF SearchInv, MergedSoFar, Included
<1> QED
  BY <1>1, Searching, PTL

------------------------------------------------------------------------------
(***************************************************************************)
(*                              CompletedMove                              *)
(***************************************************************************)

FileNames == {Name[f] : f \in Files}

\* The types of what holds the files.
DataTypes ==
    /\ item \in [Torrents -> (SUBSET Files) \cup {None}]
    /\ data \in [Torrents -> SUBSET Files]
    /\ folder \in [FileNames -> (Torrents \X Files) \cup {None, Part}]
    /\ manager = None \/ (manager.of \in Torrents /\ manager.files \in SUBSET Files)
    /\ movers \subseteq [of : Torrents, file : Files, at : {"move", "sweep"}]
    /\ was \subseteq Torrents \X Files

\* A Drop that deletes data was asked for, or is the download manager's.
DeletesAsked == \A d \in dropping : d.outcome = "nothing" => d.of \in wanted \cup early

\* A file lies in the completed folder under its own name.
OwnName == \A n \in FileNames : folder[n] \notin {None, Part} => n = Name[folder[n][2]]

\* Who is about to remove a folder has moved its file.
SweepsAfterMove == \A m \in movers : m.at = "sweep" => folder[Name[m.file]] # None

DataInv == DataTypes /\ DeletesAsked /\ OwnName /\ SweepsAfterMove /\ LostOnlyOnRequest

LEMMA DataInit == MoveInit => DataInv
<1> SUFFICES ASSUME MoveInit PROVE DataInv
  OBVIOUS
<1>1. item \in [Torrents -> (SUBSET Files) \cup {None}]
  BY DEF MoveInit
<1>2. data \in [Torrents -> SUBSET Files]
  BY DEF MoveInit
<1>3. folder \in [FileNames -> (Torrents \X Files) \cup {None, Part}]
  BY DEF MoveInit, FileNames
<1> QED
  BY <1>1, <1>2, <1>3 DEF MoveInit, DataInv, DataTypes, DeletesAsked, OwnName, SweepsAfterMove,
                          LostOnlyOnRequest, FileNames

----------------------------------------------------------------------------
(* The types *)

LEMMA DataTypeStep == DataTypes /\ [MoveNext]_moveVars => DataTypes'
<1> SUFFICES ASSUME DataTypes, [MoveNext]_moveVars PROVE DataTypes'
  OBVIOUS
<1> USE FilesAssumption DEF DataTypes, FileNames
<1>1. ASSUME NEW t \in Torrents, NEW fs \in Choices, AddTorrent(t, fs) PROVE DataTypes'
  BY <1>1 DEF AddTorrent
<1>2. ASSUME NEW t \in Torrents, UnDownloadAll(t) PROVE DataTypes'
  BY <1>2 DEF UnDownloadAll
<1>3. ASSUME NEW t \in Torrents, NEW f \in Files, Complete(t, f) PROVE DataTypes'
  BY <1>3 DEF Complete
<1>4. ASSUME NEW t \in Torrents, NEW drop, NEW delete, RemoveTorrent(t, drop, delete) PROVE DataTypes'
  BY <1>4 DEF RemoveTorrent, Removed, Outcomes
<1>5. ASSUME NEW t \in Torrents, NEW isPaused, NEW writable, MoveFound(t, isPaused, writable) PROVE DataTypes'
  BY <1>5 DEF MoveFound
<1>6. ASSUME NEW d \in dropping, Drop(d) PROVE DataTypes'
  BY <1>6 DEF Drop
<1>7. CASE MoveRemove
  BY <1>7 DEF MoveRemove, Removed, Outcomes
<1>8. CASE MoveStart
  BY <1>8 DEF MoveStart
<1>9. ASSUME NEW m \in movers, Move(m) PROVE DataTypes'
  <2>1. m.of \in Torrents /\ m.file \in Files /\ Name[m.file] \in FileNames
    BY DEF DataTypes
  <2>2. folder' \in [FileNames -> (Torrents \X Files) \cup {None, Part}]
    <3>1. folder' = folder \/ \E x \in {<<m.of, m.file>>, Part} : folder' = [folder EXCEPT ![Name[m.file]] = x]
      BY <1>9 DEF Move
    <3>2. <<m.of, m.file>> \in Torrents \X Files
      BY <2>1
    <3> QED
      BY <2>1, <3>1, <3>2
  <2>3. data' \in [Torrents -> SUBSET Files]
    BY <1>9, <2>1 DEF Move
  <2>4. movers' \subseteq [of : Torrents, file : Files, at : {"move", "sweep"}]
    BY <1>9, <2>1 DEF Move
  <2> QED
    BY <1>9, <2>2, <2>3, <2>4 DEF Move
<1>10. ASSUME NEW m \in movers, Sweep(m) PROVE DataTypes'
  BY <1>10 DEF Sweep
<1>11. CASE UNCHANGED moveVars
  BY <1>11 DEF moveVars
<1>12. CASE MoveNext
  BY ONLY <1>12, <1>1, <1>2, <1>3, <1>4, <1>5, <1>6, <1>7, <1>8, <1>9, <1>10, Zenon DEF MoveNext
<1> QED
  BY ONLY <1>11, <1>12, [MoveNext]_moveVars

----------------------------------------------------------------------------
(* No file is lost *)

LEMMA DataStep == DataInv /\ [MoveNext]_moveVars => DataInv'
<1> SUFFICES ASSUME DataInv, [MoveNext]_moveVars PROVE DataInv'
  OBVIOUS
<1>0. DataTypes /\ DataTypes'
  BY DataTypeStep DEF DataInv
<1> USE FilesAssumption DEF DataInv, DeletesAsked, OwnName, SweepsAfterMove, LostOnlyOnRequest,
            Kept, Displaced
\* A step that touches no file.
<1>1. ASSUME UNCHANGED <<data, folder, was, wanted, early>>,
             \A d \in dropping' : d \in dropping
               \/ (d.outcome = "nothing" => d.of \in wanted' \cup early'),
             \A m \in movers' : m \in movers \/ m.at = "move"
      PROVE DataInv'
  BY <1>0, <1>1 DEF FileNames
<1>2. ASSUME NEW t \in Torrents, UnDownloadAll(t) \/ \E fs \in Choices : AddTorrent(t, fs)
      PROVE DataInv'
  BY <1>2, <1>1 DEF AddTorrent, UnDownloadAll
<1>3. ASSUME NEW t \in Torrents, NEW f \in Files, Complete(t, f) PROVE DataInv'
  BY <1>0, <1>3 DEF Complete, DataTypes, FileNames
\* What is removed with its data was asked for.
<1>4. ASSUME NEW t \in Torrents, NEW drop, NEW delete, RemoveTorrent(t, drop, delete) PROVE DataInv'
  <2>1. PICK o : Removed(t, o) /\ wanted' = IF o = "nothing" THEN wanted \cup {t} ELSE wanted
    BY <1>4 DEF RemoveTorrent
  <2>2. UNCHANGED <<data, folder, movers, was, early>>
    BY <1>4 DEF RemoveTorrent
  <2>3. \A d \in dropping' : d.outcome = "nothing" => d.of \in wanted' \cup early'
    BY <2>1, <2>2 DEF Removed
  <2> QED
    BY <1>0, <2>1, <2>2, <2>3
<1>5. ASSUME NEW t \in Torrents, NEW isPaused, NEW writable, MoveFound(t, isPaused, writable) PROVE DataInv'
  BY <1>5, <1>1 DEF MoveFound
<1>6. ASSUME NEW d \in dropping, Drop(d) PROVE DataInv'
  BY <1>0, <1>6 DEF Drop, DataTypes, FileNames
<1>7. CASE MoveRemove
  <2>1. PICK o : /\ Removed(manager.of, o)
                 /\ early' = IF o = "nothing" THEN early \cup {manager.of} ELSE early
    BY <1>7 DEF MoveRemove
  <2>2. UNCHANGED <<data, folder, movers, was, wanted>>
    BY <1>7 DEF MoveRemove
  <2>3. \A d \in dropping' : d.outcome = "nothing" => d.of \in wanted' \cup early'
    BY <2>1, <2>2 DEF Removed
  <2> QED
    BY <1>0, <2>1, <2>2, <2>3
<1>8. CASE MoveStart
  BY <1>8, <1>1 DEF MoveStart
<1>9. ASSUME NEW m \in movers, Move(m) PROVE DataInv'
  <2>1. m.of \in Torrents /\ m.file \in Files /\ Name[m.file] \in FileNames
    BY <1>0 DEF DataTypes, FileNames
  <2>2. CASE UNCHANGED <<data, folder>> /\ movers' = movers \ {m}
    BY <1>9, <2>2, <1>1 DEF Move
  <2>3. ASSUME NEW x \in {<<m.of, m.file>>, Part}, folder' = [folder EXCEPT ![Name[m.file]] = x]
        PROVE  DataInv'
    <3>1. folder' \in [FileNames -> (Torrents \X Files) \cup {None, Part}]
      BY <1>0 DEF DataTypes
    <3>2. \A n \in FileNames : folder[n] # None => folder'[n] # None
      BY <1>0, <2>1, <2>3, FilesAssumption DEF DataTypes
    <3>3. OwnName'
      BY <1>0, <2>1, <2>3 DEF DataTypes
    <3>4. folder'[Name[m.file]] # None
      BY <1>0, <2>1, <2>3, <3>1, FilesAssumption DEF DataTypes
    <3>5. SweepsAfterMove'
      BY <1>0, <1>9, <2>1, <3>2, <3>4 DEF Move, DataTypes, FileNames
    <3>6. LostOnlyOnRequest'
      BY <1>0, <1>9, <2>1, <2>3, <3>2 DEF Move, DataTypes, FileNames
    <3> QED
      BY <1>0, <1>9, <3>3, <3>5, <3>6 DEF Move
  <2>4. \/ UNCHANGED <<data, folder>> /\ movers' = movers \ {m}
        \/ \E x \in {<<m.of, m.file>>, Part} : folder' = [folder EXCEPT ![Name[m.file]] = x]
    BY <1>9 DEF Move
  <2> QED
    BY <2>2, <2>3, <2>4
<1>10. ASSUME NEW m \in movers, Sweep(m) PROVE DataInv'
  BY <1>0, <1>10 DEF Sweep, DataTypes, FileNames
<1>11. CASE UNCHANGED moveVars
  BY <1>11, <1>1 DEF moveVars
<1>12. CASE MoveNext
  BY ONLY <1>12, <1>2, <1>3, <1>4, <1>5, <1>6, <1>7, <1>8, <1>9, <1>10, Zenon DEF MoveNext
<1> QED
  BY ONLY <1>11, <1>12, [MoveNext]_moveVars

\* A file that has been complete is lost only if another one displaced it, or its torrent
\* was removed with its data as the settings or the user wanted.
THEOREM FilesKept == MoveSpec => []LostOnlyOnRequest
<1>1. DataInv => LostOnlyOnRequest
  BY DEF DataInv
<1> QED
  BY <1>1, DataInit, DataStep, PTL DEF MoveSpec
==============================================================================
