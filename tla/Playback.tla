------------------------------ MODULE Playback ------------------------------
(***************************************************************************)
(* One play request: the goroutines of a Player (bittorrent/player.go), of *)
(* the request handler that waits for it (api/play.go) and of its Torrent  *)
(* (bittorrent/torrent.go), from Buffer() to Close().                      *)
(*                                                                         *)
(*   handler   Play and Player.Buffer, waits for the first buffer event    *)
(*   meta      processMetadata, then Torrent.Buffer                        *)
(*   space     waitCheckAvailableSpace                                     *)
(*   loop      playerLoop, waits for the first buffer event as well        *)
(*   dialog    bufferDialog, which polls and reports the outcome           *)
(*   Watch     the torrent's loop, with its ticker and finish goroutines   *)
(*                                                                         *)
(* Buffer events go through a broadcaster, of which only the promise is    *)
(* used here: BroadcastLog, which package broadcast implements.            *)
(***************************************************************************)
EXTENDS Naturals, Sequences

CONSTANTS
  MaxTicks,     \* bound on ticks in flight, up to the end of bufferFinishedEvent
  FinishedCap   \* capacity of t.bufferFinished

ASSUME BoundsAssumption ==
  /\ MaxTicks \in Nat \ {0}
  /\ FinishedCap \in Nat \ {0}

Listeners == {"handler", "loop"}

VARIABLES
  log, open, stream, from, got,   \* bufferEvents and its two listeners; nobody closes it
  handler, meta, space, loop, dialog,   \* where the goroutines are
  background,   \* btp.p.Background
  hasDialog,    \* btp.dialogProgress is not nil
  canceled,     \* the user pressed Cancel in the dialog
  chosen,       \* btp.hasChosenFile
  files,        \* the torrent has ChosenFiles
  noSpace,      \* btp.notEnoughSpace
  played,       \* playback started
  closed,       \* btp.closed and btp.closer
  late,         \* history: the event was broadcast before Buffer listened
  removed,      \* history: the user removed the torrent by the API
  dropped,      \* t.Closer: the torrent is out of the queue and dropped
  buffering,    \* t.IsBuffering
  finished,     \* t.IsBufferingFinished
  pieces,       \* t.BufferPiecesProgress holds the pieces of the chosen file
  have,         \* these pieces have been downloaded
  ticker,       \* t.bufferTicker runs
  ticks,        \* bufferTickerEvent goroutines that found 100 percent, before the send
  finishes,     \* elements in t.bufferFinished
  finishing,    \* bufferFinishedEvent goroutines not yet run
  watch,        \* Watch runs; it closes t.bufferFinished when it ends
  crashed       \* a send on the closed t.bufferFinished: the process dies

events == <<log, open, stream, from, got>>
player == <<background, hasDialog, canceled, chosen, files, noSpace, played, closed>>
history == <<late, removed>>
torrent == <<dropped, buffering, finished, pieces, have, ticker, ticks, finishes,
             finishing, watch, crashed>>
vars == <<events, handler, meta, space, loop, dialog, player, history, torrent>>

Events == INSTANCE BroadcastLog WITH Receivers <- Listeners, Values <- {"ok", "err"}

TypeOK ==
  /\ Events!TypeOK
  /\ handler \in {"start", "spawned", "listening", "wait", "close", "body", "remove",
                  "redirect", "done"}
  /\ meta \in {"none", "choose", "files", "buffer", "done"}
  /\ space \in {"none", "wait", "mark", "done"}
  /\ loop \in {"none", "start", "wait", "playwait", "play", "close", "body", "remove", "done"}
  /\ dialog \in {"none", "poll", "update", "reset", "done"}
  /\ {background, hasDialog, canceled, chosen, files, noSpace, played, closed, late, removed,
      dropped, buffering, finished, pieces, have, ticker, watch, crashed} \subseteq BOOLEAN
  /\ ticks \in 0 .. MaxTicks
  /\ finishes \in 0 .. FinishedCap
  /\ finishing \in 0 .. MaxTicks

(* The player has its torrent (addTorrent, resumeTorrent and SetTorrent). *)
Init ==
  /\ Events!Init
  /\ handler = "start"
  /\ meta = "none" /\ space = "none" /\ loop = "none" /\ dialog = "none"
  /\ background \in BOOLEAN
  /\ hasDialog = FALSE /\ canceled = FALSE /\ chosen = FALSE /\ files = FALSE
  /\ noSpace = FALSE /\ played = FALSE /\ closed = FALSE
  /\ late = FALSE /\ removed = FALSE
  /\ dropped = FALSE /\ buffering = FALSE /\ finished = FALSE
  /\ pieces = FALSE /\ have = FALSE
  /\ ticker = TRUE /\ ticks = 0 /\ finishes = 0 /\ finishing = 0
  /\ watch = TRUE /\ crashed = FALSE

-----------------------------------------------------------------------------
(* Buffer: go processMetadata. *)
BufferSpawn ==
  /\ handler = "start"
  /\ handler' = "spawned"
  /\ meta' = "choose"
  /\ UNCHANGED <<events, space, loop, dialog, player, history, torrent>>

(* Buffer: the buffering flags, then Listen. *)
BufferListen ==
  /\ handler = "spawned"
  /\ handler' = "listening"
  /\ buffering' = ~background
  /\ finished' = (finished \/ background)
  /\ late' = (log # <<>>)
  /\ Events!Subscribe("handler")
  /\ UNCHANGED <<meta, space, loop, dialog, player, removed, dropped, pieces, have,
                 ticker, ticks, finishes, finishing, watch, crashed>>

(* Buffer: the progress dialog, which Kodi may fail to open, and the rest   *)
(* of the goroutines.                                                       *)
BufferRun ==
  /\ handler = "listening"
  /\ handler' = "wait"
  /\ hasDialog' \in (IF finished THEN {FALSE} ELSE BOOLEAN)
  /\ space' = "wait"
  /\ loop' = "start"
  /\ UNCHANGED <<events, meta, dialog, background, canceled, chosen, files, noSpace,
                 played, closed, history, torrent>>

(* Mutant: the handler closes its player on every path. *)
BufferReturnDeferClose ==
  /\ handler = "wait"
  /\ Events!Consume("handler")
  /\ handler' = "close"
  /\ UNCHANGED <<meta, space, loop, dialog, player, history, torrent>>

(* Buffer returns on the first event; Play redirects or closes the player. *)
BufferReturn ==
  /\ handler = "wait"
  /\ Events!Consume("handler")
  /\ handler' = IF got'["handler"] = <<"ok">> /\ chosen /\ ~background
                  THEN "redirect" ELSE "close"
  /\ UNCHANGED <<meta, space, loop, dialog, player, history, torrent>>

-----------------------------------------------------------------------------
(* Close, called by the handler and deferred by playerLoop: "if btp.closed". *)
CloseTest(pc) == IF closed THEN "done" ELSE "body"

(* btp.closed = true, btp.closer.Set(); the torrent is left alone when the  *)
(* next file is awaited (HasNextFile and IsWatched) or for a background     *)
(* download.                                                                *)
CloseBody ==
  /\ closed' = TRUE
  /\ UNCHANGED <<background, hasDialog, canceled, chosen, files, noSpace, played>>

(* Mutant: a request that was never played removes nothing. *)
AfterBodyIfPlayed == IF played /\ ~background THEN {"remove", "done"} ELSE {"done"}

AfterBody == IF background THEN {"done"}
             ELSE IF played THEN {"remove", "done"} ELSE {"remove"}

(* RemoveTorrent: nothing if it is not in the queue any more; otherwise it  *)
(* is dropped, or kept downloading if it has chosen files.                  *)
Remove ==
  /\ dropped' \in (IF files THEN {TRUE, dropped} ELSE {TRUE})
  /\ UNCHANGED <<buffering, finished, pieces, have, ticker, ticks, finishes, finishing,
                 watch, crashed>>

HandlerClose ==
  /\ UNCHANGED <<events, meta, space, loop, dialog, history>>
  /\ \/ /\ handler = "close"
        /\ handler' = CloseTest(handler)
        /\ UNCHANGED <<player, torrent>>
     \/ /\ handler = "body"
        /\ CloseBody
        /\ handler' \in AfterBody
        /\ UNCHANGED torrent
     \/ /\ handler = "remove"
        /\ Remove
        /\ handler' = "done"
        /\ UNCHANGED player

LoopClose ==
  /\ UNCHANGED <<events, handler, meta, space, dialog, history>>
  /\ \/ /\ loop = "close"
        /\ loop' = CloseTest(loop)
        /\ UNCHANGED <<player, torrent>>
     \/ /\ loop = "body"
        /\ CloseBody
        /\ loop' \in AfterBody
        /\ UNCHANGED torrent
     \/ /\ loop = "remove"
        /\ Remove
        /\ loop' = "done"
        /\ UNCHANGED player
-----------------------------------------------------------------------------
(* processMetadata: ChooseFile fails, or the user picks nothing. *)
ChooseFail ==
  /\ meta = "choose"
  /\ Events!Write("err")
  /\ meta' = "done"
  /\ UNCHANGED <<handler, space, loop, dialog, player, history, torrent>>

ChooseFile ==
  /\ meta = "choose"
  /\ chosen' = TRUE
  /\ meta' = "files"
  /\ UNCHANGED <<events, handler, space, loop, dialog, background, hasDialog, canceled, files,
                 noSpace, played, closed, history, torrent>>

(* DownloadFileWithPriority and the database; a background download stops here. *)
DownloadFile ==
  /\ meta = "files"
  /\ files' = TRUE
  /\ meta' = IF background THEN "done" ELSE "buffer"
  /\ UNCHANGED <<events, handler, space, loop, dialog, background, hasDialog, canceled, chosen,
                 noSpace, played, closed, history, torrent>>

(* bufferFinishedEvent *)
BufferFinished ==
  /\ pieces' = FALSE
  /\ buffering' = FALSE
  /\ finished' = TRUE
  /\ ticker' = FALSE

(* Torrent.Buffer *)
Buffer ==
  /\ meta = "buffer"
  /\ meta' = "done"
  /\ IF dropped
     THEN BufferFinished
     ELSE /\ pieces' = TRUE
          /\ buffering' = TRUE
          /\ finished' = FALSE
          /\ ticker' = TRUE
  /\ UNCHANGED <<events, handler, space, loop, dialog, player, history, dropped, have, ticks,
                 finishes, finishing, watch, crashed>>

(* waitCheckAvailableSpace looks once, after 100 ms, and only if a file has *)
(* been chosen by then; it marks the player after it has sent the error.    *)
SpaceCheck ==
  /\ UNCHANGED <<handler, meta, loop, dialog, history, torrent>>
  /\ \/ /\ space = "wait" /\ chosen
        /\ Events!Write("err")
        /\ space' = "mark"
        /\ UNCHANGED player
     \/ /\ space = "wait"
        /\ space' = "done"
        /\ UNCHANGED <<events, player>>
     \/ /\ space = "mark"
        /\ noSpace' = TRUE
        /\ space' = "done"
        /\ UNCHANGED <<events, background, hasDialog, canceled, chosen, files, played, closed>>

-----------------------------------------------------------------------------
(* playerLoop: Listen, then go bufferDialog. *)
LoopListen ==
  /\ loop = "start"
  /\ Events!Subscribe("loop")
  /\ dialog' = "poll"
  /\ loop' = "wait"
  /\ UNCHANGED <<handler, meta, space, player, history, torrent>>

LoopBuffered ==
  /\ loop = "wait"
  /\ Events!Consume("loop")
  /\ loop' = IF got'["loop"] = <<"err">> THEN "close" ELSE "playwait"
  /\ UNCHANGED <<handler, meta, space, dialog, player, history, torrent>>

(* Kodi plays something, or nobody has to. *)
PlaybackStarts ==
  /\ loop = "playwait"
  /\ played' = ~background
  /\ loop' = "play"
  /\ UNCHANGED <<events, handler, meta, space, dialog, background, hasDialog, canceled, chosen,
                 files, noSpace, closed, history, torrent>>

PlaybackTimeout ==
  /\ loop = "playwait"
  /\ ~background
  /\ Events!Write("err")
  /\ loop' = "close"
  /\ UNCHANGED <<handler, meta, space, dialog, player, history, torrent>>

PlaybackStops ==
  /\ loop = "play"
  /\ loop' = "close"
  /\ UNCHANGED <<events, handler, meta, space, dialog, player, history, torrent>>

-----------------------------------------------------------------------------
(* bufferDialog, every half second: the player closes, the user cancels or  *)
(* the disk is full.                                                        *)
(*                                                                          *)
(* Mutant: a closing player is not noticed.                                 *)
AbandonedByUser == hasDialog /\ (canceled \/ noSpace)

Abandoned == hasDialog /\ (closed \/ canceled \/ noSpace)

DialogCancel ==
  /\ dialog = "poll"
  /\ Abandoned
  /\ Events!Write("err")
  /\ dialog' = "reset"
  /\ UNCHANGED <<handler, meta, space, loop, player, history, torrent>>

(* ResetBuffering *)
DialogReset ==
  /\ dialog = "reset"
  /\ dialog' = "done"
  /\ buffering' = FALSE
  /\ finished' = FALSE
  /\ pieces' = FALSE
  /\ UNCHANGED <<events, handler, meta, space, loop, player, history, dropped, have, ticker,
                 ticks, finishes, finishing, watch, crashed>>

(* updateBufferDialog, every second: nothing while the player closes, nor   *)
(* without a dialog before the buffer is complete.                          *)
(*                                                                          *)
(* Mutant: the update needs a dialog.                                       *)
DialogUpdateWithDialog ==
  /\ dialog = "poll"
  /\ ~closed
  /\ hasDialog /\ ~canceled
  /\ dialog' = "update"
  /\ UNCHANGED <<events, handler, meta, space, loop, player, history, torrent>>

DialogUpdate ==
  /\ dialog = "poll"
  /\ ~closed
  /\ finished \/ (hasDialog /\ ~canceled)
  /\ dialog' = "update"
  /\ UNCHANGED <<events, handler, meta, space, loop, player, history, torrent>>

(* Mutant: the dialog reports success without a look at IsBuffering. *)
DialogSignalUnchecked ==
  /\ dialog = "update"
  /\ Events!Write("ok")
  /\ dialog' = "done"
  /\ UNCHANGED <<handler, meta, space, loop, player, history, torrent>>

DialogSignal ==
  /\ dialog = "update"
  /\ IF buffering
     THEN dialog' = "poll" /\ UNCHANGED events
     ELSE dialog' = "done" /\ Events!Write("ok")
  /\ UNCHANGED <<handler, meta, space, loop, player, history, torrent>>

-----------------------------------------------------------------------------
(* bufferTickerEvent, some time after Buffer started the ticker: the lines  *)
(* of Player.Buffer before Listen take no second.                           *)
Tick ==
  /\ ticker /\ watch /\ ~dropped
  /\ handler \notin {"start", "spawned"}
  /\ buffering /\ pieces
  /\ IF have
     THEN /\ ticks + finishes + finishing < MaxTicks
          /\ ticks' = ticks + 1
          /\ UNCHANGED finished
     ELSE finished' = FALSE /\ UNCHANGED ticks
  /\ UNCHANGED <<events, handler, meta, space, loop, dialog, player, history, dropped, buffering,
                 pieces, have, ticker, finishes, finishing, watch, crashed>>

(* t.bufferFinished <- struct{}{}: the goroutine has passed the test of     *)
(* t.Closer, but Watch may have closed the channel since.                   *)
SendFinished ==
  /\ ticks > 0
  /\ ticks' = ticks - 1
  /\ IF watch
     THEN finishes < FinishedCap /\ finishes' = finishes + 1 /\ UNCHANGED crashed
     ELSE crashed' = TRUE /\ UNCHANGED finishes
  /\ UNCHANGED <<events, handler, meta, space, loop, dialog, player, history, dropped, buffering,
                 finished, pieces, have, ticker, finishing, watch>>

(* Watch: go bufferFinishedEvent. *)
WatchFinished ==
  /\ watch
  /\ finishes > 0
  /\ finishes' = finishes - 1
  /\ finishing' = finishing + 1
  /\ UNCHANGED <<events, handler, meta, space, loop, dialog, player, history, dropped, buffering,
                 finished, pieces, have, ticker, ticks, watch, crashed>>

FinishedEvent ==
  /\ finishing > 0
  /\ finishing' = finishing - 1
  /\ BufferFinished
  /\ UNCHANGED <<events, handler, meta, space, loop, dialog, player, history, dropped, have,
                 ticks, finishes, watch, crashed>>

WatchEnds ==
  /\ watch
  /\ dropped
  /\ watch' = FALSE
  /\ ticker' = FALSE
  /\ UNCHANGED <<events, handler, meta, space, loop, dialog, player, history, dropped, buffering,
                 finished, pieces, have, ticks, finishes, finishing, crashed>>

-----------------------------------------------------------------------------
(* The pieces of the buffer arrive. *)
Download ==
  /\ pieces /\ ~dropped
  /\ ~have
  /\ have' = TRUE
  /\ UNCHANGED <<events, handler, meta, space, loop, dialog, player, history, dropped, buffering,
                 finished, pieces, ticker, ticks, finishes, finishing, watch, crashed>>

(* The user presses Cancel in the dialog. *)
Cancel ==
  /\ hasDialog /\ ~canceled
  /\ handler = "wait"
  /\ canceled' = TRUE
  /\ UNCHANGED <<events, handler, meta, space, loop, dialog, background, hasDialog, chosen, files,
                 noSpace, played, closed, history, torrent>>

(* api RemoveTorrent, which forces the drop *)
RemoveByUser ==
  /\ ~dropped
  /\ dropped' = TRUE
  /\ removed' = TRUE
  /\ UNCHANGED <<events, handler, meta, space, loop, dialog, player, late, buffering, finished,
                 pieces, have, ticker, ticks, finishes, finishing, watch, crashed>>

Handler == BufferSpawn \/ BufferListen \/ BufferRun \/ BufferReturn \/ HandlerClose

Metadata == ChooseFail \/ ChooseFile \/ DownloadFile \/ Buffer

Loop == LoopListen \/ LoopBuffered \/ PlaybackStarts \/ PlaybackTimeout \/ PlaybackStops
        \/ LoopClose

Dialog == DialogCancel \/ DialogReset \/ DialogUpdate \/ DialogSignal

Watch == WatchFinished \/ WatchEnds

Steps == Handler \/ Metadata \/ SpaceCheck \/ Loop \/ Dialog \/ Watch
         \/ Tick \/ SendFinished \/ FinishedEvent \/ Download

Next == /\ ~crashed
        /\ Steps \/ Cancel \/ RemoveByUser

(* Every goroutine is scheduled, the pieces arrive, ChooseFile and the      *)
(* questions of RemoveTorrent are answered and playback ends.  Nobody has   *)
(* to cancel or to remove anything.                                         *)
Fairness ==
  /\ WF_vars(~crashed /\ Handler)
  /\ WF_vars(~crashed /\ Metadata)
  /\ WF_vars(~crashed /\ SpaceCheck)
  /\ WF_vars(~crashed /\ Loop)
  /\ WF_vars(~crashed /\ DialogCancel)
  /\ WF_vars(~crashed /\ (DialogReset \/ DialogUpdate \/ DialogSignal))
  /\ WF_vars(~crashed /\ Watch)
  /\ WF_vars(~crashed /\ Tick)
  /\ WF_vars(~crashed /\ SendFinished)
  /\ WF_vars(~crashed /\ FinishedEvent)
  /\ WF_vars(~crashed /\ Download)

Spec == Init /\ [][Next]_vars

FairSpec == Spec /\ Fairness

-----------------------------------------------------------------------------
(* The request is being played: its buffer has been reported complete to    *)
(* the handler, and playerLoop has not seen the end of playback.            *)
Served == /\ got["handler"] = <<"ok">> /\ chosen /\ ~background
          /\ loop \in {"wait", "playwait", "play"}

(* Kodi is sent to the file (api/play.go) only when the pieces it reads     *)
(* first have arrived, unless the user has removed the torrent.             *)
RedirectOnlyBuffered == handler = "redirect" => chosen /\ (have \/ removed)

(* While the request is being played nothing closes its player, and only    *)
(* the user can drop its torrent (Close, RemoveTorrent).                    *)
TornDownOnlyAfterPlayback == Served => ~closed /\ (dropped => removed)

(* A torrent of which no file was ever chosen does not outlive its request: *)
(* one of the two closers has removed it (Close, RemoveTorrent).            *)
GivenUpIsDropped ==
  handler = "done" /\ loop = "done" /\ ~background /\ ~files => dropped

(* A request gets its answer: Buffer does not wait for an event for ever,   *)
(* provided that it listened in time and nobody removed the torrent.        *)
EveryRequestAnswered ==
  (handler = "wait" /\ ~late) ~> (handler # "wait" \/ removed \/ crashed)

(* playerLoop, and with it the player, ends after a request was given up,   *)
(* when there is a dialog whose goroutine can report it.                    *)
LoopEnds == (closed /\ hasDialog) ~> (loop = "done" \/ crashed)
=============================================================================
