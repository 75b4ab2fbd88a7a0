--------------------------- MODULE ProviderSearch ---------------------------
(***************************************************************************)
(* A search over provider add-ons (providers/search.go, providers/xbmc.go).*)
(*                                                                         *)
(*   call      AddonSearcher.call, one goroutine per provider: registers a *)
(*             callback, starts the add-on, waits for its post or a timeout*)
(*   post      CallbackHandler, the HTTP handler of that post              *)
(*   main      processLinks: collects links, starts a resolver for each,   *)
(*             waits for them all, merges what has the same info hash      *)
(*   resolver  per link: waits for TorrentFile.Resolve, at most            *)
(*             trackerTimeout * 2, then reports progress                   *)
(*   updater   shows the reported progress, unless the search is silent    *)
(*                                                                         *)
(* progressUpdate is unbuffered: a report is a step of two goroutines.     *)
(* Time is discrete and goroutines that can run do so before time passes.  *)
(* The names are chosen so that a module can extend Playback as well.      *)
(***************************************************************************)
EXTENDS Naturals, Sequences

CONSTANTS
  Providers,
  Links,        \* the torrents that providers may return
  ProviderOf,   \* per link: its provider
  HashOf,       \* per link: its info hash
  Private,      \* links of private trackers
  Magnets,      \* links whose URI is a magnet
  Known,        \* links that came with their info hash
  Quality,      \* per link: its resolution, which stands for codec and rip type too
  Seeds,        \* per link: its seeds
  Timeout,      \* trackerTimeout * 2
  Silent,       \* the isSilent of SearchMovieSilent
  NoDialog      \* NewDialogProgressBG may return nil

ASSUME SearchAssumption ==
  /\ ProviderOf \in [Links -> Providers]
  /\ Quality \in [Links -> Nat]
  /\ Seeds \in [Links -> Nat]
  /\ Private \subseteq Links /\ Magnets \subseteq Links /\ Known \subseteq Links
  /\ Timeout \in Nat \ {0}
  /\ Silent \in BOOLEAN /\ NoDialog \in BOOLEAN

VARIABLES
  callbacks,   \* the providers whose channel is in the map
  call,        \* per provider: "wait", then "send" until the links are sent
  post,        \* per provider: "none", "found", "removed", "done"
  box,         \* per provider: its channel of capacity 1 is full
  accepted,    \* per provider: the links that call returned
  toSend,      \* per provider: those it has not sent yet
  main,        \* "collect", "start", "wait", "merge", "done"
  torrents,    \* the links received, in order
  progressDialog,   \* dialogProgressBG is not nil
  outcome,     \* per link: of its Resolve: "none", "ok", "failed"
  resolver,    \* per link: "none", "wait", "report", "reported", "gaveup"
  age,         \* per link: since its resolver started
  updater,     \* "none", "run", "done"
  idle,        \* since the last report or the start of the updater
  progressClosed,   \* progressUpdate is closed
  passed,      \* how many of torrents the merging loop has passed
  result       \* torrentsMap

calls == <<callbacks, call, post, box, accepted, toSend>>
resolving == <<outcome, resolver, age, updater, idle>>
merging == <<progressClosed, passed, result>>
searchVars == <<calls, main, torrents, progressDialog, resolving, merging>>

Key(l) == IF l \in Private THEN <<HashOf[l], ProviderOf[l]>> ELSE <<HashOf[l]>>

(* What a merged torrent is made of: the link it was made for and those     *)
(* that its name, its seeds and its URI come from, and all its providers.   *)
Merged == [of : Links, name : Links, seeds : Links, uri : Links, from : SUBSET Providers]

SearchTypeOK ==
  /\ callbacks \subseteq Providers
  /\ call \in [Providers -> {"wait", "send"}]
  /\ post \in [Providers -> {"none", "found", "removed", "done"}]
  /\ box \in [Providers -> BOOLEAN]
  /\ accepted \in [Providers -> SUBSET Links]
  /\ toSend \in [Providers -> SUBSET Links]
  /\ main \in {"collect", "start", "wait", "merge", "done"}
  /\ torrents \in Seq(Links)
  /\ \A i, j \in DOMAIN torrents : torrents[i] = torrents[j] => i = j
  /\ progressDialog \in BOOLEAN
  /\ outcome \in [Links -> {"none", "ok", "failed"}]
  /\ resolver \in [Links -> {"none", "wait", "report", "reported", "gaveup"}]
  /\ age \in [Links -> 0 .. Timeout]
  /\ updater \in {"none", "run", "done"}
  /\ idle \in 0 .. Timeout
  /\ progressClosed \in BOOLEAN
  /\ passed \in 0 .. Len(torrents)
  /\ \A k \in DOMAIN result : result[k] \in Merged

(* Every provider goroutine has called GetCallback and ExecuteAddon. *)
SearchInit ==
  /\ callbacks = Providers
  /\ call = [p \in Providers |-> "wait"]
  /\ post = [p \in Providers |-> "none"]
  /\ box = [p \in Providers |-> FALSE]
  /\ accepted = [p \in Providers |-> {}]
  /\ toSend = [p \in Providers |-> {}]
  /\ main = "collect"
  /\ torrents = <<>>
  /\ progressDialog = FALSE
  /\ outcome = [l \in Links |-> "none"]
  /\ resolver = [l \in Links |-> "none"]
  /\ age = [l \in Links |-> 0]
  /\ updater = "none"
  /\ idle = 0
  /\ progressClosed = FALSE
  /\ passed = 0
  /\ result = <<>>

-----------------------------------------------------------------------------
(* CallbackHandler: the add-on posts its links, once; the callback may be   *)
(* gone by then.                                                            *)
PostFind(p) ==
  /\ post[p] = "none"
  /\ post' = [post EXCEPT ![p] = IF p \in callbacks THEN "found" ELSE "done"]
  /\ UNCHANGED <<callbacks, call, box, accepted, toSend, main, torrents, progressDialog, resolving,
                 merging>>

PostRemove(p) ==
  /\ post[p] = "found"
  /\ callbacks' = callbacks \ {p}
  /\ post' = [post EXCEPT ![p] = "removed"]
  /\ UNCHANGED <<call, box, accepted, toSend, main, torrents, progressDialog, resolving, merging>>

(* Mutant: a channel without a buffer, so that only a caller that still     *)
(* waits can take the body.                                                 *)
PostSendUnbuffered(p) ==
  /\ post[p] = "removed"
  /\ call[p] = "wait"
  /\ box' = [box EXCEPT ![p] = TRUE]
  /\ post' = [post EXCEPT ![p] = "done"]
  /\ UNCHANGED <<callbacks, call, accepted, toSend, main, torrents, progressDialog, resolving, merging>>

PostSend(p) ==
  /\ post[p] = "removed"
  /\ ~box[p]
  /\ box' = [box EXCEPT ![p] = TRUE]
  /\ post' = [post EXCEPT ![p] = "done"]
  /\ UNCHANGED <<callbacks, call, accepted, toSend, main, torrents, progressDialog, resolving, merging>>

(* call, case result := <-c: the links of a body, none if it is no JSON. *)
CallAnswered(p) ==
  /\ call[p] = "wait"
  /\ box[p]
  /\ box' = [box EXCEPT ![p] = FALSE]
  /\ \E links \in SUBSET {l \in Links : ProviderOf[l] = p} :
       /\ accepted' = [accepted EXCEPT ![p] = links]
       /\ toSend' = [toSend EXCEPT ![p] = links]
  /\ call' = [call EXCEPT ![p] = "send"]
  /\ UNCHANGED <<callbacks, post, main, torrents, progressDialog, resolving, merging>>

(* call, case <-time.After(timeout): too slow, ignored. *)
CallTimeout(p) ==
  /\ call[p] = "wait"
  /\ callbacks' = callbacks \ {p}
  /\ call' = [call EXCEPT ![p] = "send"]
  /\ UNCHANGED <<post, box, accepted, toSend, main, torrents, progressDialog, resolving, merging>>

-----------------------------------------------------------------------------
(* torrentsChan <- torrent, and a resolver for it. *)
Collect(l) ==
  /\ main = "collect"
  /\ \E p \in Providers : /\ l \in toSend[p]
                          /\ toSend' = [toSend EXCEPT ![p] = @ \ {l}]
  /\ torrents' = Append(torrents, l)
  /\ resolver' = [resolver EXCEPT ![l] = "wait"]
  /\ UNCHANGED <<callbacks, call, post, box, accepted, main, progressDialog, outcome, age, updater, idle,
                 merging>>

(* Mutant: the channel is closed as soon as one provider is through. *)
CollectEndEarly ==
  /\ main = "collect"
  /\ \E p \in Providers : call[p] = "send" /\ toSend[p] = {}
  /\ main' = "start"
  /\ UNCHANGED <<calls, torrents, progressDialog, resolving, merging>>

(* wg.Wait of the providers, close(torrentsChan) and the end of the range. *)
CollectEnd ==
  /\ main = "collect"
  /\ \A p \in Providers : call[p] = "send" /\ toSend[p] = {}
  /\ main' = "start"
  /\ UNCHANGED <<calls, torrents, progressDialog, resolving, merging>>

(* NewDialogProgressBG and go updater. *)
StartUpdater ==
  /\ main = "start"
  /\ main' = "wait"
  /\ IF Silent
     THEN UNCHANGED <<progressDialog, updater>>
     ELSE /\ progressDialog' \in (IF NoDialog THEN BOOLEAN ELSE {TRUE})
          /\ updater' = "run"
  /\ UNCHANGED <<calls, torrents, outcome, resolver, age, idle, merging>>

(* Mutant: nobody waits for the resolvers. *)
ResolversNotAwaited ==
  /\ main = "wait"
  /\ main' = "merge"
  /\ UNCHANGED <<calls, torrents, progressDialog, resolving, merging>>

(* wg.Wait of the resolvers. *)
ResolversDone ==
  /\ main = "wait"
  /\ \A l \in Links : resolver[l] \in {"none", "reported", "gaveup"}
  /\ main' = "merge"
  /\ UNCHANGED <<calls, torrents, progressDialog, resolving, merging>>

-----------------------------------------------------------------------------
New(l) == [of |-> l, name |-> l, seeds |-> l, uri |-> l, from |-> {ProviderOf[l]}]

(* Mutant: the last torrent with the same hash gives the seeds. *)
JoinLastSeeds(m, l) ==
  [m EXCEPT !.name  = IF Quality[l] > Quality[@] THEN l ELSE @,
            !.seeds = l,
            !.uri   = IF @ \in Magnets /\ l \notin Magnets THEN l ELSE @,
            !.from  = @ \cup {ProviderOf[l]}]

(* Another torrent with the same hash: the best of both. *)
Join(m, l) ==
  [m EXCEPT !.name  = IF Quality[l] > Quality[@] THEN l ELSE @,
            !.seeds = IF Seeds[l] > Seeds[@] THEN l ELSE @,
            !.uri   = IF @ \in Magnets /\ l \notin Magnets THEN l ELSE @,
            !.from  = @ \cup {ProviderOf[l]}]

Add(map, l) ==
  LET m == IF Key(l) \in DOMAIN map THEN Join(map[Key(l)], l) ELSE New(l)
  IN [k \in DOMAIN map \cup {Key(l)} |-> IF k = Key(l) THEN m ELSE map[k]]

HasHash(l) == l \in Known \/ outcome[l] = "ok"

(* The loop over torrents: what has no info hash by now is left out, though *)
(* its Resolve may still return.                                            *)
MergeNext ==
  /\ main = "merge"
  /\ passed < Len(torrents)
  /\ passed' = passed + 1
  /\ result' = LET l == torrents[passed + 1]
               IN IF HasHash(l) THEN Add(result, l) ELSE result
  /\ UNCHANGED <<calls, main, torrents, progressDialog, resolving, progressClosed>>

(* The end of processLinks: the deferred close of progressUpdate. *)
MergeEnd ==
  /\ main = "merge"
  /\ passed = Len(torrents)
  /\ progressClosed' = TRUE
  /\ main' = "done"
  /\ UNCHANGED <<calls, torrents, progressDialog, resolving, passed, result>>

-----------------------------------------------------------------------------
(* TorrentFile.Resolve succeeds or fails, before the timeout or when its    *)
(* resolver has gone.                                                       *)
Resolve(l) ==
  /\ resolver[l] \in {"wait", "gaveup"}
  /\ outcome[l] = "none"
  /\ resolver[l] = "wait" => age[l] < Timeout
  /\ \E o \in {"ok", "failed"} : outcome' = [outcome EXCEPT ![l] = o]
  /\ UNCHANGED <<calls, main, torrents, progressDialog, resolver, age, updater, idle, merging>>

(* After close(failed) and close(resolved) the select takes either. *)
Resolved(l) ==
  /\ resolver[l] = "wait"
  /\ outcome[l] # "none"
  /\ resolver' = [resolver EXCEPT ![l] = IF progressClosed THEN "gaveup" ELSE "report"]
  /\ UNCHANGED <<calls, main, torrents, progressDialog, outcome, age, updater, idle, merging>>

GiveUp(l) ==
  /\ resolver[l] = "wait"
  /\ outcome[l] = "failed" \/ (outcome[l] = "none" /\ age[l] = Timeout)
  /\ resolver' = [resolver EXCEPT ![l] = "gaveup"]
  /\ UNCHANGED <<calls, main, torrents, progressDialog, outcome, age, updater, idle, merging>>

(* Mutant: the updater ends with its first message. *)
ReportOnce(l) ==
  /\ resolver[l] = "report"
  /\ updater = "run"
  /\ resolver' = [resolver EXCEPT ![l] = "reported"]
  /\ idle' = 0
  /\ updater' = "done"
  /\ UNCHANGED <<calls, main, torrents, progressDialog, outcome, age, merging>>

(* progressUpdate <- and the updater, which returns if it has no dialog. *)
Report(l) ==
  /\ resolver[l] = "report"
  /\ updater = "run"
  /\ resolver' = [resolver EXCEPT ![l] = "reported"]
  /\ idle' = 0
  /\ updater' = IF progressDialog THEN "run" ELSE "done"
  /\ UNCHANGED <<calls, main, torrents, progressDialog, outcome, age, merging>>

UpdaterEnds ==
  /\ updater = "run"
  /\ progressClosed \/ idle = Timeout
  /\ updater' = "done"
  /\ UNCHANGED <<calls, main, torrents, progressDialog, outcome, resolver, age, idle, merging>>

(* A goroutine that watches the clock has something else to do first. *)
Urgent ==
  \/ \E l \in Links : \/ resolver[l] = "wait" /\ (outcome[l] # "none" \/ age[l] = Timeout)
                      \/ resolver[l] = "report" /\ updater = "run"
  \/ main = "start"

TimePasses ==
  /\ ~Urgent
  /\ age' = [l \in Links |-> IF resolver[l] = "wait" THEN age[l] + 1 ELSE age[l]]
  /\ idle' = IF updater = "run" /\ idle < Timeout THEN idle + 1 ELSE idle
  /\ <<age, idle>>' # <<age, idle>>
  /\ UNCHANGED <<calls, main, torrents, progressDialog, outcome, resolver, updater, merging>>

Provider(p) == PostRemove(p) \/ PostSend(p) \/ CallAnswered(p) \/ CallTimeout(p)

Main == CollectEnd \/ StartUpdater \/ ResolversDone \/ MergeNext \/ MergeEnd

Resolver(l) == Collect(l) \/ Resolved(l) \/ GiveUp(l) \/ Report(l)

SearchNext ==
  \/ \E p \in Providers : PostFind(p) \/ Provider(p)
  \/ Main
  \/ \E l \in Links : Resolver(l) \/ Resolve(l)
  \/ UpdaterEnds
  \/ TimePasses

(* Goroutines and the clock run; no add-on has to answer and no Resolve to  *)
(* return.                                                                  *)
SearchFairness ==
  /\ \A p \in Providers : /\ WF_searchVars(PostRemove(p) \/ PostSend(p))
                          /\ WF_searchVars(CallAnswered(p) \/ CallTimeout(p))
  /\ WF_searchVars(Main)
  /\ \A l \in Links : WF_searchVars(Resolver(l))
  /\ WF_searchVars(UpdaterEnds)
  /\ WF_searchVars(TimePasses)

SearchSpec == SearchInit /\ [][SearchNext]_searchVars

FairSearchSpec == SearchSpec /\ SearchFairness

-----------------------------------------------------------------------------
(* The info hash was there when the resolvers were done. *)
InTime(l) == l \in Known \/ (resolver[l] = "reported" /\ outcome[l] = "ok")

(* What every provider returned is in the result, however the others fare,  *)
(* if its info hash was known or resolved in time.                          *)
NothingInTimeIsLost ==
  main = "done" =>
    \A p \in Providers : \A l \in accepted[p] : InTime(l) => Key(l) \in DOMAIN result

(* The merged torrent is the best of its group whatever order the links     *)
(* arrived in: its name has the best resolution, its seeds are the most,    *)
(* its URI is a magnet only if all are, and every provider is named.        *)
BestFor(m, l) ==
  /\ ProviderOf[l] \in m.from
  /\ Quality[l] <= Quality[m.name]
  /\ Seeds[l] <= Seeds[m.seeds]
  /\ m.uri \in Magnets => l \in Magnets

MergedIsBest ==
  main = "done" =>
    \A k \in DOMAIN result : \A i \in DOMAIN torrents :
      LET l == torrents[i] IN Key(l) = k /\ InTime(l) => BestFor(result[k], l)

(* Nobody sends on progressUpdate after its close, which would panic. *)
NoReportAfterClose == progressClosed => \A l \in Links : resolver[l] # "report"

(* "make sure we don't block clients when we write on it" (GetCallback): an *)
(* add-on that posts too late is not kept waiting.                          *)
PostsReturn == \A p \in Providers : (post[p] # "none") ~> (post[p] = "done")

(* "Resolve timeout..." (processLinks): no torrent holds the search up for  *)
(* ever, so it ends.                                                        *)
SearchEnds == <>(main = "done")
=============================================================================
