------------------------- MODULE BackgroundReaders --------------------------
(***************************************************************************)
(* How much disk one session's directory holds, measured by the daemon     *)
(* while an agent writes in it (daemon/disk-usage.ts): an asynchronous     *)
(* walk, a few directories read at once, stopped at a deadline, shared by  *)
(* all who ask meanwhile, its figure served until it is old.  Nothing is   *)
(* followed out of the tree; here it has a top and directories under it.   *)
(***************************************************************************)
EXTENDS Integers, FiniteSets, Sequences, SequencesExt, FiniteSetsExt

CONSTANTS SubDirs, Ttl, InfoAge, Deadline, Concurrency, MaxAsks, MaxTreeEdits, MaxDiskTime

VARIABLES
    dirs,       \* directory -> what it is and the bytes of its own files
    figure,     \* DiskTracker.cache: the last figure, or NoFigure
    walk,       \* the walk in flight, or NoWalk
    awaiting,   \* callers of measure who await it
    diskTime, diskAsks, treeEdits

diskVars == <<dirs, figure, walk, awaiting, diskTime, diskAsks, treeEdits>>

Dirs == {"top"} \cup SubDirs
DirStates == [is : {"there", "gone", "locked"}, bytes : 0..1]
NoFigure == [bytes |-> 0, approx |-> FALSE, at |-> -1, least |-> 0, most |-> 0]
NoWalk == [queue |-> <<>>, active |-> {}, bytes |-> 0, approx |-> FALSE, stopped |-> FALSE,
           began |-> -1, least |-> [d \in Dirs |-> 0], most |-> [d \in Dirs |-> 0]]

(* directorySize, of one directory's own files: what is gone counts as zero. *)
Holds(ds, d) == IF ds["top"].is = "gone" \/ ds[d].is = "gone" THEN 0 ELSE ds[d].bytes

(* measure, refresh: is there a figure young enough? *)
Fresh(age) == figure # NoFigure /\ diskTime - figure.at < age

-----------------------------------------------------------------------------
(* walk: up to `Concurrency` visits at once, the directory found last first;
   a visit that begins past the deadline ends the walk.                    *)
RECURSIVE PumpWalk(_)
PumpWalk(w) ==
    IF w.stopped \/ Cardinality(w.active) >= Concurrency \/ w.queue = <<>> THEN w
    ELSE LET popped == [w EXCEPT !.queue = Front(@)]
         IN  IF diskTime - w.began > Deadline
             THEN PumpWalk([popped EXCEPT !.stopped = TRUE, !.approx = TRUE])
             ELSE PumpWalk([popped EXCEPT !.active = @ \cup {Last(w.queue)}])

(* The ghosts `least` and `most`: what each directory held meanwhile. *)
WalkOfPath ==
    PumpWalk([NoWalk EXCEPT !.queue = <<"top">>, !.began = diskTime,
                        !.least = [d \in Dirs |-> Holds(dirs, d)], !.most = [d \in Dirs |-> Holds(dirs, d)]])

(* visit, from its readdir to its last size. *)
Visited(w, d) ==
    LET under == IF d = "top" /\ dirs["top"].is = "there"
                 THEN SetToSeq({s \in SubDirs : dirs[s].is # "gone"}) ELSE <<>>
        past == dirs[d].bytes > 0 /\ diskTime - w.began > Deadline
    IN  IF dirs["top"].is = "gone" \/ dirs[d].is = "gone" THEN w
        ELSE IF dirs[d].is = "locked" THEN [w EXCEPT !.approx = TRUE]
        ELSE [w EXCEPT !.queue = @ \o under, !.bytes = @ + (IF past THEN 0 ELSE dirs[d].bytes),
                       !.stopped = @ \/ past, !.approx = @ \/ past]

Done(w) == w.active = {} /\ (w.stopped \/ w.queue = <<>>)

VisitEnds(d) ==
    /\ d \in walk.active
    /\ LET w == PumpWalk([Visited(walk, d) EXCEPT !.active = @ \ {d}])
       IN  IF Done(w)
           THEN /\ figure' = [bytes |-> w.bytes, approx |-> w.approx, at |-> diskTime,
                              least |-> MapThenSumSet(LAMBDA s : w.least[s], Dirs),
                              most |-> MapThenSumSet(LAMBDA s : w.most[s], Dirs)]
                /\ walk' = NoWalk /\ awaiting' = 0
           ELSE walk' = w /\ UNCHANGED <<figure, awaiting>>
    /\ UNCHANGED <<dirs, diskTime, diskAsks, treeEdits>>

(* workspace.info awaits a figure a few seconds old at most: one served from
   the cache, of the walk in flight, or of a new one.                      *)
Measure ==
    /\ diskAsks < MaxAsks /\ diskAsks' = diskAsks + 1
    /\ IF Fresh(InfoAge) THEN UNCHANGED <<walk, awaiting>>
       ELSE /\ awaiting' = awaiting + 1
            /\ walk' = IF walk # NoWalk THEN walk ELSE WalkOfPath
    /\ UNCHANGED <<dirs, figure, diskTime, treeEdits>>

(* stats.overview answers with what is known, and starts what is not. *)
Overview ==
    /\ diskAsks < MaxAsks /\ diskAsks' = diskAsks + 1
    /\ walk' = IF walk # NoWalk \/ Fresh(Ttl) THEN walk ELSE WalkOfPath
    /\ UNCHANGED <<dirs, figure, awaiting, diskTime, treeEdits>>

(* workspace.gc: the figures are forgotten, a walk in flight goes on. *)
ClearFigures ==
    /\ figure # NoFigure /\ figure' = NoFigure
    /\ UNCHANGED <<dirs, walk, awaiting, diskTime, diskAsks, treeEdits>>

-----------------------------------------------------------------------------
(* An agent makes, fills, locks and removes a directory. *)
TreeChanges(d) ==
    /\ treeEdits < MaxTreeEdits /\ treeEdits' = treeEdits + 1
    /\ \E s \in DirStates :
          /\ s # dirs[d] /\ dirs' = [dirs EXCEPT ![d] = s]
          /\ walk' = IF walk = NoWalk THEN walk
                     ELSE [walk EXCEPT !.least = [e \in Dirs |-> Min({@[e], Holds(dirs', e)})],
                                       !.most = [e \in Dirs |-> Max({@[e], Holds(dirs', e)})]]
    /\ UNCHANGED <<figure, awaiting, diskTime, diskAsks>>

DiskTick == diskTime < MaxDiskTime /\ diskTime' = diskTime + 1
    /\ UNCHANGED <<dirs, figure, walk, awaiting, diskAsks, treeEdits>>

DiskInit ==
    /\ dirs = [d \in Dirs |-> [is |-> "there", bytes |-> 1]]
    /\ figure = NoFigure /\ walk = NoWalk /\ awaiting = 0
    /\ diskTime = 0 /\ diskAsks = 0 /\ treeEdits = 0

DiskNext ==
    \/ Measure \/ Overview \/ ClearFigures \/ DiskTick
    \/ \E d \in Dirs : VisitEnds(d) \/ TreeChanges(d)

DiskTypeOK ==
    /\ dirs \in [Dirs -> DirStates]
    /\ figure.bytes \in Nat /\ figure.approx \in BOOLEAN /\ figure.at \in -1..MaxDiskTime
    /\ walk.active \subseteq Dirs /\ Cardinality(walk.active) <= Concurrency /\ walk.bytes \in Nat
    /\ awaiting \in 0..MaxAsks
    /\ diskTime \in 0..MaxDiskTime /\ diskAsks \in 0..MaxAsks /\ treeEdits \in 0..MaxTreeEdits

(* A figure is never more than the tree held while it was walked, nor, unless
   it is said to be a lower bound, less: no directory is counted twice, none
   is left out unsaid (disk-usage.ts, "It never throws ... said so by
   `approx`; what vanished mid-walk counts as zero").                      *)
FigureIsHonest == figure.bytes <= figure.most /\ (figure.approx \/ figure.bytes >= figure.least)

(* Whoever awaits a figure gets one: a walk that is late or finds the tree
   gone still ends (disk-usage.ts, pump).                                  *)
WalksEnd == (awaiting > 0) ~> (awaiting = 0)

-----------------------------------------------------------------------------
(***************************************************************************)
(* What the rail says of each session's folder: how many files it changed  *)
(* (daemon/git-counts.ts) and which other sessions touch the same ones     *)
(* (daemon/overlap.ts).  Both are read in the background, one folder after *)
(* the other, through one short-lived cache of scans that keeps a scan     *)
(* still running too (daemon/repo-scan.ts), while agents write.            *)
(***************************************************************************)

CONSTANTS GitSessions, GitPaths, MaxFailures, MaxGitEdits

VARIABLES
    changedFiles,    \* session -> the paths its folder has changed
    gitReads,   \* session -> can git read its folder?
    listed,     \* the sessions there are
    scans,      \* promise -> the scan it stands for
    scanCache,  \* RepoScanner.cache: session -> its promise, and is it young?
    counter,    \* GitCounter: its run, if any, and whether the next may begin
    railCounts,     \* GitCounter.counts: session -> changed files, or NoCount
    reader,     \* a readNow under way: the session and the promise it awaits
    overlapper, \* OverlapTracker: likewise, and the paths it has read in the run
    overlaps,   \* OverlapTracker.overlaps: session -> the sessions it overlaps with
    consecutiveFailures,
    since,      \* ghost: which runs and figures are wholly of after the last change
    gitEdits

figuresVars == <<changedFiles, gitReads, listed, scans, scanCache, counter, railCounts, reader,
             overlapper, overlaps, consecutiveFailures, since, gitEdits>>

NoCount == -1
Promises == GitSessions \X (1..3)
(* Ghost `fresh`: the folder was read after the last change. *)
NoScan == [is |-> "free", paths |-> {}, fresh |-> FALSE]
Reading == [is |-> "reading", paths |-> {}, fresh |-> TRUE]
AllOld == [count |-> FALSE, counts |-> FALSE, compare |-> FALSE, overlaps |-> FALSE, abandoned |-> 0]
NoEntry == [slot |-> 0, young |-> FALSE]
NobodyReads == <<>>
IdleRun == [on |-> FALSE, left |-> <<>>, slot |-> 0]
NothingRead == [s \in GitSessions |-> {}]

Held(s) ==      \* the promises for the folder that somebody awaits
    {r.slot : r \in {q \in {counter, overlapper.run} : q.on /\ Head(q.left) = s}}
    \cup {r[2] : r \in {q \in {reader} : q # NobodyReads /\ q[1] = s}}

(* Those who await a promise go on before anything else happens. *)
Quiet ==
    \A s \in GitSessions : \A k \in Held(s) : scans[<<s, k>>].is \notin {"read", "null"}

(* RepoScanner.scan: the promise cached for the folder, or a new scan's. *)
Slot(s) ==
    IF scanCache[s].young THEN scanCache[s].slot
    ELSE CHOOSE k \in 1..3 : k \notin Held(s)

Scanned(ss) ==      \* the cache after asking for the folders ss
    /\ scanCache' = [s \in GitSessions |->
                        IF s \in ss THEN [slot |-> Slot(s), young |-> TRUE] ELSE scanCache[s]]
    /\ scans' = [p \in Promises |->
                    IF p[1] \in ss /\ p[2] = Slot(p[1]) /\ ~scanCache[p[1]].young
                    THEN Reading
                    ELSE IF p[2] \in Held(p[1]) \cup {scanCache[p[1]].slot} THEN scans[p] ELSE NoScan]

(* readRepoScan: git reads the folder, and its answer comes later. *)
ScanReads(p) ==
    /\ Quiet /\ scans[p] = Reading
    /\ scans' = [scans EXCEPT ![p] = [is |-> IF gitReads[p[1]] THEN "gathered" ELSE "failed",
                                      paths |-> IF gitReads[p[1]] THEN changedFiles[p[1]] ELSE {},
                                      fresh |-> TRUE]]
    /\ UNCHANGED <<changedFiles, gitReads, listed, scanCache, counter, railCounts, reader,
                   overlapper, overlaps, consecutiveFailures, since, gitEdits>>

ScanAnswers(p) ==
    /\ Quiet /\ scans[p].is \in {"gathered", "failed"}
    /\ scans' = [scans EXCEPT ![p].is = IF @ = "gathered" THEN "read" ELSE "null"]
    /\ UNCHANGED <<changedFiles, gitReads, listed, scanCache, counter, railCounts, reader,
                   overlapper, overlaps, consecutiveFailures, since, gitEdits>>

ScanAnswer(s, slot) == scans[<<s, slot>>]
Counted(s, a) == [railCounts EXCEPT ![s] = IF a.is = "null" THEN NoCount ELSE Cardinality(a.paths)]

(* domain/overlap.ts: who shares a path with s. *)
overlapPairs(got) == [s \in GitSessions |-> {o \in GitSessions \ {s} : got[s] \cap got[o] # {}}]

-----------------------------------------------------------------------------
(* session.list asks for both refreshes in one step; each runs if it is idle
   and its interval passed (which `counting` and `comparing` leave open), and
   asks for its first folder at once.                                      *)
Begun ==
    IF listed = {} THEN IdleRun
    ELSE LET list == SetToSeq(listed) IN [on |-> TRUE, left |-> list, slot |-> Slot(list[1])]

SessionList(counting, comparing) ==
    /\ Quiet /\ (counting \/ comparing)
    /\ (counting => ~counter.on) /\ (comparing => ~overlapper.run.on)
    /\ LET first == IF listed = {} THEN {} ELSE {SetToSeq(listed)[1]}
       IN
        /\ counter' = IF counting THEN Begun ELSE counter
        /\ railCounts' = IF counting THEN [s \in GitSessions |-> IF s \in listed THEN railCounts[s] ELSE NoCount]
                     ELSE railCounts
        /\ overlapper' = IF comparing THEN [run |-> Begun, got |-> NothingRead] ELSE overlapper
        /\ consecutiveFailures' =
              IF comparing THEN [s \in GitSessions |-> IF s \in listed THEN consecutiveFailures[s] ELSE 0]
              ELSE consecutiveFailures
        /\ overlaps' = IF comparing /\ listed = {} THEN overlapPairs(NothingRead) ELSE overlaps
        /\ Scanned(first)
        /\ since' = [since EXCEPT !.count = @ \/ counting, !.counts = @ \/ (counting /\ first = {}),
                                 !.compare = @ \/ comparing, !.overlaps = @ \/ (comparing /\ first = {})]
    /\ UNCHANGED <<changedFiles, gitReads, listed, reader, gitEdits>>

(* A run goes on to its next folder, or ends. *)
Onward(run) ==
    IF Len(run.left) = 1 THEN [run EXCEPT !.on = FALSE, !.left = <<>>, !.slot = 0]
    ELSE [run EXCEPT !.left = Tail(@), !.slot = Slot(run.left[2])]
NextFolder(run) == IF Len(run.left) = 1 THEN {} ELSE {run.left[2]}

(* GitCounter.refresh after an await: the session's counts are stored, though
   it may be gone by now.                                                  *)
CounterGoesOn ==
    /\ counter.on
    /\ LET s == Head(counter.left) a == ScanAnswer(s, counter.slot)
       IN  /\ a.is \in {"read", "null"}
           /\ railCounts' = Counted(s, a)
           /\ since' = [since EXCEPT !.count = @ /\ a.fresh,
                             !.counts = (@ \/ (since.count /\ Len(counter.left) = 1)) /\ a.fresh]
    /\ counter' = Onward(counter) /\ Scanned(NextFolder(counter))
    /\ UNCHANGED <<changedFiles, gitReads, listed, reader, overlapper, overlaps, consecutiveFailures, gitEdits>>

(* OverlapTracker.refresh after an await: a folder that could not be read ends
   the run and keeps the picture, until it has failed so often that it alone
   is left out.                                                            *)
OverlapGoesOn ==
    /\ overlapper.run.on
    /\ LET s == Head(overlapper.run.left)
           a == ScanAnswer(s, overlapper.run.slot)
           failures == consecutiveFailures[s] + 1
           got == [overlapper.got EXCEPT ![s] = a.paths]
           abandoned == a.is = "null" /\ failures < MaxFailures
           run == IF abandoned THEN [overlapper.run EXCEPT !.on = FALSE, !.left = <<>>, !.slot = 0]
                  ELSE Onward(overlapper.run)
       IN  /\ a.is \in {"read", "null"}
           /\ consecutiveFailures' = [consecutiveFailures EXCEPT ![s] =
                    IF a.is = "null" THEN Min({failures, MaxFailures}) ELSE 0]
           /\ overlapper' = [run |-> run, got |-> IF run.on THEN got ELSE NothingRead]
           /\ overlaps' = IF run.on \/ abandoned THEN overlaps ELSE overlapPairs(got)
           /\ since' = [since EXCEPT !.compare = @ /\ a.fresh,
                             !.overlaps = IF run.on \/ abandoned THEN @ ELSE since.compare /\ a.fresh,
                             !.abandoned = IF abandoned THEN @ + 1 ELSE IF run.on THEN @ ELSE 0]
           /\ Scanned(IF abandoned THEN {} ELSE NextFolder(overlapper.run))
    /\ UNCHANGED <<changedFiles, gitReads, listed, counter, railCounts, reader, gitEdits>>

(* readNow, for a check that ends: no throttle, the same cache of scans. *)
ReadNow(s) ==
    /\ Quiet /\ reader = NobodyReads /\ s \in listed /\ gitEdits < MaxGitEdits /\ gitEdits' = gitEdits + 1
    /\ reader' = <<s, Slot(s)>> /\ Scanned({s})
    /\ UNCHANGED <<changedFiles, gitReads, listed, counter, railCounts, overlapper, overlaps,
                   consecutiveFailures, since>>

ReadNowEnds ==
    /\ reader # NobodyReads
    /\ LET a == ScanAnswer(reader[1], reader[2])
       IN  /\ a.is \in {"read", "null"} /\ railCounts' = Counted(reader[1], a)
           /\ since' = [since EXCEPT !.count = @ /\ a.fresh /\ reader[1] \in listed,
                             !.counts = @ /\ a.fresh /\ reader[1] \in listed]
    /\ reader' = NobodyReads
    /\ UNCHANGED <<changedFiles, gitReads, listed, scans, scanCache, counter, overlapper, overlaps,
                   consecutiveFailures, gitEdits>>

-----------------------------------------------------------------------------
(* Time passes: a scan is no longer young. *)
ScanAges(s) ==
    /\ Quiet /\ scanCache[s].young /\ scanCache' = [scanCache EXCEPT ![s].young = FALSE]
    /\ UNCHANGED <<changedFiles, gitReads, listed, scans, counter, railCounts, reader, overlapper,
                   overlaps, consecutiveFailures, since, gitEdits>>

(* An agent changes a file or changes it back; git fails or works again; a
   session goes.                                                           *)
FolderChanges(s) ==
    /\ Quiet /\ gitEdits < MaxGitEdits /\ gitEdits' = gitEdits + 1
    /\ \/ \E f \in GitPaths :
             /\ changedFiles' = [changedFiles EXCEPT ![s] = IF f \in @ THEN @ \ {f} ELSE @ \cup {f}]
             /\ UNCHANGED <<gitReads, listed>>
       \/ gitReads' = [gitReads EXCEPT ![s] = ~@] /\ UNCHANGED <<changedFiles, listed>>
       \/ s \in listed /\ listed' = listed \ {s} /\ UNCHANGED <<changedFiles, gitReads>>
    /\ scans' = [p \in Promises |-> [scans[p] EXCEPT !.fresh = scans[p] = Reading]]
    /\ since' = AllOld
    /\ UNCHANGED <<scanCache, counter, railCounts, reader, overlapper, overlaps, consecutiveFailures>>

GitInit ==
    /\ changedFiles = [s \in GitSessions |-> GitPaths] /\ gitReads = [s \in GitSessions |-> TRUE]
    /\ listed = GitSessions
    /\ scans = [p \in Promises |-> NoScan] /\ scanCache = [s \in GitSessions |-> NoEntry]
    /\ counter = IdleRun /\ railCounts = [s \in GitSessions |-> NoCount] /\ reader = NobodyReads
    /\ overlapper = [run |-> IdleRun, got |-> NothingRead]
    /\ overlaps = overlapPairs(NothingRead)
    /\ consecutiveFailures = [s \in GitSessions |-> 0] /\ since = AllOld /\ gitEdits = 0

GitNext ==
    \/ \E counting, comparing \in BOOLEAN : SessionList(counting, comparing)
    \/ CounterGoesOn \/ OverlapGoesOn \/ ReadNowEnds
    \/ \E p \in Promises : ScanReads(p) \/ ScanAnswers(p)
    \/ \E s \in GitSessions : ReadNow(s) \/ ScanAges(s) \/ FolderChanges(s)

GitTypeOK ==
    /\ changedFiles \in [GitSessions -> SUBSET GitPaths] /\ listed \subseteq GitSessions
    /\ scans \in [Promises -> [is : {"free", "reading", "gathered", "failed", "read", "null"}, paths : SUBSET GitPaths,
                           fresh : BOOLEAN]]
    /\ scanCache \in [GitSessions -> [slot : 0..3, young : BOOLEAN]]
    /\ railCounts \in [GitSessions -> Int] /\ overlaps \in [GitSessions -> SUBSET GitSessions]
    /\ consecutiveFailures \in [GitSessions -> 0..MaxFailures]

(* Once the folders stand still, the first run of reads that are all of later
   says what is in them, whatever was begun before: of each session git can
   read, how many files (git-counts.ts), and which others touch the same ones,
   a folder that cannot be read holding up the others for a few runs only
   (overlap.ts, "everyone else keeps updating instead of staying stuck on the
   last good picture forever").                                            *)
FiguresSettle ==
    LET seen == [s \in GitSessions |-> IF s \in listed /\ gitReads[s] THEN changedFiles[s] ELSE {}]
    IN  /\ since.counts => railCounts = [s \in GitSessions |->
                IF s \in listed /\ gitReads[s] THEN Cardinality(seen[s]) ELSE NoCount]
        /\ since.overlaps => overlaps = overlapPairs(seen)
        /\ since.abandoned <= (MaxFailures - 1) * Cardinality(GitSessions)
=============================================================================
