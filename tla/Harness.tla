------------------------------- MODULE Harness -------------------------------
(***************************************************************************)
(* The measurement scripts of BESS (bess/cbr.sh, imix.sh, poisson.sh,      *)
(* varied_rate.sh, start_bess.sh) as the *_data_collection.sh loops run    *)
(* them one after another.  The scripts find the processes they started    *)
(* by name, never by number, and wait for fixed times only; meanwhile the  *)
(* daemon, perf and MoonGen start, exit and crash on their own.            *)
(***************************************************************************)
EXTENDS Naturals

CONSTANTS MaxRuns    \* measurements of the loop

ASSUME RunsAssumption == MaxRuns \in Nat \ {0}

Runs == 1 .. MaxRuns
Scripts == {"cbr", "varied_rate"}   \* imix.sh and poisson.sh step like cbr.sh
Steps == {"start", "run_file", "perf", "moongen", "sleep", "kill_perf",
          "kill_moongen", "kill_bessd", "done"}

VARIABLES
    pc, run, script,  \* where the script is, and which measurement it is in
    bessd,            \* daemons: the run that started each, does it have a pipeline,
                      \* has it been told to stop?
    perf,             \* perf processes: their run and the runs of the daemons watched
    MoonGen,          \* generators: their run, are they up and named MoonGen yet?
    crashed,          \* runs in which the daemon, perf or MoonGen gave up by itself
    idle,             \* runs whose daemon was left without a pipeline
    complete          \* runs whose perf saw the daemon forward the load to the end

loopVars == <<pc, run, script, bessd, perf, MoonGen, crashed, idle, complete>>
procs == <<bessd, perf, MoonGen>>
history == <<crashed, idle, complete>>

LoopInit ==
    /\ pc = "start" /\ run = 1 /\ script \in Scripts
    /\ bessd = {} /\ perf = {} /\ MoonGen = {}
    /\ crashed = {} /\ idle = {} /\ complete = {}

-----------------------------------------------------------------------------
(* start_bess.sh.                                                          *)

\* Mutant: one attempt, whatever comes of it.
StartFails_once ==
    /\ pc = "start"
    /\ pc' = "run_file"
    /\ UNCHANGED <<run, script, procs, history>>

\* An attempt fails while another daemon holds the pid file, or for a reason
\* of its own; the loop tries again.
StartFails ==
    /\ pc = "start"
    /\ UNCHANGED loopVars

StartOk ==
    /\ pc = "start" /\ bessd = {}
    /\ bessd' = {[run |-> run, loaded |-> FALSE, stopping |-> FALSE]}
    /\ pc' = "run_file"
    /\ UNCHANGED <<run, script, perf, MoonGen, history>>

\* bessctl run file gives the daemon its pipeline, or fails.  The script ends
\* with it and nobody looks at its status.
RunFile ==
    /\ pc = "run_file"
    /\ \/ bessd' = {[d EXCEPT !.loaded = TRUE] : d \in bessd} /\ UNCHANGED idle
       \/ bessd # {} /\ UNCHANGED bessd /\ idle' = idle \cup {run}
    /\ pc' = "perf"
    /\ UNCHANGED <<run, script, perf, MoonGen, crashed, complete>>

-----------------------------------------------------------------------------
(* cbr.sh and the others.                                                  *)

\* perf -p `pidof bessd`: without a daemon perf refuses its arguments.
StartPerf ==
    /\ pc = "perf"
    /\ perf' = IF bessd = {} THEN perf
               ELSE perf \cup {[run |-> run, watches |-> {d.run : d \in bessd}]}
    /\ pc' = "moongen"
    /\ UNCHANGED <<run, script, bessd, MoonGen, history>>

StartMoonGen ==
    /\ pc = "moongen"
    /\ MoonGen' = MoonGen \cup {[run |-> run, up |-> FALSE]}
    /\ pc' = "sleep"
    /\ UNCHANGED <<run, script, bessd, perf, history>>

\* Assumption: within the 30 seconds MoonGen is up, or has given up.  The
\* varied-rate script runs it in the foreground and waits for its end too.
SleepIsLong ==
    /\ \A g \in MoonGen : g.up
    /\ script = "varied_rate" => \A g \in MoonGen : g.run # run

ScriptSleep ==
    /\ pc = "sleep" /\ SleepIsLong
    /\ complete' =
        IF /\ script = "cbr"
           /\ \E p \in perf : run \in p.watches
           /\ \E d \in bessd : d.run = run /\ d.loaded
           /\ \E g \in MoonGen : g.run = run
        THEN complete \cup {run} ELSE complete
    /\ pc' = "kill_perf"
    /\ UNCHANGED <<run, script, procs, crashed, idle>>

\* kill -9 $(pidof perf)
KillPerf ==
    /\ pc = "kill_perf"
    /\ perf' = {}
    /\ pc' = "kill_moongen"
    /\ UNCHANGED <<run, script, bessd, MoonGen, history>>

\* kill -9 $(pidof MoonGen)
KillMoonGen ==
    /\ pc = "kill_moongen"
    /\ MoonGen' = {g \in MoonGen : ~g.up}
    /\ pc' = "kill_bessd"
    /\ UNCHANGED <<run, script, bessd, perf, history>>

\* Mutant: the daemon is not told to stop.
KillBessd_skip ==
    /\ pc = "kill_bessd"
    /\ IF run = MaxRuns
       THEN pc' = "done" /\ UNCHANGED <<run, script>>
       ELSE pc' = "start" /\ run' = run + 1 /\ script' \in Scripts
    /\ UNCHANGED <<procs, history>>

\* killall bessd asks the daemon to stop; the script does not wait for it and
\* the loop goes on to the next measurement.
KillBessd ==
    /\ pc = "kill_bessd"
    /\ bessd' = {[d EXCEPT !.stopping = TRUE] : d \in bessd}
    /\ IF run = MaxRuns
       THEN pc' = "done" /\ UNCHANGED <<run, script>>
       ELSE pc' = "start" /\ run' = run + 1 /\ script' \in Scripts
    /\ UNCHANGED <<perf, MoonGen, history>>

-----------------------------------------------------------------------------
(* The processes (external).                                               *)
BessdExits ==
    /\ \E d \in bessd :
        /\ d.stopping
        /\ bessd' = bessd \ {d}
    /\ UNCHANGED <<pc, run, script, perf, MoonGen, history>>

BessdCrashes ==
    /\ \E d \in bessd :
        /\ ~d.stopping
        /\ bessd' = bessd \ {d}
        /\ crashed' = crashed \cup {d.run}
    /\ UNCHANGED <<pc, run, script, perf, MoonGen, idle, complete>>

\* perf ends when everything it watches is gone.
PerfExits ==
    /\ \E p \in perf :
        /\ p.watches \cap {d.run : d \in bessd} = {}
        /\ perf' = perf \ {p}
    /\ UNCHANGED <<pc, run, script, bessd, MoonGen, history>>

\* The ports belong to one generator.
MoonGenUp ==
    /\ \A g \in MoonGen : ~g.up
    /\ \E g \in MoonGen : MoonGen' = (MoonGen \ {g}) \cup {[g EXCEPT !.up = TRUE]}
    /\ UNCHANGED <<pc, run, script, bessd, perf, history>>

\* It fails to start, crashes, or reaches the end of a varied-rate program.
MoonGenEnds ==
    /\ \E g \in MoonGen :
        /\ MoonGen' = MoonGen \ {g}
        /\ crashed' = IF script = "varied_rate" /\ g.run = run /\ g.up
                      THEN crashed ELSE crashed \cup {g.run}
    /\ UNCHANGED <<pc, run, script, bessd, perf, idle, complete>>

-----------------------------------------------------------------------------
Script ==
    \/ StartFails \/ StartOk \/ RunFile \/ StartPerf \/ StartMoonGen \/ ScriptSleep
    \/ KillPerf \/ KillMoonGen \/ KillBessd
Process == BessdExits \/ BessdCrashes \/ PerfExits \/ MoonGenUp \/ MoonGenEnds

Done == pc = "done" /\ UNCHANGED loopVars

LoopNext == Script \/ Process \/ Done

Loop == LoopInit /\ [][LoopNext]_loopVars

\* The shell goes on, an attempt to start the daemon succeeds at last, a
\* daemon that is told to stop stops, and a generator comes to its end.
FairLoop ==
    /\ Loop
    /\ WF_loopVars(Script) /\ SF_loopVars(StartOk)
    /\ WF_loopVars(BessdExits) /\ WF_loopVars(MoonGenUp \/ MoonGenEnds)

-----------------------------------------------------------------------------
(* Properties.                                                             *)

\* Every variable keeps its type.
LoopTypeOK ==
    /\ pc \in Steps /\ run \in Runs /\ script \in Scripts
    /\ bessd \subseteq [run : Runs, loaded : BOOLEAN, stopping : BOOLEAN]
    /\ perf \subseteq [run : Runs, watches : SUBSET Runs]
    /\ MoonGen \subseteq [run : Runs, up : BOOLEAN]
    /\ crashed \subseteq Runs /\ idle \subseteq Runs /\ complete \subseteq Runs

\* perf watches the daemon of its own measurement, although pidof would also
\* find one that the measurement before asked to stop: the loop of
\* start_bess.sh does not end before that one is gone.
OwnSwitch == \A p \in perf : p.watches = {p.run}

\* While perf records, only the traffic of that measurement is on the wire:
\* the generator of the one before was killed before perf was started.
OwnTraffic == \A p \in perf, g \in MoonGen : g.run = p.run

\* What perf records is one experiment (start_bess.sh, cbr.sh): the daemon and
\* the traffic of its own measurement and of no other.
OwnExperiment == LoopTypeOK /\ OwnSwitch /\ OwnTraffic

\* A measurement with a fixed rate is complete unless something failed: a
\* process crashed, or bessctl run file did, which the script does not notice.
CompleteUnlessFailed ==
    pc \in {"kill_perf", "kill_moongen", "kill_bessd"} /\ script = "cbr" =>
        run \in complete \cup crashed \cup idle

\* The data collection ends, however often the daemon refuses to start.
Ends == <>(pc = "done")
=============================================================================
