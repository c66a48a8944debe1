---------------------------- MODULE AdaptiveBitrate ----------------------------
(****************************************************************************)
(* AdaptiveBitrateController: the bitrate an Xbox stream asks the console   *)
(* for, lowered when a window of the path shows congestion and raised again *)
(* step by step when the windows are clean.  A controller is a record; each *)
(* operator is one function of the class.  Bitrates are in kbit/s.          *)
(*                                                                          *)
(* A window is used once: NoWindow stands for an estimate that is not valid *)
(* yet or that the controller has seen (path.sequence == last_sequence_).   *)
(****************************************************************************)
EXTENDS NetworkPath

CONSTANTS Configured,                \* configured_max_kbps_
          CloudHardRecoveryCooldown  \* 15 windows in the code

ASSUME ConfiguredAssumption == Configured \in Nat \ {0}
ASSUME CooldownAssumption == CloudHardRecoveryCooldown \in Nat \ {0}

NoLoad == [packets |-> 0, detected |-> 0, unrecovered |-> 0, drops |-> 0,
           depth |-> 0]
Window(load, inflation) == [fresh |-> TRUE, load |-> load, inflation |-> inflation]
NoWindow == [Window(NoLoad, 0) EXCEPT !.fresh = FALSE]

Step == 5000
Least == Min({10000, Configured})
OversizedCeiling == Min({20000, Configured})
HardRecoveryCooldown(mode) ==
    IF mode = "cloud" THEN CloudHardRecoveryCooldown ELSE 2
RttOnlyWindows == 3
ProbeWindows == 2
ProbeImprovement == 10

NewController(mode) ==
    LET start == IF mode = "cloud" THEN Min({20000, Configured}) ELSE Configured
    IN [target |-> start, congested |-> 0, stable |-> 0, ever |-> FALSE,
        cuts |-> 0, ceiling |-> start, latched |-> FALSE, probe |-> 0,
        best |-> 0, cooldown |-> 0, cap |-> Configured]

(* What a window says *)
QueueCongested(w) == w.load.depth >= 1024
RttCongested(mode, w) == w.inflation >= IF mode = "home" THEN 25 ELSE 60
Severe(w) == w.load.drops > 0 \/ w.load.unrecovered >= 50000
Strong(mode, w) ==
    \/ Severe(w)
    \/ w.load.unrecovered >= 3000 /\ (QueueCongested(w) \/ RttCongested(mode, w))
    \/ QueueCongested(w)
RttOnly(mode, w) == RttCongested(mode, w) /\ ~Strong(mode, w)
Congested(mode, w) == Strong(mode, w) \/ RttOnly(mode, w)
Stable(mode, w) ==
    /\ w.load.packets >= 200 /\ w.load.detected < 2000
    /\ w.load.unrecovered < 500 /\ w.load.drops = 0 /\ w.load.depth < 512
    /\ w.inflation <= IF mode = "home" THEN 12 ELSE 30

(* Steps of the target *)
LowerOneStep(c) ==
    [c EXCEPT !.target = Max({Least, @ - Step})]
RaiseOneStep(c) ==
    LET limit == Min({Configured, c.cap})
    IN [c EXCEPT !.target = IF @ >= limit THEN @ ELSE Min({limit, @ + Step})]

LowerSeverely(c) ==
    LET rounded == (((c.target * 70) \div 100 + Step \div 2) \div Step) * Step
        lower == Min({c.target - Step, rounded})
    IN [c EXCEPT !.target = Max({Least, lower})]

(* recordCongestionReduction: only zero, one and more reductions of an      *)
(* episode are told apart                                                   *)
Record(c, previous) ==
    IF c.target >= previous THEN c
    ELSE [c EXCEPT !.cuts = Min({2, @ + 1}),
                   !.ceiling = IF c.cuts = 0 THEN previous ELSE @]

(* Seeded fault: the last step is not waited for *)
FinishesEarly(c) ==
    IF c.cuts = 0 \/ c.target + Step < c.ceiling THEN c
    ELSE [c EXCEPT !.cuts = 0, !.ceiling = c.target]

(* finishCongestionEpisodeIfRecovered *)
Finish(c) ==
    IF c.cuts = 0 \/ c.target < c.ceiling THEN c
    ELSE [c EXCEPT !.cuts = 0, !.ceiling = c.target]

Forget(c) == [c EXCEPT !.congested = 0, !.stable = 0]
CoolDown(c, windows) == [c EXCEPT !.cooldown = Max({@, windows})]

(* applyReceiverSignal: the decoded picture is larger than the one asked    *)
(* for; the decoder had to start over                                       *)
Oversized(mode, c, oversized) ==
    IF mode = "home" \/ ~oversized THEN c
    ELSE LET capped == [c EXCEPT !.cap = OversizedCeiling]
         IN IF c.target <= OversizedCeiling THEN capped
            ELSE [Record([capped EXCEPT !.target = OversizedCeiling], c.target)
                    EXCEPT !.ever = TRUE, !.stable = 0]
HardRecovery(mode, c) ==
    CoolDown(Forget([Record(LowerOneStep(c), c.target) EXCEPT !.ever = TRUE]),
             HardRecoveryCooldown(mode))
ApplySignal(mode, c, hard, oversized) ==
    LET d == Oversized(mode, c, oversized)
    IN IF hard THEN HardRecovery(mode, d) ELSE d

(* The trial of an RTT-only reduction: the round-trip time did not follow   *)
(* the bitrate, so the step is taken back                                   *)
Improved(c, w) == w.inflation + ProbeImprovement <= c.best
Probe(c, w) ==
    IF Improved(c, w)
    THEN [c EXCEPT !.best = w.inflation, !.probe = 0]
    ELSE IF c.probe + 1 < ProbeWindows THEN [c EXCEPT !.probe = @ + 1]
    ELSE [Finish(RaiseOneStep(c)) EXCEPT !.probe = 0]

(* The branches of observe, for a window not seen before *)
OnSevere(mode, c) ==
    LET d == [Forget(Record(LowerSeverely(c), c.target)) EXCEPT !.ever = TRUE]
    IN IF mode = "cloud" THEN CoolDown(d, 1) ELSE d

(* Seeded fault: a reduction for the round-trip time alone is not remembered *)
NotLatched(mode, c, w) ==
    LET lowered == Record(LowerOneStep(c), c.target)
        calm == IF mode = "cloud" THEN CoolDown(lowered, 1) ELSE lowered
        needed == IF RttOnly(mode, w) THEN RttOnlyWindows ELSE 2
    IN IF c.congested + 1 < needed
       THEN [c EXCEPT !.stable = 0, !.congested = @ + 1]
       ELSE [Forget(calm) EXCEPT !.ever = TRUE]

OnCongested(mode, c, w) ==
    LET lowered == Record(LowerOneStep(c), c.target)
        calm == IF mode = "cloud" THEN CoolDown(lowered, 1) ELSE lowered
        cut == [Forget(calm) EXCEPT !.ever = TRUE]
        needed == IF RttOnly(mode, w) THEN RttOnlyWindows ELSE 2
    IN IF c.congested + 1 < needed
       THEN [c EXCEPT !.stable = 0, !.congested = @ + 1]
       ELSE IF RttOnly(mode, w)
            THEN [cut EXCEPT !.latched = TRUE, !.probe = 0, !.best = w.inflation]
            ELSE cut

StableNeeded(mode, c) ==
    IF (c.cuts = 1 /\ c.target < c.ceiling) \/ (mode = "cloud" /\ ~c.ever) THEN 2
    ELSE IF mode = "cloud" THEN 6 ELSE 5

(* Seeded fault: a window of the cool-down still clears the evidence but    *)
(* the cool-down never ends                                                 *)
StuckCooldown(mode, c) ==
    LET calm == [c EXCEPT !.congested = 0, !.latched = FALSE]
    IN IF calm.cooldown > 0 THEN [calm EXCEPT !.stable = 0]
       ELSE IF calm.stable + 1 < StableNeeded(mode, calm)
       THEN [calm EXCEPT !.stable = @ + 1]
       ELSE [Finish(RaiseOneStep(calm)) EXCEPT !.stable = 0]

OnStable(mode, c) ==
    LET calm == [c EXCEPT !.congested = 0, !.latched = FALSE]
    IN IF calm.cooldown > 0
       THEN [calm EXCEPT !.cooldown = @ - 1, !.stable = 0]
       ELSE IF calm.stable + 1 < StableNeeded(mode, calm)
       THEN [calm EXCEPT !.stable = @ + 1]
       ELSE [Finish(RaiseOneStep(calm)) EXCEPT !.stable = 0]
OnNeutral(c) ==
    [c EXCEPT !.congested = 0, !.stable = IF @ > 0 THEN @ - 1 ELSE 0]

(* Seeded fault: the counters of the window that a hard recovery answered   *)
(* are acted on a second time                                               *)
JudgeAnyway(mode, c, w, hard) ==
    LET d == IF Strong(mode, w) THEN [c EXCEPT !.latched = FALSE, !.probe = 0] ELSE c
    IN CASE d.latched /\ RttOnly(mode, w) -> Forget(Probe(d, w))
         [] Severe(w) -> OnSevere(mode, d)
         [] ~Severe(w) /\ (Strong(mode, w) \/ (RttOnly(mode, w) /\ ~d.latched)) ->
              OnCongested(mode, d, w)
         [] Stable(mode, w) -> OnStable(mode, d)
         [] OTHER -> OnNeutral(d)

Judge(mode, c, w, hard) ==
    LET d == IF Strong(mode, w) THEN [c EXCEPT !.latched = FALSE, !.probe = 0] ELSE c
        probing == d.latched /\ RttOnly(mode, w)
        congested == Strong(mode, w) \/ RttOnly(mode, w)
    IN CASE probing -> Forget(Probe(d, w))
         [] ~probing /\ hard -> Forget(d)
         [] ~probing /\ ~hard /\ Severe(w) -> OnSevere(mode, d)
         [] ~probing /\ ~hard /\ ~Severe(w) /\ congested -> OnCongested(mode, d, w)
         [] ~probing /\ ~hard /\ ~congested /\ Stable(mode, w) -> OnStable(mode, d)
         [] OTHER -> OnNeutral(d)

Observe(mode, c, w, hard, oversized) ==
    LET d == ApplySignal(mode, c, hard, oversized)
    IN IF ~w.fresh THEN d ELSE Judge(mode, d, w, hard)
=============================================================================
