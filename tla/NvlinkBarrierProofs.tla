------------------------ MODULE NvlinkBarrierProofs ------------------------
(***************************************************************************)
(* For every number of ranks, CTAs, launches and nvlink_barrier calls of a *)
(* launch: the CTA 0s of the ranks synchronise like one abstract barrier,  *)
(* although two words and two bits of a counter serve all barriers, and    *)
(* nobody ever resets them.                                                *)
(*                                                                         *)
(* The argument: the signals of a rank to a word alternate between +1 and  *)
(* -1, so that the word counts the ranks whose last signal to it was +1.   *)
(* A rank that has not signalled the barrier one waits at counts the other *)
(* way than the target does, however far its peers are ahead.              *)
(*                                                                         *)
(* The second part is about all CTAs: who has returned from a call knows   *)
(* that everybody entered it.  A CTA's grid_sync calls are those of the    *)
(* calls it has been through, so that who makes as many as another is as   *)
(* far as the other's last grid_sync; CTA 0 knows its own CTAs from the    *)
(* leading grid_sync, the peers from the signals, and the other CTAs know  *)
(* CTA 0 from the trailing grid_sync or from a done word that is ahead of  *)
(* the value they read at the start by the last fast call CTA 0 passed.    *)
(***************************************************************************)
EXTENDS NvlinkBarrier, FiniteSetTheorems, TLAPS

\* The ranks whose last signal to the word was +1.
Sources(q, phase) == { r \in Ranks : Counts(setup.before + sent[r][q], phase) }

\* Barriers of so many launches, and those whose arrival CTA 0 has observed
\* when it is at a place of its program.
Barriers(launches) == launches * Len(Sites)
PassedAt(where, s, l) ==
  IF where = "exited" THEN Barriers(l)
  ELSE Barriers(l - 1) + (s - 1) + (IF where \in {"call_epilogue", "epilogue"} THEN 1 ELSE 0)

TypeInv ==
  /\ setup \in Setups
  /\ counter \in [Ranks -> 0 .. 3]
  /\ signal \in [Ranks -> [{0, 1} -> Int]]
  /\ pc \in [Ranks -> [SMs -> Locations]]
  /\ site \in [Ranks -> [SMs -> 1 .. Len(Sites)]]
  /\ launch \in [Ranks -> [SMs -> 0 .. setup.launches]]
  /\ sent \in [Ranks -> [Ranks -> Nat]]
  /\ passed \in [Ranks -> Nat]

\* CTA 0 at a place, in call s of launch l.
Leader(p, where, s, l) ==
  /\ where # "done_word"
  /\ where = "exited" => s = 1
  /\ where # "exited" => l >= 1
  /\ p = PassedAt(where, s, l)

Leaders == \A r \in Ranks : Leader(passed[r], pc[r][0], site[r][0], launch[r][0])

\* The signals of the barrier a rank is at, and its counter.
Sending ==
  \A r \in Ranks :
    /\ \A q \in Ranks :
         \/ sent[r][q] = passed[r] /\ pc[r][0] \notin {"wait", "trapped"}
         \/ sent[r][q] = passed[r] + 1 /\ pc[r][0] \in {"signal", "wait", "trapped"}
    /\ counter[r] = (setup.before + passed[r]
                       + (IF pc[r][0] \in {"wait", "trapped"} THEN 1 ELSE 0)) % 4

\* Nobody has passed a barrier that somebody has not signalled.
Met == \A r, q \in Ranks : passed[r] <= sent[q][r]

Words == \A q \in Ranks, phase \in {0, 1} : signal[q][phase] = Cardinality(Sources(q, phase))

IInv == TypeInv /\ Leaders /\ Sending /\ Met /\ Words

-----------------------------------------------------------------------------
LEMMA RanksFinite == IsFiniteSet(Ranks) /\ Cardinality(Ranks) = NumRanks /\ 0 \in Ranks
  BY FS_Interval, NvlinkAssumption DEF Ranks, NvlinkAssumption

LEMMA ZeroSM == 0 \in SMs
  BY NvlinkAssumption DEF SMs, NvlinkAssumption

LEMMA SetupType ==
  ASSUME setup \in Setups
  PROVE  /\ Len(Sites) \in Nat /\ Len(Sites) >= 1
         /\ setup.launches \in Nat
         /\ setup.launches * Len(Sites) <= MaxBarriers /\ MaxBarriers \in Nat
<1>1. setup.sites \in Seq(Call) /\ Len(setup.sites) >= 1
  BY NvlinkAssumption DEF NvlinkAssumption
<1> QED
  BY <1>1, NvlinkAssumption DEF NvlinkAssumption, Sites

LEMMA SetupBefore ==
  ASSUME setup \in Setups
  PROVE  setup.before \in Nat /\ setup.done \in 0 .. DoneMod - 1
  BY NvlinkAssumption DEF NvlinkAssumption

\* A launch adds its calls.
LEMMA BarriersOf ==
  ASSUME setup \in Setups, NEW l \in Nat
  PROVE  /\ Barriers(l) \in Nat
         /\ Barriers(l + 1) = Barriers(l) + Len(Sites)
         /\ l <= setup.launches => Barriers(l) <= MaxBarriers
<1>1. /\ Len(Sites) \in Nat /\ setup.launches \in Nat
      /\ setup.launches * Len(Sites) <= MaxBarriers /\ MaxBarriers \in Nat
  BY SetupType
<1>2. l <= setup.launches => l * Len(Sites) <= setup.launches * Len(Sites)
  BY <1>1
<1> QED
  BY <1>1, <1>2 DEF Barriers

\* The cycle of phases and signs.
LEMMA NextMod ==
  ASSUME NEW m \in Nat
  PROVE  /\ m % 4 \in {0, 1, 2, 3}
         /\ ((m + 1) % 4) = IF m % 4 = 3 THEN 0 ELSE (m % 4) + 1
         /\ (m + 2) % 4 = IF m % 4 = 3 THEN 1 ELSE IF m % 4 = 2 THEN 0 ELSE (m % 4) + 2
         /\ (((m + 1) % 4) + 3) % 4 = m % 4
  OBVIOUS

LEMMA SmallDivisions ==
  /\ 0 % 2 = 0 /\ 1 % 2 = 1 /\ 2 % 2 = 0 /\ 3 % 2 = 1
  /\ 0 \div 2 = 0 /\ 1 \div 2 = 0 /\ 2 \div 2 = 1 /\ 3 \div 2 = 1
  OBVIOUS

LEMMA InitInv == Init => IInv
<1> SUFFICES ASSUME Init PROVE IInv
  OBVIOUS
<1> USE DEF Init
<1>1. Len(Sites) \in Nat /\ Len(Sites) >= 1 /\ setup.launches \in Nat
  BY SetupType
<1>2. TypeInv
  <2>1. setup.before \in Nat /\ NumRanks \in Nat
    BY SetupBefore, NvlinkAssumption DEF NvlinkAssumption
  <2>2. counter \in [Ranks -> 0 .. 3]
    <3>1. \A n \in Nat : n % 4 \in 0 .. 3
      BY NextMod
    <3> QED
      BY <2>1, <3>1
  <2>3. signal \in [Ranks -> [{0, 1} -> Int]]
    BY <2>1
  <2> QED
    BY <1>1, <2>2, <2>3 DEF TypeInv, Locations
<1>3. Leaders
  <2>1. Barriers(0) = 0
    BY <1>1 DEF Barriers
  <2> QED
    BY <2>1, ZeroSM DEF Leaders, Leader, PassedAt
<1>4. Sending
  <2>1. setup.before \in Nat
    BY SetupBefore
  <2>2. setup.before + 0 + 0 = setup.before
    BY <2>1
  <2> QED
    BY <2>2, ZeroSM DEF Sending
<1>5. Met
  BY DEF Met
<1>6. Words
  <2>1. setup.before \in Nat
    BY SetupBefore
  <2>2. setup.before + 0 = setup.before
    BY <2>1
  <2>3. ASSUME NEW q \in Ranks, NEW phase \in {0, 1}
        PROVE  Sources(q, phase) = IF Counts(setup.before, phase) THEN Ranks ELSE {}
    BY <2>2 DEF Sources
  <2>4. ASSUME NEW q \in Ranks, NEW phase \in {0, 1}
        PROVE  signal[q][phase] = IF Counts(setup.before, phase) THEN NumRanks ELSE 0
    OBVIOUS
  <2> QED
    BY <2>3, <2>4, RanksFinite, FS_EmptySet DEF Words
<1> QED
  BY <1>2, <1>3, <1>4, <1>5, <1>6 DEF IInv

-----------------------------------------------------------------------------
\* A CTA goes on to a place in a call.
Moved(r, sm, where, s) ==
  /\ pc' = [pc EXCEPT ![r][sm] = where]
  /\ site' = [site EXCEPT ![r][sm] = s]

LEMMA MovedType ==
  ASSUME TypeInv, NEW r \in Ranks, NEW sm \in SMs, NEW where \in Locations,
         NEW s \in 1 .. Len(Sites), Moved(r, sm, where, s)
  PROVE  /\ pc' \in [Ranks -> [SMs -> Locations]]
         /\ site' \in [Ranks -> [SMs -> 1 .. Len(Sites)]]
         /\ pc'[r][sm] = where /\ site'[r][sm] = s
         /\ \A q \in Ranks, o \in SMs : (q # r \/ o # sm) =>
              pc'[q][o] = pc[q][o] /\ site'[q][o] = site[q][o]
  BY DEF TypeInv, Moved

\* A step of a CTA that sends and observes nothing.
LEMMA CtaMoves ==
  ASSUME IInv, NEW r \in Ranks, NEW sm \in SMs, NEW where \in Locations,
         NEW s \in 1 .. Len(Sites), Moved(r, sm, where, s),
         UNCHANGED <<setup, counter, signal, sent, passed>>,
         launch' \in [Ranks -> [SMs -> 0 .. setup.launches]],
         \A q \in Ranks, o \in SMs : (q # r \/ o # sm) => launch'[q][o] = launch[q][o],
         sm = 0 => /\ pc[r][0] \notin {"signal", "wait", "trapped"}
                   /\ where \notin {"wait", "trapped"}
                   /\ Leader(passed[r], where, s, launch'[r][0])
  PROVE  IInv'
<1>1. /\ pc' \in [Ranks -> [SMs -> Locations]]
      /\ site' \in [Ranks -> [SMs -> 1 .. Len(Sites)]]
      /\ pc'[r][sm] = where /\ site'[r][sm] = s
      /\ \A q \in Ranks, o \in SMs : (q # r \/ o # sm) =>
           pc'[q][o] = pc[q][o] /\ site'[q][o] = site[q][o]
  BY MovedType DEF IInv
<1>2. TypeInv'
  BY <1>1 DEF IInv, TypeInv, Sites
<1>3. \A q \in Ranks : (q # r \/ sm # 0) =>
        pc'[q][0] = pc[q][0] /\ site'[q][0] = site[q][0] /\ launch'[q][0] = launch[q][0]
  BY <1>1, ZeroSM
<1>4. Leaders'
  <2>1. ASSUME NEW q \in Ranks PROVE Leader(passed[q], pc'[q][0], site'[q][0], launch'[q][0])
    BY <1>1, <1>3 DEF IInv, Leaders
  <2> QED
    BY <2>1 DEF Leaders, Leader, PassedAt, Barriers, Sites
<1>5. Sending'
  BY <1>1, <1>3 DEF IInv, Sending
<1>6. Met'
  BY DEF IInv, Met
<1>7. Words'
  <2>1. \A q, phase : Sources(q, phase)' = Sources(q, phase)
    BY DEF Sources
  <2> QED
    BY <2>1 DEF IInv, Words
<1> QED
  BY <1>2, <1>4, <1>5, <1>6, <1>7 DEF IInv

\* A CTA is through with a call.
LEMMA Returns ==
  ASSUME TypeInv, NEW r \in Ranks, NEW sm \in SMs, Return(r, sm)
  PROVE  \E where \in {"exited", "entry"}, s \in 1 .. Len(Sites) :
           /\ Moved(r, sm, where, s)
           /\ \/ where = "exited" /\ s = 1 /\ site[r][sm] = Len(Sites)
              \/ where = "entry" /\ s = site[r][sm] + 1
<1>1. Len(Sites) \in Nat /\ Len(Sites) >= 1 /\ site[r][sm] \in 1 .. Len(Sites)
  BY SetupType DEF TypeInv
<1>2. CASE site[r][sm] = Len(Sites)
  <2>1. Moved(r, sm, "exited", 1)
    BY <1>2 DEF Return, Goto, Moved
  <2> QED
    BY <1>1, <1>2, <2>1
<1>3. CASE site[r][sm] # Len(Sites)
  <2>1. site' = [site EXCEPT ![r][sm] = site[r][sm] + 1]
    BY <1>3 DEF Return, TypeInv
  <2>2. Moved(r, sm, "entry", site[r][sm] + 1)
    BY <1>3, <2>1 DEF Return, Goto, Moved
  <2>3. site[r][sm] + 1 \in 1 .. Len(Sites)
    BY <1>1, <1>3
  <2> QED
    BY <2>2, <2>3
<1> QED
  BY <1>2, <1>3

LEMMA Stays ==
  ASSUME TypeInv, NEW r \in Ranks, NEW sm \in SMs, NEW where, Goto(r, sm, where), UNCHANGED site
  PROVE  Moved(r, sm, where, site[r][sm]) /\ site[r][sm] \in 1 .. Len(Sites)
  BY DEF TypeInv, Goto, Moved

\* Where a CTA goes from the cross-rank part.
LEMMA AfterSignalsMoves ==
  ASSUME TypeInv, NEW r \in Ranks, NEW sm \in SMs, AfterSignals(r, sm)
  PROVE  \E where \in Locations, s \in 1 .. Len(Sites) :
           /\ Moved(r, sm, where, s)
           /\ \/ where = "exited" /\ s = 1 /\ site[r][sm] = Len(Sites)
              \/ where = "entry" /\ s = site[r][sm] + 1
              \/ where = "call_epilogue" /\ s = site[r][sm]
              \/ where = "done_word" /\ sm # 0
<1>1. CASE Return(r, sm)
  BY <1>1, Returns DEF Locations
<1>2. CASE Goto(r, sm, "done_word") /\ UNCHANGED site /\ sm # 0
  BY <1>2, Stays DEF Locations
<1>3. CASE Goto(r, sm, "call_epilogue") /\ UNCHANGED site
  BY <1>3, Stays DEF Locations
<1> QED
  BY <1>1, <1>2, <1>3 DEF AfterSignals

\* What CTA 0 has passed, one barrier on.
LEMMA LeaderReturns ==
  ASSUME setup \in Setups, NEW p \in Nat, NEW l \in Nat, l >= 1, NEW t \in 1 .. Len(Sites),
         p = Barriers(l - 1) + (t - 1) + 1, NEW where, NEW s,
         \/ where = "exited" /\ s = 1 /\ t = Len(Sites)
         \/ where = "entry" /\ s = t + 1
         \/ where = "call_epilogue" /\ s = t
  PROVE  Leader(p, where, s, l)
<1>1. l - 1 \in Nat /\ Barriers(l - 1) \in Nat /\ Barriers(l) = Barriers(l - 1) + Len(Sites)
  <2>1. l - 1 \in Nat /\ (l - 1) + 1 = l
    OBVIOUS
  <2> QED
    BY <2>1, BarriersOf
<1>2. Len(Sites) \in Nat
  BY SetupType
<1>3. CASE where = "exited" /\ s = 1 /\ t = Len(Sites)
  <2>1. p = Barriers(l)
    BY <1>1, <1>2, <1>3
  <2> QED
    BY <1>3, <2>1 DEF Leader, PassedAt
<1>4. CASE where = "entry" /\ s = t + 1
  <2>1. p = Barriers(l - 1) + (s - 1) + 0
    BY <1>1, <1>2, <1>4
  <2> QED
    BY <1>4, <2>1 DEF Leader, PassedAt
<1>5. CASE where = "call_epilogue" /\ s = t
  BY <1>5 DEF Leader, PassedAt
<1> QED
  BY <1>3, <1>4, <1>5

LEMMA LeaderAt ==
  ASSUME IInv, NEW r \in Ranks
  PROVE  /\ Leader(passed[r], pc[r][0], site[r][0], launch[r][0])
         /\ pc[r][0] \in Locations /\ site[r][0] \in 1 .. Len(Sites)
         /\ launch[r][0] \in Nat /\ launch[r][0] <= setup.launches
         /\ passed[r] \in Nat /\ setup \in Setups
<1>1. setup \in Setups
  BY DEF IInv, TypeInv
<1>2. setup.launches \in Nat
  BY <1>1, SetupType
<1>3. launch[r][0] \in 0 .. setup.launches
  BY ZeroSM DEF IInv, TypeInv
<1> QED
  BY <1>1, <1>2, <1>3, ZeroSM DEF IInv, TypeInv, Leaders

-----------------------------------------------------------------------------
LEMMA StartInv ==
  ASSUME IInv, NEW r \in Ranks, NEW sm \in SMs, Start(r, sm)
  PROVE  IInv'
<1>1. /\ pc[r][sm] = "exited" /\ launch[r][sm] < setup.launches
      /\ launch' = [launch EXCEPT ![r][sm] = @ + 1]
      /\ Goto(r, sm, "entry") /\ UNCHANGED site
      /\ UNCHANGED <<setup, counter, signal, sent, passed>>
  BY DEF Start
<1>2. Moved(r, sm, "entry", site[r][sm]) /\ site[r][sm] \in 1 .. Len(Sites)
  BY <1>1, Stays DEF IInv
<1>3. setup \in Setups /\ launch \in [Ranks -> [SMs -> 0 .. setup.launches]]
  BY DEF IInv, TypeInv
<1>4. setup.launches \in Nat
  BY <1>3, SetupType
<1>5. launch[r][sm] \in Nat /\ launch[r][sm] + 1 \in 0 .. setup.launches
  BY <1>1, <1>3, <1>4
<1>6. /\ launch' \in [Ranks -> [SMs -> 0 .. setup.launches]]
      /\ launch'[r][sm] = launch[r][sm] + 1
      /\ \A q \in Ranks, o \in SMs : (q # r \/ o # sm) => launch'[q][o] = launch[q][o]
  BY <1>1, <1>3, <1>5
<1>7. ASSUME sm = 0 PROVE Leader(passed[r], "entry", site[r][sm], launch'[r][0])
  <2>1. site[r][0] = 1 /\ passed[r] = Barriers(launch[r][0])
    BY <1>1, <1>7, LeaderAt DEF Leader, PassedAt
  <2>2. launch'[r][0] >= 1 /\ launch'[r][0] - 1 = launch[r][0]
    BY <1>5, <1>6, <1>7
  <2>3. Barriers(launch[r][0]) \in Nat
    BY <1>3, <1>5, <1>7, BarriersOf
  <2>4. passed[r] = Barriers(launch'[r][0] - 1) + (site[r][sm] - 1) + 0
    BY <1>7, <2>1, <2>2, <2>3
  <2> QED
    BY <2>2, <2>4 DEF Leader, PassedAt
<1>8. "entry" \in Locations /\ "entry" \notin {"wait", "trapped"}
  BY DEF Locations
<1>9. pc[r][sm] \notin {"signal", "wait", "trapped"}
  BY <1>1
<1> QED
  BY <1>1, <1>2, <1>6, <1>7, <1>8, <1>9, CtaMoves

\* A CTA between two places of a call, from the entry to the signals.
LEMMA PlaceMoves ==
  ASSUME IInv, NEW r \in Ranks, NEW sm \in SMs, NEW where \in Locations, Goto(r, sm, where),
         UNCHANGED <<setup, counter, signal, sent, passed, site, launch>>,
         sm = 0 => \/ pc[r][sm] \in {"entry", "prologue"} /\ where \in {"prologue", "signal"}
                   \/ pc[r][sm] = "call_epilogue" /\ where = "epilogue"
  PROVE  IInv'
<1>1. Moved(r, sm, where, site[r][sm]) /\ site[r][sm] \in 1 .. Len(Sites)
  BY Stays DEF IInv
<1>2. launch' \in [Ranks -> [SMs -> 0 .. setup.launches]]
  BY DEF IInv, TypeInv
<1>3. ASSUME sm = 0
      PROVE  /\ pc[r][0] \notin {"signal", "wait", "trapped"}
             /\ where \notin {"wait", "trapped"}
             /\ Leader(passed[r], where, site[r][sm], launch'[r][0])
  BY <1>3, LeaderAt DEF Leader, PassedAt
<1> QED
  BY <1>1, <1>2, <1>3, CtaMoves

\* A CTA that is through with a call, CTA 0 with what it has observed.
LEMMA ReturnInv ==
  ASSUME IInv, NEW r \in Ranks, NEW sm \in SMs, Return(r, sm),
         UNCHANGED <<setup, counter, signal, sent, passed, launch>>,
         sm = 0 => pc[r][sm] = "epilogue"
  PROVE  IInv'
<1>1. PICK where \in {"exited", "entry"}, s \in 1 .. Len(Sites) :
        /\ Moved(r, sm, where, s)
        /\ \/ where = "exited" /\ s = 1 /\ site[r][sm] = Len(Sites)
           \/ where = "entry" /\ s = site[r][sm] + 1
  BY Returns DEF IInv
<1>2. launch' \in [Ranks -> [SMs -> 0 .. setup.launches]]
  BY DEF IInv, TypeInv
<1>3. ASSUME sm = 0 PROVE Leader(passed[r], where, s, launch'[r][0])
  <2>1. /\ passed[r] = Barriers(launch[r][0] - 1) + (site[r][0] - 1) + 1
        /\ launch[r][0] >= 1
    BY <1>3, LeaderAt DEF Leader, PassedAt
  <2>2. /\ passed[r] \in Nat /\ launch[r][0] \in Nat /\ site[r][0] \in 1 .. Len(Sites)
        /\ setup \in Setups
    BY LeaderAt
  <2>3. \/ where = "exited" /\ s = 1 /\ site[r][0] = Len(Sites)
        \/ where = "entry" /\ s = site[r][0] + 1
    BY <1>1, <1>3
  <2>4. Leader(passed[r], where, s, launch[r][0])
    BY <2>1, <2>2, <2>3, LeaderReturns
  <2> QED
    BY <2>4
<1>4. where \in Locations
  BY DEF Locations
<1>5. \A q \in Ranks, o \in SMs : launch'[q][o] = launch[q][o]
  OBVIOUS
<1>6. sm = 0 => pc[r][0] \notin {"signal", "wait", "trapped"}
  OBVIOUS
<1>7. where \notin {"wait", "trapped"}
  OBVIOUS
<1> QED
  BY <1>1, <1>2, <1>3, <1>4, <1>5, <1>6, <1>7, CtaMoves

LEMMA AfterPrologueInv ==
  ASSUME IInv, NEW r \in Ranks, NEW sm \in SMs, AfterPrologue(r, sm),
         pc[r][sm] \in {"entry", "prologue"},
         UNCHANGED <<setup, counter, signal, sent, passed, launch>>
  PROVE  IInv'
<1>1. CASE sm = 0
  BY <1>1, PlaceMoves DEF AfterPrologue, Locations
<1>2. CASE sm # 0
  <2>1. AfterSignals(r, sm)
    BY <1>2 DEF AfterPrologue
  <2>2. PICK where \in Locations, s \in 1 .. Len(Sites) : Moved(r, sm, where, s)
    BY <2>1, AfterSignalsMoves DEF IInv
  <2>3. launch' \in [Ranks -> [SMs -> 0 .. setup.launches]]
    BY DEF IInv, TypeInv
  <2> QED
    BY <1>2, <2>2, <2>3, CtaMoves
<1> QED
  BY <1>1, <1>2

LEMMA CtaStepInv ==
  ASSUME IInv, NEW r \in Ranks, NEW sm \in SMs, CtaStep(r, sm)
  PROVE  IInv'
<1>1. CASE Enter(r, sm)
  <2>1. pc[r][sm] = "entry" /\ UNCHANGED <<setup, counter, signal, sent, passed, launch>>
    BY <1>1 DEF Enter
  <2>2. CASE AfterPrologue(r, sm)
    BY <2>1, <2>2, AfterPrologueInv
  <2>3. CASE Goto(r, sm, "prologue") /\ UNCHANGED site
    BY <2>1, <2>3, PlaceMoves DEF Locations
  <2> QED
    BY <1>1, <2>2, <2>3 DEF Enter
<1>2. CASE LeavePrologue(r, sm)
  BY <1>2, AfterPrologueInv DEF LeavePrologue
<1>3. CASE SeeDone(r, sm)
  <2>1. sm # 0
    BY <1>3, LeaderAt DEF SeeDone, Leader
  <2> QED
    BY <1>3, <2>1, ReturnInv DEF SeeDone
<1>4. CASE EnterEpilogue(r, sm)
  BY <1>4, PlaceMoves DEF EnterEpilogue, Locations
<1>5. CASE LeaveEpilogue(r, sm)
  BY <1>5, ReturnInv DEF LeaveEpilogue
<1> QED
  BY <1>1, <1>2, <1>3, <1>4, <1>5, StartInv DEF CtaStep

-----------------------------------------------------------------------------
\* What one signal more changes: the word of its phase only, to its sign.
LEMMA OneSignal ==
  ASSUME NEW m \in Nat, NEW c, c = m % 4
  PROVE  /\ c \in {0, 1, 2, 3} /\ Phase(c) \in {0, 1}
         /\ c \in {0, 1} => /\ Step(c) = 1 /\ Target(c) = NumRanks
                            /\ ~Counts(m, Phase(c)) /\ Counts(m + 1, Phase(c))
         /\ c \in {2, 3} => /\ Step(c) = -1 /\ Target(c) = 0
                            /\ Counts(m, Phase(c)) /\ ~Counts(m + 1, Phase(c))
         /\ \A phase \in {0, 1} : phase # Phase(c) =>
              (Counts(m + 1, phase) <=> Counts(m, phase))
<1>1. c \in {0, 1, 2, 3} /\ (m + 1) % 4 = IF c = 3 THEN 0 ELSE c + 1
  BY NextMod
<1>2. CASE c = 0
  <2>1. Phase(c) = 0 /\ Negative(c) = 0 /\ (m + 1) % 4 = 1
    BY <1>1, <1>2, SmallDivisions DEF Phase, Negative
  <2> QED
    BY <1>2, <2>1 DEF Counts, Step, Target
<1>3. CASE c = 1
  <2>1. Phase(c) = 1 /\ Negative(c) = 0 /\ (m + 1) % 4 = 2
    BY <1>1, <1>3, SmallDivisions DEF Phase, Negative
  <2> QED
    BY <1>3, <2>1 DEF Counts, Step, Target
<1>4. CASE c = 2
  <2>1. Phase(c) = 0 /\ Negative(c) = 1 /\ (m + 1) % 4 = 3
    BY <1>1, <1>4, SmallDivisions DEF Phase, Negative
  <2> QED
    BY <1>4, <2>1 DEF Counts, Step, Target
<1>5. CASE c = 3
  <2>1. Phase(c) = 1 /\ Negative(c) = 1 /\ (m + 1) % 4 = 0
    BY <1>1, <1>5, SmallDivisions DEF Phase, Negative
  <2> QED
    BY <1>5, <2>1 DEF Counts, Step, Target
<1> QED
  BY <1>1, <1>2, <1>3, <1>4, <1>5

LEMMA SourcesFinite ==
  ASSUME NEW q, NEW phase
  PROVE  Sources(q, phase) \subseteq Ranks /\ IsFiniteSet(Sources(q, phase))
<1>1. Sources(q, phase) \in SUBSET Ranks
  BY DEF Sources
<1> QED
  BY <1>1, RanksFinite, FS_Subset

\* The words after a signal.
LEMMA SignalWords ==
  ASSUME IInv, NEW r \in Ranks, NEW q \in Ranks, Signal(r, q),
         counter[r] = (setup.before + passed[r]) % 4, passed[r] \in Nat,
         sent' = [sent EXCEPT ![r][q] = passed[r] + 1]
  PROVE  Words'
<1> DEFINE c == counter[r]
<1>a. PICK b \in Nat : b = setup.before /\ b = setup'.before
  <2>1. setup \in Setups /\ setup' = setup
    BY DEF IInv, TypeInv, Signal, ctaVars
  <2> QED
    BY <2>1, SetupBefore
<1>b. PICK m \in Nat : m = b + passed[r]
  OBVIOUS
<1>1. /\ b + sent[r][q] = m
      /\ b + sent'[r][q] = m + 1
      /\ \A o, d \in Ranks : (o # r \/ d # q) => sent'[o][d] = sent[o][d]
  <2>1. sent \in [Ranks -> [Ranks -> Nat]] /\ sent[r][q] = passed[r]
    BY DEF IInv, TypeInv, Signal
  <2>2. /\ sent'[r][q] = passed[r] + 1
        /\ \A o, d \in Ranks : (o # r \/ d # q) => sent'[o][d] = sent[o][d]
    BY <2>1
  <2> QED
    BY <1>b, <2>1, <2>2
<1>2. /\ signal[q] \in [{0, 1} -> Int]
      /\ signal' = [signal EXCEPT ![q][Phase(c)] = @ + Step(c)]
  BY DEF IInv, TypeInv, Signal
<1>3. /\ c \in {0, 1, 2, 3} /\ Phase(c) \in {0, 1}
      /\ c \in {0, 1} => /\ Step(c) = 1
                         /\ ~Counts(m, Phase(c)) /\ Counts(m + 1, Phase(c))
      /\ c \in {2, 3} => /\ Step(c) = -1
                         /\ Counts(m, Phase(c)) /\ ~Counts(m + 1, Phase(c))
      /\ \A phase \in {0, 1} : phase # Phase(c) =>
           (Counts(m + 1, phase) <=> Counts(m, phase))
  BY <1>a, <1>b, OneSignal
<1>4. /\ signal'[q][Phase(c)] = signal[q][Phase(c)] + Step(c)
      /\ \A d \in Ranks, phase \in {0, 1} : (d # q \/ phase # Phase(c)) =>
           signal'[d][phase] = signal[d][phase]
  BY <1>2, <1>3 DEF IInv, TypeInv
<1>5. \A d \in Ranks, phase \in {0, 1} : (d # q \/ phase # Phase(c)) =>
        Sources(d, phase)' = Sources(d, phase)
  <2> SUFFICES ASSUME NEW d \in Ranks, NEW phase \in {0, 1}, d # q \/ phase # Phase(c),
                      NEW o \in Ranks
               PROVE  Counts(b + sent'[o][d], phase) <=> Counts(b + sent[o][d], phase)
    BY <1>a DEF Sources
  <2>1. CASE o = r /\ d = q
    BY <1>1, <1>3, <2>1
  <2>2. CASE o # r \/ d # q
    BY <1>1, <2>2
  <2> QED
    BY <2>1, <2>2
<1>6. signal'[q][Phase(c)] = Cardinality({ o \in Ranks : Counts(b + sent'[o][q], Phase(c)) })
  <2> DEFINE S == Sources(q, Phase(c))
             T == { o \in Ranks : Counts(b + sent'[o][q], Phase(c)) }
  <2>1. IsFiniteSet(S) /\ S \subseteq Ranks
    BY SourcesFinite
  <2>2. signal[q][Phase(c)] = Cardinality(S) /\ Cardinality(S) \in Nat
    BY <1>3, <2>1, FS_CardinalityType DEF IInv, Words
  <2>3. \A o \in Ranks : o # r => (Counts(b + sent'[o][q], Phase(c)) <=> Counts(b + sent[o][q], Phase(c)))
    BY <1>1
  <2>4. CASE c \in {0, 1}
    <3>1. r \notin S /\ T = S \cup {r}
      BY <1>a, <1>1, <1>3, <2>3, <2>4 DEF Sources
    <3>2. Cardinality(T) = Cardinality(S) + 1
      BY <2>1, <3>1, FS_AddElement
    <3> QED
      BY <1>a, <1>3, <1>4, <2>2, <2>4, <3>2 DEF Sources
  <2>5. CASE c \in {2, 3}
    <3>1. r \in S /\ T = S \ {r}
      BY <1>a, <1>1, <1>3, <2>3, <2>5 DEF Sources
    <3>2. Cardinality(T) = Cardinality(S) - 1
      BY <2>1, <3>1, FS_RemoveElement
    <3>3. signal'[q][Phase(c)] = Cardinality(S) - 1
      BY <1>3, <1>4, <2>2, <2>5
    <3> QED
      BY <1>a, <3>2, <3>3 DEF Sources
  <2> QED
    BY <1>3, <2>4, <2>5
<1>7. ASSUME NEW d \in Ranks, NEW phase \in {0, 1}
      PROVE  signal'[d][phase] = Cardinality(Sources(d, phase)')
  <2>1. CASE d = q /\ phase = Phase(c)
    BY <1>a, <1>6, <2>1 DEF Sources
  <2>2. CASE d # q \/ phase # Phase(c)
    BY <1>4, <1>5, <2>2 DEF IInv, Words
  <2> QED
    BY <2>1, <2>2
<1> QED
  BY <1>7 DEF Words

LEMMA BeforeBump ==
  ASSUME IInv, NEW r \in Ranks, pc[r][0] = "signal"
  PROVE  counter[r] = (setup.before + passed[r]) % 4 /\ setup.before + passed[r] \in Nat
<1>1. counter[r] = (setup.before + passed[r] + 0) % 4 /\ passed[r] \in Nat /\ setup \in Setups
  BY DEF IInv, TypeInv, Sending
<1>2. setup.before \in Nat
  BY <1>1, SetupBefore
<1>3. setup.before + passed[r] + 0 = setup.before + passed[r] /\ setup.before + passed[r] \in Nat
  BY <1>1, <1>2
<1> QED
  BY <1>1, <1>3

LEMMA SignalInv ==
  ASSUME IInv, NEW r \in Ranks, NEW q \in Ranks, Signal(r, q)
  PROVE  IInv'
<1>1. /\ pc[r][0] = "signal" /\ sent[r][q] = passed[r] /\ passed[r] \in Nat
      /\ counter[r] = (setup.before + passed[r]) % 4 /\ setup.before + passed[r] \in Nat
      /\ sent' = [sent EXCEPT ![r][q] = passed[r] + 1]
      /\ signal' = [signal EXCEPT ![q][Phase(counter[r])] = @ + Step(counter[r])]
      /\ UNCHANGED <<setup, counter, pc, site, launch, passed>>
  <2>1. /\ pc[r][0] = "signal" /\ sent[r][q] = passed[r]
        /\ sent' = [sent EXCEPT ![r][q] = @ + 1]
        /\ signal' = [signal EXCEPT ![q][Phase(counter[r])] = @ + Step(counter[r])]
        /\ UNCHANGED <<setup, counter, pc, site, launch, passed>>
    BY DEF Signal, ctaVars
  <2>2. passed[r] \in Nat /\ sent \in [Ranks -> [Ranks -> Nat]]
    BY DEF IInv, TypeInv
  <2>3. sent' = [sent EXCEPT ![r][q] = passed[r] + 1]
    BY <2>1, <2>2
  <2>4. counter[r] = (setup.before + passed[r]) % 4 /\ setup.before + passed[r] \in Nat
    BY <2>1, <2>2, BeforeBump
  <2> QED
    BY <2>1, <2>2, <2>3, <2>4
<1>2. Step(counter[r]) \in Int /\ Phase(counter[r]) \in {0, 1}
  BY <1>1, OneSignal DEF Step
<1>3. /\ sent' \in [Ranks -> [Ranks -> Nat]]
      /\ sent'[r][q] = passed[r] + 1
      /\ \A o, d \in Ranks : (o # r \/ d # q) => sent'[o][d] = sent[o][d]
  <2>1. sent \in [Ranks -> [Ranks -> Nat]] /\ passed[r] \in Nat
    BY DEF IInv, TypeInv
  <2>2. sent' = [sent EXCEPT ![r][q] = passed[r] + 1]
    BY <1>1
  <2> QED
    BY <2>1, <2>2
<1>4. TypeInv'
  <2>1. signal' \in [Ranks -> [{0, 1} -> Int]]
    <3>1. signal \in [Ranks -> [{0, 1} -> Int]]
      BY DEF IInv, TypeInv
    <3>2. signal[q][Phase(counter[r])] + Step(counter[r]) \in Int
      BY <1>2, <3>1
    <3>3. signal' = [signal EXCEPT ![q][Phase(counter[r])] =
                       signal[q][Phase(counter[r])] + Step(counter[r])]
      BY <1>1, <1>2, <3>1
    <3> QED
      BY <1>2, <3>1, <3>2, <3>3
  <2> QED
    BY <1>1, <1>3, <2>1 DEF IInv, TypeInv, Sites
<1>5. Leaders'
  BY <1>1 DEF IInv, Leaders, Leader, PassedAt, Barriers, Sites
<1>6. Sending'
  BY <1>1, <1>3 DEF IInv, Sending
<1>7. Met'
  <2> SUFFICES ASSUME NEW o \in Ranks, NEW d \in Ranks PROVE passed[d] <= sent'[o][d]
    BY <1>1 DEF Met
  <2>1. passed[d] <= sent[o][d] /\ passed[d] \in Nat /\ sent[o][d] \in Nat
    BY DEF IInv, Met, TypeInv
  <2>2. CASE o = r /\ d = q
    BY <1>1, <1>3, <2>1, <2>2
  <2>3. CASE o # r \/ d # q
    BY <1>3, <2>1, <2>3
  <2> QED
    BY <2>2, <2>3
<1>8. Words'
  BY <1>1, SignalWords
<1> QED
  BY <1>4, <1>5, <1>6, <1>7, <1>8 DEF IInv

\* CTA 0 bumps the counter once all its signals are out.
LEMMA UpdateStatusInv ==
  ASSUME IInv, NEW r \in Ranks, UpdateStatus(r)
  PROVE  IInv'
<1>1. /\ pc[r][0] = "signal"
      /\ \A q \in Ranks : sent[r][q] = passed[r] + 1
      /\ counter' = [counter EXCEPT ![r] = (@ + 1) % 4]
      /\ pc' = [pc EXCEPT ![r][0] = "wait"]
      /\ UNCHANGED <<setup, signal, site, launch, sent, passed>>
  BY DEF UpdateStatus, Goto, ctaVars
<1>2. setup.before + passed[r] \in Nat /\ counter[r] = (setup.before + passed[r]) % 4
  BY <1>1, BeforeBump
<1>3. /\ (counter[r] + 1) % 4 = (setup.before + passed[r] + 1) % 4
      /\ (setup.before + passed[r] + 1) % 4 \in 0 .. 3
  <2>1. \A n \in Nat : ((n % 4) + 1) % 4 = (n + 1) % 4 /\ (n + 1) % 4 \in 0 .. 3
    OBVIOUS
  <2> QED
    BY <1>2, <2>1
<1>4. /\ pc' \in [Ranks -> [SMs -> Locations]]
      /\ pc'[r][0] = "wait"
      /\ \A q \in Ranks : q # r => pc'[q][0] = pc[q][0]
      /\ counter' \in [Ranks -> 0 .. 3]
      /\ counter'[r] = (setup.before + passed[r] + 1) % 4
      /\ \A q \in Ranks : q # r => counter'[q] = counter[q]
  BY <1>1, <1>3, ZeroSM DEF IInv, TypeInv, Locations
<1>5. TypeInv'
  BY <1>1, <1>4 DEF IInv, TypeInv, Sites
<1>6. Leaders'
  <2>1. ASSUME NEW q \in Ranks PROVE Leader(passed[q], pc'[q][0], site[q][0], launch[q][0])
    BY <1>1, <1>4 DEF IInv, Leaders, Leader, PassedAt
  <2> QED
    BY <1>1, <2>1 DEF Leaders, Leader, PassedAt, Barriers, Sites
<1>7. Sending'
  BY <1>1, <1>4 DEF IInv, Sending
<1>8. Met' /\ Words'
  BY <1>1 DEF IInv, Met, Words, Sources
<1> QED
  BY <1>5, <1>6, <1>7, <1>8 DEF IInv

LEMMA TimeoutInv ==
  ASSUME IInv, NEW r \in Ranks, Timeout(r)
  PROVE  IInv'
<1>1. /\ pc[r][0] = "wait"
      /\ pc' = [pc EXCEPT ![r] = [sm \in SMs |-> IF pc[r][sm] = "exited"
                                                 THEN "exited" ELSE "trapped"]]
      /\ UNCHANGED <<setup, counter, signal, site, launch, sent, passed>>
  BY DEF Timeout, ctaVars
<1>2. /\ pc' \in [Ranks -> [SMs -> Locations]]
      /\ pc'[r][0] = "trapped"
      /\ \A q \in Ranks : q # r => pc'[q][0] = pc[q][0]
  BY <1>1, ZeroSM DEF IInv, TypeInv, Locations
<1>3. TypeInv'
  BY <1>1, <1>2 DEF IInv, TypeInv, Sites
<1>4. Leaders'
  <2>1. ASSUME NEW q \in Ranks PROVE Leader(passed[q], pc'[q][0], site[q][0], launch[q][0])
    BY <1>1, <1>2 DEF IInv, Leaders, Leader, PassedAt
  <2> QED
    BY <1>1, <2>1 DEF Leaders, Leader, PassedAt, Barriers, Sites
<1>5. Sending'
  BY <1>1, <1>2 DEF IInv, Sending
<1>6. Met' /\ Words'
  BY <1>1 DEF IInv, Met, Words, Sources
<1> QED
  BY <1>3, <1>4, <1>5, <1>6 DEF IInv

-----------------------------------------------------------------------------
\* When a rank sees its word at the target, everybody has signalled it.
LEMMA Arrival ==
  ASSUME IInv, NEW r \in Ranks, pc[r][0] = "wait", Arrived(r)
  PROVE  \A q \in Ranks : sent[q][r] >= passed[r] + 1
<1> DEFINE c == Status(r)
<1> PICK b \in Nat : b = setup.before
  BY SetupBefore DEF IInv, TypeInv
<1> PICK m \in Nat : m = b + passed[r]
  BY DEF IInv, TypeInv
<1>1. m \in Nat /\ counter[r] = (m + 1) % 4
  BY DEF IInv, TypeInv, Sending
<1>2. c = m % 4
  BY <1>1, NextMod DEF Status
<1>3. /\ c \in {0, 1, 2, 3} /\ Phase(c) \in {0, 1}
      /\ c \in {0, 1} => Target(c) = NumRanks /\ ~Counts(m, Phase(c))
      /\ c \in {2, 3} => Target(c) = 0 /\ Counts(m, Phase(c))
  BY <1>1, <1>2, OneSignal
<1>4. Cardinality(Sources(r, Phase(c))) = Target(c)
  BY <1>3 DEF Arrived, IInv, Words
<1>5. Sources(r, Phase(c)) \subseteq Ranks /\ IsFiniteSet(Sources(r, Phase(c)))
  BY SourcesFinite
<1>6. ASSUME NEW q \in Ranks PROVE b + sent[q][r] # m
  <2>1. CASE c \in {0, 1}
    <3>1. Cardinality(Sources(r, Phase(c))) = NumRanks
      BY <1>3, <1>4, <2>1
    <3>2. Sources(r, Phase(c)) = Ranks
      BY <1>5, <3>1, RanksFinite, FS_Subset
    <3> QED
      BY <1>3, <2>1, <3>2 DEF Sources
  <2>2. CASE c \in {2, 3}
    <3>1. Sources(r, Phase(c)) = {}
      BY <1>3, <1>4, <1>5, <2>2, FS_EmptySet
    <3> QED
      BY <1>3, <2>2, <3>1 DEF Sources
  <2> QED
    BY <1>3, <2>1, <2>2
<1>7. ASSUME NEW q \in Ranks
      PROVE  sent[q][r] \in Nat /\ passed[r] \in Nat /\ passed[r] <= sent[q][r]
  BY DEF IInv, TypeInv, Met
<1> QED
  BY <1>6, <1>7

LEMMA ObserveInv ==
  ASSUME IInv, NEW r \in Ranks, Observe(r)
  PROVE  IInv'
<1>1. /\ pc[r][0] = "wait" /\ Arrived(r)
      /\ passed' = [passed EXCEPT ![r] = @ + 1]
      /\ AfterSignals(r, 0)
      /\ UNCHANGED <<setup, counter, signal, launch, sent>>
  BY DEF Observe
<1>2. PICK where \in Locations, s \in 1 .. Len(Sites) :
        /\ Moved(r, 0, where, s)
        /\ \/ where = "exited" /\ s = 1 /\ site[r][0] = Len(Sites)
           \/ where = "entry" /\ s = site[r][0] + 1
           \/ where = "call_epilogue" /\ s = site[r][0]
  BY <1>1, AfterSignalsMoves, ZeroSM DEF IInv
<1>3. /\ pc' \in [Ranks -> [SMs -> Locations]]
      /\ site' \in [Ranks -> [SMs -> 1 .. Len(Sites)]]
      /\ pc'[r][0] = where /\ site'[r][0] = s
      /\ \A q \in Ranks : q # r => pc'[q][0] = pc[q][0] /\ site'[q][0] = site[q][0]
  BY <1>2, MovedType, ZeroSM DEF IInv
<1>4. /\ passed' \in [Ranks -> Nat]
      /\ passed[r] \in Nat /\ passed'[r] = passed[r] + 1
      /\ \A q \in Ranks : q # r => passed'[q] = passed[q]
  BY <1>1 DEF IInv, TypeInv
<1>5. TypeInv'
  BY <1>1, <1>3, <1>4 DEF IInv, TypeInv, Sites
<1>6. Leaders'
  <2>1. Leader(passed'[r], where, s, launch[r][0])
    <3>1. /\ passed[r] = Barriers(launch[r][0] - 1) + (site[r][0] - 1) + 0
          /\ launch[r][0] >= 1
      BY <1>1, LeaderAt DEF Leader, PassedAt
    <3>2. /\ launch[r][0] \in Nat /\ site[r][0] \in 1 .. Len(Sites)
          /\ setup \in Setups
      BY LeaderAt
    <3>3. launch[r][0] - 1 \in Nat
      BY <3>1, <3>2
    <3>4. Barriers(launch[r][0] - 1) \in Nat
      BY <3>2, <3>3, BarriersOf
    <3>5. site[r][0] \in Nat
      BY <3>2, SetupType
    <3>6. passed'[r] = Barriers(launch[r][0] - 1) + (site[r][0] - 1) + 1
      BY <1>4, <3>1, <3>4, <3>5
    <3>7. passed'[r] \in Nat
      BY <1>4
    <3> QED
      BY <1>2, <3>1, <3>2, <3>6, <3>7, LeaderReturns
  <2>2. ASSUME NEW q \in Ranks
        PROVE  Leader(passed'[q], pc'[q][0], site'[q][0], launch[q][0])
    BY <1>3, <1>4, <2>1 DEF IInv, Leaders
  <2> QED
    BY <1>1, <2>2 DEF Leaders, Leader, PassedAt, Barriers, Sites
<1>7. where \notin {"wait", "trapped"}
  BY <1>2
<1>8. ASSUME NEW q \in Ranks PROVE sent[r][q] = passed[r] + 1
  BY <1>1 DEF IInv, Sending
<1>9. Sending'
  <2>1. counter[r] = (setup.before + passed[r] + 1) % 4
    BY <1>1 DEF IInv, Sending
  <2>2. setup.before + passed'[r] + 0 = setup.before + passed[r] + 1
    <3>1. setup.before \in Nat
      BY SetupBefore DEF IInv, TypeInv
    <3> QED
      BY <1>4, <3>1
  <2> QED
    BY <1>1, <1>3, <1>4, <1>7, <1>8, <2>1, <2>2 DEF IInv, Sending
<1>10. Met'
  <2>1. ASSUME NEW p \in Ranks, NEW q \in Ranks PROVE passed'[p] <= sent[q][p]
    <3>1. CASE p = r
      BY <1>1, <1>4, <3>1, Arrival DEF IInv, TypeInv
    <3>2. CASE p # r
      BY <1>4, <3>2 DEF IInv, Met
    <3> QED
      BY <3>1, <3>2
  <2> QED
    BY <1>1, <2>1 DEF Met
<1>11. Words'
  BY <1>1 DEF IInv, Words, Sources
<1> QED
  BY <1>5, <1>6, <1>9, <1>10, <1>11 DEF IInv

LEMMA StepInv == IInv /\ [Next]_vars => IInv'
<1> SUFFICES ASSUME IInv, [Next]_vars PROVE IInv'
  OBVIOUS
<1>1. ASSUME UNCHANGED vars PROVE IInv'
  <2>1. TypeInv'
    BY <1>1 DEF vars, IInv, TypeInv, Sites
  <2>2. Leaders'
    BY <1>1 DEF vars, IInv, Leaders, Leader, PassedAt, Barriers, Sites
  <2>3. Sending'
    BY <1>1 DEF vars, IInv, Sending
  <2>4. Met' /\ Words'
    BY <1>1 DEF vars, IInv, Met, Words, Sources
  <2> QED
    BY <2>1, <2>2, <2>3, <2>4 DEF IInv
<1>2. ASSUME NEW r \in Ranks, LeaderStep(r) PROVE IInv'
  BY <1>2, SignalInv, UpdateStatusInv, ObserveInv, TimeoutInv DEF LeaderStep
<1> QED
  BY <1>1, <1>2, CtaStepInv DEF Next, Finished

\* The invariant: each word is the number of ranks whose last signal to it
\* was +1, and no rank has observed a barrier that one has not signalled.
THEOREM Invariant == Spec => []IInv
<1> QED
  BY InitInv, StepInv, PTL DEF Spec

-----------------------------------------------------------------------------
\* A rank has arrived from its first signal of a barrier until it leaves.
LEMMA Arrivals ==
  ASSUME IInv, NEW r \in Ranks
  PROVE  /\ arrivals[r] = IF \E q \in Ranks : sent[r][q] # passed[r]
                             THEN passed[r] + 1 ELSE passed[r]
         /\ passed[r] \in Nat
         /\ \A q \in Ranks : sent[q][r] <= arrivals[q]
<1>1. \A q \in Ranks : passed[q] \in Nat /\ passed[q] + 1 > passed[q]
  BY DEF IInv, TypeInv
<1>2. \A o, q \in Ranks : sent[o][q] \in {passed[o], passed[o] + 1}
  BY DEF IInv, Sending
<1>3. \A o, q \in Ranks : sent[o][q] > passed[o] <=> sent[o][q] # passed[o]
  BY <1>1, <1>2
<1>4. \A o \in Ranks : arrivals[o] = IF \E q \in Ranks : sent[o][q] # passed[o]
                                        THEN passed[o] + 1 ELSE passed[o]
  BY <1>3 DEF arrivals
<1>5. ASSUME NEW q \in Ranks PROVE sent[q][r] <= arrivals[q]
  BY <1>1, <1>2, <1>4
<1> QED
  BY <1>1, <1>4, <1>5

\* A rank that signals a barrier has launches left to make it in.
LEMMA BarriersLeft ==
  ASSUME IInv, NEW r \in Ranks, pc[r][0] = "signal"
  PROVE  passed[r] < MaxBarriers
<1>1. /\ passed[r] = Barriers(launch[r][0] - 1) + (site[r][0] - 1) + 0
      /\ launch[r][0] >= 1
  BY LeaderAt DEF Leader, PassedAt
<1>2. /\ launch[r][0] \in Nat /\ launch[r][0] <= setup.launches
      /\ site[r][0] \in 1 .. Len(Sites) /\ setup \in Setups
  BY LeaderAt
<1>3. launch[r][0] - 1 \in Nat /\ (launch[r][0] - 1) + 1 = launch[r][0]
  BY <1>1, <1>2
<1>4. Barriers(launch[r][0] - 1) \in Nat /\ Barriers(launch[r][0] - 1) + Len(Sites) <= MaxBarriers
  <2>1. Barriers(launch[r][0]) <= MaxBarriers
    BY <1>2, BarriersOf
  <2> QED
    BY <1>2, <1>3, <2>1, BarriersOf
<1>5. Len(Sites) \in Nat /\ MaxBarriers \in Nat
  BY <1>2, SetupType
<1> QED
  BY <1>1, <1>2, <1>4, <1>5

\* The CTA 0s of the ranks, whose signals land in any order in two words
\* that are never reset, implement one abstract barrier: the first signal of
\* a rank is its arrival, the poll that sees the target its release.
THEOREM Implements == Spec => ImplementsBarrier
<1>1. Init => CrossRank!Init
  BY DEF Init, CrossRank!Init, arrivals
<1>2. ASSUME IInv, IInv', [Next]_vars
      PROVE  [CrossRank!Next]_(CrossRank!vars)
  <2>1. ASSUME UNCHANGED <<sent, passed>> PROVE UNCHANGED CrossRank!vars
    BY <2>1 DEF CrossRank!vars, arrivals
  <2>2. ASSUME NEW r \in Ranks, NEW q \in Ranks, Signal(r, q)
        PROVE  CrossRank!Arrive(r) \/ UNCHANGED CrossRank!vars
    <3>1. /\ pc[r][0] = "signal" /\ sent[r][q] = passed[r] /\ passed[r] \in Nat
          /\ sent' = [sent EXCEPT ![r][q] = @ + 1] /\ UNCHANGED passed
          /\ sent \in [Ranks -> [Ranks -> Nat]]
      BY <1>2, <2>2 DEF Signal, IInv, TypeInv
    <3>2. /\ sent'[r][q] = passed[r] + 1
          /\ \A o, d \in Ranks : (o # r \/ d # q) => sent'[o][d] = sent[o][d]
      BY <3>1
    <3>3. \A o \in Ranks :
            /\ arrivals[o] = IF \E d \in Ranks : sent[o][d] # passed[o]
                                THEN passed[o] + 1 ELSE passed[o]
            /\ arrivals'[o] = IF \E d \in Ranks : sent'[o][d] # passed[o]
                                 THEN passed[o] + 1 ELSE passed[o]
      <4>1. \A o \in Ranks : arrivals[o] = IF \E d \in Ranks : sent[o][d] # passed[o]
                                              THEN passed[o] + 1 ELSE passed[o]
        BY <1>2, Arrivals
      <4>2. \A o, d \in Ranks : sent'[o][d] \in {passed'[o], passed'[o] + 1}
        BY <1>2 DEF IInv, Sending
      <4>3. \A o \in Ranks : passed'[o] = passed[o] /\ passed[o] \in Nat
        BY <1>2, <3>1 DEF IInv, TypeInv
      <4>4. \A o, d \in Ranks : sent'[o][d] > passed'[o] <=> sent'[o][d] # passed[o]
        BY <4>2, <4>3
      <4> QED
        BY <4>1, <4>3, <4>4 DEF arrivals
    <3>4. arrivals'[r] = passed[r] + 1
      BY <3>1, <3>2, <3>3
    <3>5. \A o \in Ranks : o # r => arrivals'[o] = arrivals[o]
      BY <3>2, <3>3
    <3>6. CASE \E d \in Ranks : sent[r][d] # passed[r]
      <4>1. arrivals' = arrivals
        BY <3>3, <3>4, <3>5, <3>6 DEF arrivals
      <4> QED
        BY <3>1, <4>1 DEF CrossRank!vars
    <3>7. CASE ~ \E d \in Ranks : sent[r][d] # passed[r]
      <4>1. arrivals[r] = passed[r]
        BY <3>3, <3>7
      <4>2. arrivals' = [arrivals EXCEPT ![r] = @ + 1]
        BY <3>4, <3>5, <4>1 DEF arrivals
      <4>3. passed[r] < MaxBarriers
        BY <1>2, <3>1, BarriersLeft
      <4> QED
        BY <3>1, <4>1, <4>2, <4>3 DEF CrossRank!Arrive
    <3> QED
      BY <3>6, <3>7
  <2>3. ASSUME NEW r \in Ranks, Observe(r) PROVE CrossRank!Leave(r)
    <3>1. /\ pc[r][0] = "wait" /\ Arrived(r)
          /\ passed' = [passed EXCEPT ![r] = @ + 1] /\ UNCHANGED sent
      BY <2>3 DEF Observe
    <3>2. /\ passed[r] \in Nat /\ passed \in [Ranks -> Nat]
          /\ \A q \in Ranks : sent[r][q] = passed[r] + 1
      BY <1>2, <3>1 DEF IInv, TypeInv, Sending
    <3>3. arrivals[r] = passed[r] + 1
      BY <1>2, <3>2, Arrivals
    <3>4. \A q \in Ranks : arrivals[r] <= arrivals[q]
      <4> SUFFICES ASSUME NEW q \in Ranks PROVE arrivals[r] <= arrivals[q]
        OBVIOUS
      <4>1. passed[r] + 1 <= sent[q][r] /\ sent[q][r] <= arrivals[q] /\ sent[q][r] \in Nat
        <5>1. sent[q][r] >= passed[r] + 1
          BY <1>2, <3>1, Arrival
        <5>2. sent[q][r] \in Nat
          BY <1>2 DEF IInv, TypeInv
        <5>3. sent[q][r] <= arrivals[q]
          BY <1>2, Arrivals
        <5> QED
          BY <3>2, <5>1, <5>2, <5>3
      <4>2. arrivals[q] \in Nat
        BY <1>2, Arrivals
      <4> QED
        BY <3>2, <3>3, <4>1, <4>2
    <3>5. arrivals' = arrivals
      <4>1. ASSUME NEW o \in Ranks PROVE arrivals'[o] = arrivals[o]
        <5>1. CASE o = r
          <6>1. passed'[r] = passed[r] + 1 /\ \A q \in Ranks : ~(sent'[r][q] > passed'[r])
            BY <3>1, <3>2
          <6> QED
            BY <3>3, <5>1, <6>1 DEF arrivals
        <5>2. CASE o # r
          BY <3>1, <3>2, <5>2 DEF arrivals
        <5> QED
          BY <5>1, <5>2
      <4> QED
        BY <4>1 DEF arrivals
    <3> QED
      BY <3>1, <3>2, <3>3, <3>4, <3>5 DEF CrossRank!Leave
  <2>4. ASSUME NEW r \in Ranks, NEW sm \in SMs, CtaStep(r, sm) PROVE UNCHANGED <<sent, passed>>
    BY <2>4 DEF CtaStep, Start, Enter, LeavePrologue, SeeDone, EnterEpilogue, LeaveEpilogue
  <2>5. ASSUME NEW r \in Ranks, UpdateStatus(r) \/ Timeout(r) PROVE UNCHANGED <<sent, passed>>
    BY <2>5 DEF UpdateStatus, Timeout
  <2>6. ASSUME UNCHANGED vars PROVE UNCHANGED <<sent, passed>>
    BY <2>6 DEF vars
  <2> QED
    BY <1>2, <2>1, <2>2, <2>3, <2>4, <2>5, <2>6 DEF Next, Finished, LeaderStep, CrossRank!Next
<1> QED
  BY <1>1, <1>2, Invariant, PTL DEF Spec, ImplementsBarrier, CrossRank!Safe
-----------------------------------------------------------------------------
(***************************************************************************)
(* What a CTA that has returned from a barrier knows of the CTAs of all    *)
(* ranks.  The calls of a rank are numbered through all its launches; ss   *)
(* is the program of a launch.  Half positions count the grid_syncs: the   *)
(* k-th call is entered at 2k - 1 and its trailing grid_sync at 2k.        *)
(***************************************************************************)
Program(ss) == ss \in Seq(Call) /\ Len(ss) \in Nat \ {0}
SiteOf(ss, k) == ss[((k - 1) % Len(ss)) + 1]

\* Calls that a CTA at call s of launch l has returned from.
RetAt(ss, w, s, l) ==
  IF w = "exited" THEN l * Len(ss) ELSE (l - 1) * Len(ss) + (s - 1)
HalfAt(ss, w, s, l) ==
  2 * RetAt(ss, w, s, l) +
    (IF w \in {"exited", "entry"} THEN 0 ELSE IF w = "epilogue" THEN 2 ELSE 1)

IsSync(ss, t) ==
  IF t % 2 = 1 THEN SiteOf(ss, (t + 1) \div 2).prologue
               ELSE SiteOf(ss, t \div 2).epilogue /\ ~SiteOf(ss, t \div 2).fast
SyncsTo(ss, h) == { t \in 1 .. h : IsSync(ss, t) }

\* CTA sm at a place, with g grid_sync calls made.
Placed(ss, sm, w, s, l, g) ==
  /\ w = "exited" => s = 1
  /\ w # "exited" => l >= 1
  /\ w \in {"call_epilogue", "epilogue"} => ss[s].epilogue /\ ~ss[s].fast
  /\ w = "done_word" => ss[s].fast
  /\ w = "prologue" => ss[s].prologue
  /\ sm = 0 \/ w # "trapped" => g = Cardinality(SyncsTo(ss, HalfAt(ss, w, s, l)))

LEMMA Remainder ==
  ASSUME NEW d \in Nat \ {0}, NEW f \in Int, NEW s \in 0 .. d - 1
  PROVE  (f * d + s) % d = s
<1> DEFINE q == (f * d + s) \div d
           m == (f * d + s) % d
<1>1. q \in Int /\ m \in Int /\ f * d + s = d * q + m /\ 0 <= m /\ m < d
  <2>1. f * d + s \in Int
    OBVIOUS
  <2> QED
    BY <2>1
<1> HIDE DEF q, m
<1>2. ASSUME f > q PROVE FALSE
  <2>1. PICK e \in Nat : f = q + 1 + e
    <3>1. f - (q + 1) \in Nat /\ f = q + 1 + (f - (q + 1))
      BY <1>1, <1>2
    <3> QED
      BY <3>1
  <2>2. f * d = d * q + d + e * d /\ e * d \in Nat /\ d * q \in Int
    BY <1>1, <2>1
  <2> QED
    BY <1>1, <2>2
<1>3. ASSUME f < q PROVE FALSE
  <2>1. PICK e \in Nat : q = f + 1 + e
    <3>1. q - (f + 1) \in Nat /\ q = f + 1 + (q - (f + 1))
      BY <1>1, <1>3
    <3> QED
      BY <3>1
  <2>2. d * q = f * d + d + e * d /\ e * d \in Nat /\ f * d \in Int
    BY <1>1, <2>1
  <2> QED
    BY <1>1, <2>2
<1>4. f = q
  BY <1>1, <1>2, <1>3
<1>5. d * q = f * d /\ f * d \in Int
  BY <1>1, <1>4
<1>6. m = s
  BY <1>1, <1>5
<1> QED
  BY <1>6 DEF m

\* The calls of the launches before.
LEMMA Launches ==
  ASSUME NEW n \in Nat \ {0}, NEW l \in Nat, l >= 1
  PROVE  /\ (l - 1) * n \in Nat /\ l * n \in Nat
         /\ l * n = (l - 1) * n + n
         /\ ((l + 1) - 1) * n = l * n
  OBVIOUS

LEMMA RetType ==
  ASSUME NEW ss, Program(ss), NEW w, NEW s \in 1 .. Len(ss), NEW l \in Nat,
         w # "exited" => l >= 1
  PROVE  /\ RetAt(ss, w, s, l) \in Nat
         /\ HalfAt(ss, w, s, l) \in Nat
         /\ HalfAt(ss, w, s, l) \in 2 * RetAt(ss, w, s, l) .. 2 * RetAt(ss, w, s, l) + 2
<1>1. RetAt(ss, w, s, l) \in Nat
  <2>1. CASE w = "exited"
    BY <2>1 DEF RetAt, Program
  <2>2. CASE w # "exited"
    <3>1. (l - 1) * Len(ss) \in Nat /\ s - 1 \in Nat
      BY <2>2 DEF Program
    <3> QED
      BY <2>2, <3>1 DEF RetAt
  <2> QED
    BY <2>1, <2>2
<1> QED
  BY <1>1 DEF HalfAt

\* The call a CTA is at is the next one it returns from.
LEMMA SiteAt ==
  ASSUME NEW ss, Program(ss), NEW w, w # "exited", NEW s \in 1 .. Len(ss),
         NEW l \in Nat, l >= 1
  PROVE  SiteOf(ss, RetAt(ss, w, s, l) + 1) = ss[s]
<1> DEFINE n == Len(ss)
<1>1. n \in Nat \ {0} /\ l - 1 \in Int /\ s - 1 \in 0 .. n - 1
  BY DEF Program
<1>2. ((l - 1) * n + (s - 1)) % n = s - 1
  BY <1>1, Remainder
<1>3. (RetAt(ss, w, s, l) + 1) - 1 = (l - 1) * n + (s - 1)
  <2>1. RetAt(ss, w, s, l) \in Nat
    BY RetType
  <2> QED
    BY <2>1 DEF RetAt
<1>4. ((RetAt(ss, w, s, l) + 1) - 1) % n = s - 1
  BY <1>2, <1>3
<1>5. ((RetAt(ss, w, s, l) + 1) - 1) % Len(ss) = s - 1
  BY <1>4
<1>6. SiteOf(ss, RetAt(ss, w, s, l) + 1) = ss[(s - 1) + 1]
  BY <1>5 DEF SiteOf
<1> QED
  BY <1>1, <1>6

LEMMA SyncPlaces ==
  ASSUME NEW ss, NEW k \in Nat
  PROVE  /\ IsSync(ss, 2 * k + 1) = SiteOf(ss, k + 1).prologue
         /\ IsSync(ss, 2 * k + 2) = (SiteOf(ss, k + 1).epilogue /\ ~SiteOf(ss, k + 1).fast)
<1>1. (2 * k + 1) % 2 = 1 /\ ((2 * k + 1) + 1) \div 2 = k + 1
  OBVIOUS
<1>2. (2 * k + 2) % 2 = 0 /\ (2 * k + 2) \div 2 = k + 1
  OBVIOUS
<1> QED
  BY <1>1, <1>2 DEF IsSync

LEMMA SyncsFinite ==
  ASSUME NEW ss, NEW h \in Nat
  PROVE  /\ IsFiniteSet(SyncsTo(ss, h)) /\ Cardinality(SyncsTo(ss, h)) \in Nat
         /\ Cardinality(SyncsTo(ss, h + 1)) =
              Cardinality(SyncsTo(ss, h)) + (IF IsSync(ss, h + 1) THEN 1 ELSE 0)
<1>1. IsFiniteSet(SyncsTo(ss, h))
  <2>1. SyncsTo(ss, h) \in SUBSET (1 .. h)
    BY DEF SyncsTo
  <2> QED
    BY <2>1, FS_Interval, FS_Subset
<1>2. h + 1 \notin SyncsTo(ss, h)
  BY DEF SyncsTo
<1>3. CASE IsSync(ss, h + 1)
  <2>1. SyncsTo(ss, h + 1) = SyncsTo(ss, h) \cup {h + 1}
    BY <1>3 DEF SyncsTo
  <2> QED
    BY <1>1, <1>2, <1>3, <2>1, FS_AddElement, FS_CardinalityType
<1>4. CASE ~IsSync(ss, h + 1)
  <2>1. SyncsTo(ss, h + 1) = SyncsTo(ss, h)
    BY <1>4 DEF SyncsTo
  <2> QED
    BY <1>1, <1>4, <2>1, FS_CardinalityType
<1> QED
  BY <1>3, <1>4

\* Who has made as many grid_sync calls as somebody at a sync is as far.
LEMMA SyncAhead ==
  ASSUME NEW ss, NEW h \in Nat, h >= 1, NEW u \in Nat, IsSync(ss, h),
         Cardinality(SyncsTo(ss, h)) <= Cardinality(SyncsTo(ss, u))
  PROVE  u >= h
<1>1. SUFFICES ASSUME u < h PROVE FALSE
  OBVIOUS
<1>2. SyncsTo(ss, u) \subseteq SyncsTo(ss, h) /\ h \in SyncsTo(ss, h) /\ h \notin SyncsTo(ss, u)
  BY <1>1 DEF SyncsTo
<1>3. /\ IsFiniteSet(SyncsTo(ss, h)) /\ IsFiniteSet(SyncsTo(ss, u))
      /\ Cardinality(SyncsTo(ss, h)) \in Nat /\ Cardinality(SyncsTo(ss, u)) \in Nat
  BY SyncsFinite
<1>4. /\ Cardinality(SyncsTo(ss, u)) <= Cardinality(SyncsTo(ss, h))
      /\ Cardinality(SyncsTo(ss, u)) = Cardinality(SyncsTo(ss, h)) =>
           SyncsTo(ss, u) = SyncsTo(ss, h)
  BY <1>2, <1>3, FS_Subset
<1> QED
  BY <1>2, <1>3, <1>4

\* A launch starts on a CTA.
LEMMA PlaceStart ==
  ASSUME NEW ss, Program(ss), NEW sm, NEW s \in 1 .. Len(ss), NEW l \in Nat, NEW g,
         Placed(ss, sm, "exited", s, l, g)
  PROVE  /\ Placed(ss, sm, "entry", s, l + 1, g)
         /\ RetAt(ss, "entry", s, l + 1) = RetAt(ss, "exited", s, l)
         /\ HalfAt(ss, "entry", s, l + 1) = HalfAt(ss, "exited", s, l)
<1>1. s = 1 /\ g = Cardinality(SyncsTo(ss, HalfAt(ss, "exited", s, l)))
  BY DEF Placed
<1>2. l * Len(ss) \in Nat /\ ((l + 1) - 1) * Len(ss) = l * Len(ss)
  BY DEF Program
<1>3. RetAt(ss, "exited", s, l) = l * Len(ss)
  BY DEF RetAt
<1>4. RetAt(ss, "entry", s, l + 1) = ((l + 1) - 1) * Len(ss) + (s - 1)
  BY DEF RetAt
<1>5. RetAt(ss, "entry", s, l + 1) = RetAt(ss, "exited", s, l)
  BY <1>1, <1>2, <1>3, <1>4
<1>6. HalfAt(ss, "entry", s, l + 1) = HalfAt(ss, "exited", s, l)
  BY <1>5 DEF HalfAt
<1> QED
  BY <1>1, <1>5, <1>6 DEF Placed

\* Inside a call, before its trailing grid_sync.
Middle == {"prologue", "signal", "wait", "call_epilogue", "done_word", "trapped"}

\* grid_sync calls made by who is at a place.
Made(ss, w, s, l) == Cardinality(SyncsTo(ss, HalfAt(ss, w, s, l)))

LEMMA PlaceWithin ==
  ASSUME NEW ss, Program(ss), NEW s \in 1 .. Len(ss), NEW l \in Nat, l >= 1
  PROVE  /\ RetAt(ss, "entry", s, l) \in Nat
         /\ Made(ss, "entry", s, l) \in Nat
         /\ \A w \in Middle :
              /\ HalfAt(ss, w, s, l) = 2 * RetAt(ss, "entry", s, l) + 1
              /\ RetAt(ss, w, s, l) = RetAt(ss, "entry", s, l)
              /\ Made(ss, w, s, l) = Made(ss, "entry", s, l) +
                                       (IF ss[s].prologue THEN 1 ELSE 0)
              /\ Made(ss, "epilogue", s, l) =
                   Made(ss, w, s, l) + (IF ss[s].epilogue /\ ~ss[s].fast THEN 1 ELSE 0)
         /\ RetAt(ss, "epilogue", s, l) = RetAt(ss, "entry", s, l)
         /\ HalfAt(ss, "entry", s, l) = 2 * RetAt(ss, "entry", s, l)
         /\ HalfAt(ss, "epilogue", s, l) = 2 * RetAt(ss, "entry", s, l) + 2
<1> DEFINE r == RetAt(ss, "entry", s, l)
<1>1. r \in Nat
  BY RetType
<1>2. \A w \in Middle \cup {"entry", "epilogue"} : RetAt(ss, w, s, l) = r
  BY DEF RetAt, Middle
<1>3. /\ HalfAt(ss, "entry", s, l) = 2 * r
      /\ \A w \in Middle : HalfAt(ss, w, s, l) = 2 * r + 1
      /\ HalfAt(ss, "epilogue", s, l) = 2 * r + 2
  BY <1>1, <1>2 DEF HalfAt, Middle
<1>4. SiteOf(ss, r + 1) = ss[s]
  BY SiteAt
<1> HIDE DEF r
<1>5. /\ IsSync(ss, 2 * r + 1) = ss[s].prologue
      /\ IsSync(ss, 2 * r + 2) = (ss[s].epilogue /\ ~ss[s].fast)
  BY <1>1, <1>4, SyncPlaces
<1>6. 2 * r \in Nat /\ 2 * r + 1 \in Nat /\ (2 * r + 1) + 1 = 2 * r + 2
  BY <1>1
<1>7. /\ Cardinality(SyncsTo(ss, 2 * r)) \in Nat
      /\ Cardinality(SyncsTo(ss, 2 * r + 1)) =
              Cardinality(SyncsTo(ss, 2 * r)) + (IF IsSync(ss, 2 * r + 1) THEN 1 ELSE 0)
  BY <1>6, SyncsFinite
<1>8. Cardinality(SyncsTo(ss, 2 * r + 2)) =
        Cardinality(SyncsTo(ss, 2 * r + 1)) + (IF IsSync(ss, 2 * r + 2) THEN 1 ELSE 0)
  BY <1>6, SyncsFinite
<1>9. /\ Made(ss, "entry", s, l) = Cardinality(SyncsTo(ss, 2 * r))
      /\ \A w \in Middle : Made(ss, w, s, l) = Cardinality(SyncsTo(ss, 2 * r + 1))
      /\ Made(ss, "epilogue", s, l) = Cardinality(SyncsTo(ss, 2 * r + 2))
  BY <1>3 DEF Made
<1>10. ASSUME NEW w \in Middle
       PROVE  /\ HalfAt(ss, w, s, l) = 2 * r + 1
              /\ RetAt(ss, w, s, l) = r
              /\ Made(ss, w, s, l) = Made(ss, "entry", s, l) +
                                       (IF ss[s].prologue THEN 1 ELSE 0)
              /\ Made(ss, "epilogue", s, l) =
                   Made(ss, w, s, l) + (IF ss[s].epilogue /\ ~ss[s].fast THEN 1 ELSE 0)
  BY <1>2, <1>3, <1>5, <1>7, <1>8, <1>9
<1> QED
  BY <1>1, <1>2, <1>3, <1>7, <1>9, <1>10 DEF r

\* Into the leading grid_sync.
LEMMA PlaceEnter ==
  ASSUME NEW ss, Program(ss), NEW sm, NEW s \in 1 .. Len(ss), NEW l \in Nat, NEW g,
         Placed(ss, sm, "entry", s, l, g), ss[s].prologue
  PROVE  Placed(ss, sm, "prologue", s, l, g + 1)
<1>1. l >= 1 /\ g = Made(ss, "entry", s, l)
  BY DEF Placed, Made
<1> DEFINE r == RetAt(ss, "entry", s, l)
<1>2. g + 1 = Made(ss, "prologue", s, l)
  BY <1>1, PlaceWithin DEF Middle
<1> QED
  BY <1>1, <1>2 DEF Placed, Made

\* Past the leading grid_sync, which a call without one skips.
LEMMA PlacePast ==
  ASSUME NEW ss, Program(ss), NEW sm, NEW s \in 1 .. Len(ss), NEW l \in Nat, NEW g,
         NEW w \in {"entry", "prologue"}, Placed(ss, sm, w, s, l, g),
         w = "entry" => ~ss[s].prologue,
         NEW v \in {"signal", "done_word", "call_epilogue"},
         v = "done_word" => ss[s].fast,
         v = "call_epilogue" => ss[s].epilogue /\ ~ss[s].fast
  PROVE  Placed(ss, sm, v, s, l, g)
<1>1. l >= 1 /\ g = Made(ss, w, s, l)
  BY DEF Placed, Made
<1>2. g = Made(ss, v, s, l)
  <2>4. /\ \A x \in Middle : Made(ss, x, s, l) = Made(ss, "entry", s, l) +
                                 (IF ss[s].prologue THEN 1 ELSE 0)
        /\ Made(ss, "entry", s, l) \in Nat
    BY <1>1, PlaceWithin
  <2>5. v \in Middle /\ "prologue" \in Middle
    BY DEF Middle
  <2>1. Made(ss, v, s, l) = Made(ss, "prologue", s, l)
    BY <2>4, <2>5
  <2>2. CASE w = "prologue"
    BY <1>1, <2>1, <2>2
  <2>3. CASE w = "entry"
    <3>1. Made(ss, "prologue", s, l) = Made(ss, "entry", s, l)
      BY <2>3, <2>4, <2>5
    <3> QED
      BY <1>1, <2>1, <2>3, <3>1
  <2> QED
    BY <2>2, <2>3
<1> QED
  BY <1>1, <1>2 DEF Placed, Made

\* Between two places in the middle of a call.
LEMMA PlaceMiddle ==
  ASSUME NEW ss, Program(ss), NEW sm, NEW s \in 1 .. Len(ss), NEW l \in Nat, NEW g,
         NEW w \in Middle, Placed(ss, sm, w, s, l, g), w # "trapped",
         NEW v \in {"wait", "call_epilogue", "trapped"},
         v = "call_epilogue" => ss[s].epilogue /\ ~ss[s].fast
  PROVE  Placed(ss, sm, v, s, l, g)
<1>1. l >= 1 /\ g = Made(ss, w, s, l)
  BY DEF Placed, Made, Middle
<1>2. Made(ss, v, s, l) = Made(ss, w, s, l)
  <2>1. \A x \in Middle : Made(ss, x, s, l) = Made(ss, "entry", s, l) +
                              (IF ss[s].prologue THEN 1 ELSE 0)
    BY <1>1, PlaceWithin
  <2>2. v \in Middle
    BY DEF Middle
  <2> QED
    BY <2>1, <2>2
<1> QED
  BY <1>1, <1>2 DEF Placed, Made

\* Into the trailing grid_sync.
LEMMA PlaceEpilogue ==
  ASSUME NEW ss, Program(ss), NEW sm, NEW s \in 1 .. Len(ss), NEW l \in Nat, NEW g,
         Placed(ss, sm, "call_epilogue", s, l, g)
  PROVE  Placed(ss, sm, "epilogue", s, l, g + 1)
<1>1. /\ l >= 1 /\ g = Made(ss, "call_epilogue", s, l)
      /\ ss[s].epilogue /\ ~ss[s].fast
  BY DEF Placed, Made
<1>2. g + 1 = Made(ss, "epilogue", s, l)
  BY <1>1, PlaceWithin DEF Middle
<1> QED
  BY <1>1, <1>2 DEF Placed, Made

\* Out of a call: one more returned from, and no grid_sync left out.
LEMMA PlaceReturn ==
  ASSUME NEW ss, Program(ss), NEW sm, NEW s \in 1 .. Len(ss), NEW l \in Nat, NEW g,
         NEW w \in Middle \cup {"entry", "epilogue"}, w # "trapped",
         Placed(ss, sm, w, s, l, g),
         w = "entry" => ~ss[s].prologue,
         w # "epilogue" => ~(ss[s].epilogue /\ ~ss[s].fast),
         NEW v, NEW t,
         \/ v = "exited" /\ t = 1 /\ s = Len(ss)
         \/ v = "entry" /\ t = s + 1
  PROVE  /\ Placed(ss, sm, v, t, l, g)
         /\ RetAt(ss, v, t, l) = RetAt(ss, w, s, l) + 1
         /\ HalfAt(ss, v, t, l) = 2 * RetAt(ss, v, t, l)
<1>1. l >= 1 /\ g = Made(ss, w, s, l)
  BY DEF Placed, Made, Middle
<1> DEFINE r == RetAt(ss, "entry", s, l)
<1>2. r \in Nat /\ RetAt(ss, w, s, l) = r
  BY <1>1, PlaceWithin
<1>3. RetAt(ss, v, t, l) = r + 1
  <2>1. /\ (l - 1) * Len(ss) \in Nat /\ l * Len(ss) = (l - 1) * Len(ss) + Len(ss)
        /\ Len(ss) \in Nat
    BY <1>1, Launches DEF Program
  <2>2. r = (l - 1) * Len(ss) + (s - 1)
    BY DEF RetAt
  <2>3. CASE v = "exited" /\ t = 1 /\ s = Len(ss)
    <3>1. RetAt(ss, v, t, l) = l * Len(ss)
      BY <2>3 DEF RetAt
    <3> QED
      BY <2>1, <2>2, <2>3, <3>1
  <2>4. CASE v = "entry" /\ t = s + 1
    <3>1. RetAt(ss, v, t, l) = (l - 1) * Len(ss) + (t - 1)
      BY <2>4 DEF RetAt
    <3> QED
      BY <2>1, <2>2, <2>4, <3>1
  <2> QED
    BY <2>3, <2>4
<1>4. HalfAt(ss, v, t, l) = HalfAt(ss, "epilogue", s, l)
  <2>1. HalfAt(ss, "epilogue", s, l) = 2 * r + 2
    BY <1>1, PlaceWithin
  <2>2. HalfAt(ss, v, t, l) = 2 * (r + 1) + 0
    BY <1>3 DEF HalfAt
  <2> QED
    BY <1>2, <2>1, <2>2
<1>5. g = Made(ss, "epilogue", s, l)
  <2>1. CASE w = "epilogue"
    BY <1>1, <2>1, PlaceWithin
  <2>4. /\ \A x \in Middle :
             /\ Made(ss, x, s, l) = Made(ss, "entry", s, l) +
                                      (IF ss[s].prologue THEN 1 ELSE 0)
             /\ Made(ss, "epilogue", s, l) =
                  Made(ss, x, s, l) + (IF ss[s].epilogue /\ ~ss[s].fast THEN 1 ELSE 0)
        /\ Made(ss, "entry", s, l) \in Nat
    BY <1>1, PlaceWithin
  <2>2. CASE w \in Middle
    <3>1. w # "epilogue"
      BY <2>2 DEF Middle
    <3> QED
      BY <1>1, <2>2, <2>4, <3>1
  <2>3. CASE w = "entry"
    <3>1. "prologue" \in Middle
      BY DEF Middle
    <3> QED
      BY <1>1, <2>3, <2>4, <3>1
  <2> QED
    BY <2>1, <2>2, <2>3
<1>6. Placed(ss, sm, v, t, l, g)
  BY <1>1, <1>4, <1>5 DEF Placed, Made
<1>7. HalfAt(ss, v, t, l) = 2 * RetAt(ss, v, t, l)
  BY <1>2, <1>3 DEF HalfAt
<1> QED
  BY <1>2, <1>3, <1>6, <1>7

-----------------------------------------------------------------------------
Ret(r, sm) == RetAt(Sites, pc[r][sm], site[r][sm], launch[r][sm])
Half(r, sm) == HalfAt(Sites, pc[r][sm], site[r][sm], launch[r][sm])

AllPlaced ==
  \A r \in Ranks, sm \in SMs :
    Placed(Sites, sm, pc[r][sm], site[r][sm], launch[r][sm], gridCalls[r][sm])

\* The CTAs of a rank run the same launch, or wait for its start.
Together ==
  \A r \in Ranks, a, b \in SMs :
    \/ launch[r][a] = launch[r][b]
    \/ launch[r][a] = launch[r][b] + 1 /\ pc[r][b] = "exited"
    \/ launch[r][b] = launch[r][a] + 1 /\ pc[r][a] = "exited"

\* Calls whose leading grid_sync, if any, CTA 0 has left.
Prologued(r) ==
  Ret(r, 0) + (IF pc[r][0] \in {"exited", "entry", "prologue"} THEN 0 ELSE 1)

\* That grid_sync held CTA 0 back until all CTAs of its rank were there,
\* and a trailing one or the done word holds the others back for CTA 0.
Gathered ==
  \A r \in Ranks, sm \in SMs, k \in Nat :
    (k > 0 /\ k <= Prologued(r) /\ SiteOf(Sites, k).prologue) => Half(r, sm) >= 2 * k - 1
Followed ==
  \A r \in Ranks, sm \in SMs :
    (Ret(r, sm) > 0 /\ SiteOf(Sites, Ret(r, sm)).epilogue) => passed[r] >= Ret(r, sm)

\* The done word of a rank is ahead of what its CTAs read at the start of the
\* launch by the last fast call f that CTA 0 has passed.
DoneAt(r, f) ==
  /\ doneCount[r] = (doneBase[r][0] + f) % DoneMod
  /\ launch[r][0] = 0 => f = 0
  /\ launch[r][0] # 0 => (launch[r][0] - 1) * Len(Sites) + f <= passed[r]
  /\ \A sm \in SMs :
       /\ launch[r][sm] = launch[r][0] => doneBase[r][sm] = doneBase[r][0]
       /\ launch[r][sm] < launch[r][0] => f = 0
       /\ launch[r][sm] > launch[r][0] => doneBase[r][sm] = doneCount[r]
DoneWords == \A r \in Ranks : \E f \in 0 .. Len(Sites) : DoneAt(r, f)

\* The trap of CTA 0 ends them all.
Killed == \A r \in Ranks, sm \in SMs : pc[r][sm] = "trapped" => pc[r][0] = "trapped"

HeldInv ==
  /\ IInv
  /\ gridCalls \in [Ranks -> [SMs -> Nat]]
  /\ doneCount \in [Ranks -> 0 .. DoneMod - 1]
  /\ doneBase \in [Ranks -> [SMs -> 0 .. DoneMod - 1]]
  /\ AllPlaced /\ Together /\ Gathered /\ Followed /\ DoneWords /\ Killed

LEMMA ProgramSites ==
  ASSUME setup \in Setups
  PROVE  /\ Program(Sites) /\ DoneMod \in Nat /\ DoneMod > 2 * Len(Sites)
         /\ \A i \in 1 .. Len(Sites) : Sites[i] \in Call
         /\ \A i \in 1 .. Len(Sites) :
              Sites[i].fast => Sites[i].prologue /\ Sites[i].epilogue
  BY NvlinkAssumption DEF NvlinkAssumption, Sites, Program

LEMMA CtaAt ==
  ASSUME HeldInv, NEW r \in Ranks, NEW sm \in SMs
  PROVE  /\ Program(Sites)
         /\ pc[r][sm] \in Locations /\ site[r][sm] \in 1 .. Len(Sites)
         /\ launch[r][sm] \in Nat /\ gridCalls[r][sm] \in Nat
         /\ Placed(Sites, sm, pc[r][sm], site[r][sm], launch[r][sm], gridCalls[r][sm])
         /\ pc[r][sm] # "exited" => launch[r][sm] >= 1
         /\ Ret(r, sm) \in Nat /\ Half(r, sm) \in Nat
         /\ Half(r, sm) >= 2 * Ret(r, sm) /\ Half(r, sm) <= 2 * Ret(r, sm) + 2
         /\ Prologued(r) \in Nat
         /\ passed[r] \in Nat
<1>1. setup \in Setups /\ TypeInv
  BY DEF HeldInv, IInv, TypeInv
<1>2. Program(Sites)
  BY <1>1, ProgramSites
<1>3. ASSUME NEW o \in SMs
      PROVE  /\ pc[r][o] \in Locations /\ site[r][o] \in 1 .. Len(Sites)
             /\ launch[r][o] \in Nat /\ gridCalls[r][o] \in Nat
             /\ Placed(Sites, o, pc[r][o], site[r][o], launch[r][o], gridCalls[r][o])
             /\ pc[r][o] # "exited" => launch[r][o] >= 1
  <2>1. /\ pc[r][o] \in Locations /\ site[r][o] \in 1 .. Len(Sites)
        /\ launch[r][o] \in 0 .. setup.launches /\ gridCalls[r][o] \in Nat
    BY <1>1 DEF HeldInv, TypeInv
  <2>2. setup.launches \in Nat
    BY <1>1, SetupType
  <2>3. Placed(Sites, o, pc[r][o], site[r][o], launch[r][o], gridCalls[r][o])
    BY DEF HeldInv, AllPlaced
  <2>4. pc[r][o] # "exited" => launch[r][o] >= 1
    BY <2>3 DEF Placed
  <2> QED
    BY <2>1, <2>2, <2>3, <2>4
<1>4. ASSUME NEW o \in SMs
      PROVE  /\ Ret(r, o) \in Nat /\ Half(r, o) \in Nat
             /\ Half(r, o) \in 2 * Ret(r, o) .. 2 * Ret(r, o) + 2
  BY <1>2, <1>3, RetType DEF Ret, Half
<1>5. Ret(r, sm) \in Nat /\ Half(r, sm) \in Nat /\
      Half(r, sm) \in 2 * Ret(r, sm) .. 2 * Ret(r, sm) + 2
  BY <1>4
<1>6. Half(r, sm) >= 2 * Ret(r, sm) /\ Half(r, sm) <= 2 * Ret(r, sm) + 2
  BY <1>5
<1>7. Prologued(r) \in Nat
  <2>1. Ret(r, 0) \in Nat
    BY <1>4, ZeroSM
  <2> QED
    BY <2>1 DEF Prologued
<1>8. passed[r] \in Nat
  BY <1>1 DEF TypeInv
<1> QED
  BY <1>2, <1>3, <1>5, <1>6, <1>7, <1>8

\* What the CTA 0 of a rank has passed lies between its returns and the calls
\* whose signals it has turned to.
LEMMA LeaderPassed ==
  ASSUME HeldInv, NEW r \in Ranks
  PROVE  /\ Ret(r, 0) <= passed[r] /\ passed[r] <= Prologued(r)
         /\ passed[r] = Ret(r, 0) + (IF pc[r][0] \in {"call_epilogue", "epilogue"} THEN 1 ELSE 0)
<1>1. Leader(passed[r], pc[r][0], site[r][0], launch[r][0])
  BY LeaderAt DEF HeldInv
<1>2. Ret(r, 0) \in Nat
  BY CtaAt, ZeroSM
<1>3. passed[r] = PassedAt(pc[r][0], site[r][0], launch[r][0])
  BY <1>1 DEF Leader
<1>4. passed[r] = Ret(r, 0) + (IF pc[r][0] \in {"call_epilogue", "epilogue"} THEN 1 ELSE 0)
  <2>1. CASE pc[r][0] = "exited"
    <3>1. passed[r] = Ret(r, 0)
      BY <1>3, <2>1 DEF PassedAt, Ret, RetAt, Barriers
    <3> QED
      BY <1>2, <2>1, <3>1
  <2>2. CASE pc[r][0] # "exited"
    BY <1>3, <2>2 DEF PassedAt, Ret, RetAt, Barriers
  <2> QED
    BY <2>1, <2>2
<1> QED
  BY <1>2, <1>4 DEF Prologued

\* Who has passed a barrier, has passed one that every rank has signalled.
LEMMA PassedEverywhere ==
  ASSUME HeldInv, NEW r \in Ranks, NEW q \in Ranks
  PROVE  passed[r] <= Prologued(q)
<1>1. /\ passed[r] \in Nat /\ passed[q] \in Nat /\ sent[q][r] \in Nat
      /\ passed[r] <= sent[q][r]
      /\ \/ sent[q][r] = passed[q]
         \/ sent[q][r] = passed[q] + 1 /\ pc[q][0] \in {"signal", "wait", "trapped"}
  BY DEF HeldInv, IInv, TypeInv, Met, Sending
<1>2. /\ Ret(q, 0) \in Nat /\ Prologued(q) \in Nat
      /\ passed[q] = Ret(q, 0) + (IF pc[q][0] \in {"call_epilogue", "epilogue"} THEN 1 ELSE 0)
      /\ passed[q] <= Prologued(q)
  BY CtaAt, LeaderPassed, ZeroSM
<1>3. CASE sent[q][r] = passed[q]
  BY <1>1, <1>2, <1>3
<1>4. CASE sent[q][r] = passed[q] + 1 /\ pc[q][0] \in {"signal", "wait", "trapped"}
  <2>1. Prologued(q) = Ret(q, 0) + 1
    BY <1>4 DEF Prologued
  <2>2. passed[q] = Ret(q, 0)
    BY <1>2, <1>4
  <2> QED
    BY <1>1, <1>4, <2>1, <2>2
<1> QED
  BY <1>1, <1>3, <1>4

LEMMA EnteredAt ==
  ASSUME HeldInv, NEW q \in Ranks, NEW other \in SMs
  PROVE  /\ returned(q, other) = Ret(q, other)
         /\ \A k \in Nat : Half(q, other) >= 2 * k - 1 => entered(q, other) >= k
         /\ other = 0 => entered(q, other) >= Prologued(q)
<1>1. /\ launch[q][other] \in Nat /\ Ret(q, other) \in Nat
      /\ Half(q, other) \in Nat /\ Half(q, other) <= 2 * Ret(q, other) + 2
      /\ pc[q][other] # "exited" => launch[q][other] >= 1
      /\ Len(Sites) \in Nat
  BY CtaAt DEF Program
<1>2. returned(q, other) = Ret(q, other)
  <2>1. CASE launch[q][other] = 0
    <3>1. pc[q][other] = "exited" /\ 0 * Len(Sites) = 0
      BY <1>1, <2>1
    <3> QED
      BY <2>1, <3>1 DEF returned, Ret, RetAt
  <2>2. CASE launch[q][other] # 0
    <3>1. CASE pc[q][other] = "exited"
      BY <2>2, <3>1 DEF returned, Ret, RetAt
    <3>2. CASE pc[q][other] # "exited"
      <4>1. (launch[q][other] - 1) * Len(Sites) \in Nat /\ site[q][other] \in Nat
        BY <1>1, <3>2, CtaAt
      <4> QED
        BY <2>2, <3>2, <4>1 DEF returned, Ret, RetAt
    <3> QED
      BY <3>1, <3>2
  <2> QED
    BY <2>1, <2>2
<1>3. ASSUME NEW k \in Nat, Half(q, other) >= 2 * k - 1 PROVE entered(q, other) >= k
  <2>1. CASE pc[q][other] \in {"exited", "entry"}
    <3>1. Half(q, other) = 2 * Ret(q, other) + 0 /\ entered(q, other) = Ret(q, other) + 0
      BY <1>2, <2>1 DEF Half, HalfAt, Ret, entered
    <3> QED
      BY <1>1, <1>3, <3>1
  <2>2. CASE pc[q][other] \notin {"exited", "entry"}
    <3>1. entered(q, other) = Ret(q, other) + 1
      BY <1>2, <2>2 DEF entered
    <3> QED
      BY <1>1, <1>3, <3>1
  <2> QED
    BY <2>1, <2>2
<1>4. ASSUME other = 0 PROVE entered(q, other) >= Prologued(q)
  BY <1>1, <1>2, <1>4 DEF entered, Prologued
<1> QED
  BY <1>2, <1>3, <1>4

LEMMA HeldImplies == HeldInv => NoEarlyReturn
<1> SUFFICES ASSUME HeldInv, NEW r \in Ranks, NEW q \in Ranks, NEW sm \in SMs, NEW other \in SMs,
                    NEW k, k = returned(r, sm), k > 0,
                    sm = 0 \/ SiteOf(Sites, k).epilogue,
                    other = 0 \/ SiteOf(Sites, k).prologue
             PROVE  entered(q, other) >= k
  BY DEF NoEarlyReturn, SiteOf
<1>1. k = Ret(r, sm) /\ k \in Nat
  BY EnteredAt, CtaAt
<1>2. passed[r] >= k
  <2>1. CASE sm = 0
    BY <1>1, <2>1, LeaderPassed, CtaAt
  <2>2. CASE SiteOf(Sites, k).epilogue
    BY <1>1, <2>2 DEF HeldInv, Followed
  <2> QED
    BY <2>1, <2>2
<1>3. k <= Prologued(q) /\ Prologued(q) \in Nat
  <2>1. passed[r] <= Prologued(q) /\ passed[r] \in Nat /\ Prologued(q) \in Nat
    BY PassedEverywhere, CtaAt
  <2> QED
    BY <1>1, <1>2, <2>1
<1>4. CASE other = 0
  <2>1. entered(q, other) >= Prologued(q) /\ entered(q, other) \in Nat
    <3>1. Ret(q, other) \in Nat /\ returned(q, other) = Ret(q, other)
      BY EnteredAt, CtaAt
    <3> QED
      BY <1>4, <3>1, EnteredAt DEF entered
  <2> QED
    BY <1>1, <1>3, <2>1
<1>5. CASE SiteOf(Sites, k).prologue
  <2>1. Half(q, other) >= 2 * k - 1
    BY <1>1, <1>3, <1>5 DEF HeldInv, Gathered
  <2> QED
    BY <1>1, <2>1, EnteredAt
<1> QED
  BY <1>4, <1>5

LEMMA InitHeld == Init => HeldInv
<1> SUFFICES ASSUME Init PROVE HeldInv
  OBVIOUS
<1>1. IInv /\ setup \in Setups
  BY InitInv DEF Init
<1>2. Program(Sites) /\ DoneMod \in Nat /\ DoneMod > 0 /\ Len(Sites) \in Nat /\ Len(Sites) >= 1
  BY <1>1, ProgramSites DEF Program
<1>3. /\ gridCalls \in [Ranks -> [SMs -> Nat]]
      /\ doneCount \in [Ranks -> 0 .. DoneMod - 1]
      /\ doneBase \in [Ranks -> [SMs -> 0 .. DoneMod - 1]]
  BY <1>1, <1>2, SetupBefore DEF Init
<1>4. RetAt(Sites, "exited", 1, 0) = 0 /\ HalfAt(Sites, "exited", 1, 0) = 0
  <2>1. 0 * Len(Sites) = 0
    BY <1>2
  <2>2. RetAt(Sites, "exited", 1, 0) = 0
    BY <2>1 DEF RetAt
  <2> QED
    BY <2>2 DEF HalfAt
<1>5. ASSUME NEW r \in Ranks, NEW sm \in SMs
      PROVE  /\ pc[r][sm] = "exited" /\ site[r][sm] = 1 /\ launch[r][sm] = 0
             /\ gridCalls[r][sm] = 0 /\ doneBase[r][sm] = setup.done
             /\ Ret(r, sm) = 0 /\ Half(r, sm) = 0
  <2>1. /\ pc[r][sm] = "exited" /\ site[r][sm] = 1 /\ launch[r][sm] = 0
        /\ gridCalls[r][sm] = 0 /\ doneBase[r][sm] = setup.done
    BY DEF Init
  <2> QED
    BY <1>4, <2>1 DEF Ret, Half
<1>6. AllPlaced
  <2>1. SyncsTo(Sites, 0) = {}
    BY DEF SyncsTo
  <2>2. Cardinality(SyncsTo(Sites, HalfAt(Sites, "exited", 1, 0))) = 0
    BY <1>4, <2>1, FS_EmptySet
  <2>3. \A sm : Placed(Sites, sm, "exited", 1, 0, 0)
    BY <2>2 DEF Placed
  <2> QED
    BY <1>5, <2>3 DEF AllPlaced
<1>7. Together
  BY <1>5 DEF Together
<1>8. Gathered
  <2>1. \A r \in Ranks : Prologued(r) = 0
    BY <1>5, ZeroSM DEF Prologued
  <2> QED
    BY <2>1 DEF Gathered
<1>9. Followed
  BY <1>5 DEF Followed
<1>10. DoneWords
  <2>1. ASSUME NEW r \in Ranks PROVE DoneAt(r, 0)
    <3>1. doneCount[r] = setup.done /\ (setup.done + 0) % DoneMod = setup.done
      <4>1. PICK d \in 0 .. DoneMod - 1 : d = setup.done
        BY <1>1, SetupBefore
      <4>2. (d + 0) % DoneMod = d
        BY <1>2, <4>1
      <4>3. doneCount[r] = setup.done
        BY DEF Init
      <4> QED
        BY <4>1, <4>2, <4>3
    <3> QED
      BY <1>5, <3>1, ZeroSM DEF DoneAt
  <2> QED
    BY <1>2, <2>1 DEF DoneWords
<1> QED
  BY <1>1, <1>3, <1>5, <1>6, <1>7, <1>8, <1>9, <1>10 DEF HeldInv, Killed

-----------------------------------------------------------------------------
\* CTA sm of rank r moves; nobody else does.
OnlyMoves(r, sm) ==
  \A q \in Ranks, o \in SMs : (q # r \/ o # sm) =>
    /\ pc'[q][o] = pc[q][o] /\ site'[q][o] = site[q][o]
    /\ launch'[q][o] = launch[q][o] /\ gridCalls'[q][o] = gridCalls[q][o]

\* It goes on: it may return from its call, and if it is CTA 0 it may turn
\* to the signals, when the others are there.
GoesOn(r, sm) ==
  /\ Half(r, sm)' >= Half(r, sm)
  /\ \/ Ret(r, sm)' = Ret(r, sm)
     \/ /\ Ret(r, sm)' = Ret(r, sm) + 1
        /\ SiteOf(Sites, Ret(r, sm) + 1).epilogue => passed'[r] >= Ret(r, sm) + 1
  /\ sm = 0 =>
       \/ Prologued(r)' = Prologued(r)
       \/ /\ Prologued(r)' = Prologued(r) + 1
          /\ SiteOf(Sites, Prologued(r) + 1).prologue =>
               \A o \in SMs : Half(r, o) >= 2 * (Prologued(r) + 1) - 1

LEMMA OthersStay ==
  ASSUME UNCHANGED setup, NEW r \in Ranks, NEW sm \in SMs, OnlyMoves(r, sm)
  PROVE  \A q \in Ranks, o \in SMs : (q # r \/ o # sm) =>
           Ret(q, o)' = Ret(q, o) /\ Half(q, o)' = Half(q, o)
<1>1. Sites' = Sites
  BY DEF Sites
<1> QED
  BY <1>1 DEF OnlyMoves, Ret, Half

LEMMA CtaHeld ==
  ASSUME HeldInv, IInv', NEW r \in Ranks, NEW sm \in SMs, UNCHANGED setup,
         gridCalls' \in [Ranks -> [SMs -> Nat]],
         doneCount' \in [Ranks -> 0 .. DoneMod - 1],
         doneBase' \in [Ranks -> [SMs -> 0 .. DoneMod - 1]],
         OnlyMoves(r, sm), GoesOn(r, sm),
         Placed(Sites, sm, pc'[r][sm], site'[r][sm], launch'[r][sm], gridCalls'[r][sm]),
         \A q \in Ranks : passed'[q] >= passed[q],
         pc[r][sm] # "trapped", pc'[r][sm] # "trapped",
         Together', DoneWords'
  PROVE  HeldInv'
<1>1. Sites' = Sites
  BY DEF Sites
<1>2. \A q \in Ranks, o \in SMs : (q # r \/ o # sm) =>
        Ret(q, o)' = Ret(q, o) /\ Half(q, o)' = Half(q, o)
  BY OthersStay
<1>3. \A q \in Ranks, o \in SMs :
        Ret(q, o) \in Nat /\ Half(q, o) \in Nat /\ Prologued(q) \in Nat /\ passed[q] \in Nat
  BY CtaAt
<1>4. \A q \in Ranks : passed'[q] \in Nat
  BY DEF IInv, TypeInv
<1>5. AllPlaced'
  <2>1. ASSUME NEW q \in Ranks, NEW o \in SMs
        PROVE  Placed(Sites, o, pc'[q][o], site'[q][o], launch'[q][o], gridCalls'[q][o])
    <3>1. CASE q = r /\ o = sm
      BY <3>1
    <3>2. CASE q # r \/ o # sm
      BY <3>2 DEF OnlyMoves, HeldInv, AllPlaced
    <3> QED
      BY <3>1, <3>2
  <2> QED
    BY <1>1, <2>1 DEF AllPlaced
\* Half positions only grow.
<1>6. ASSUME NEW q \in Ranks, NEW o \in SMs
      PROVE  Half(q, o)' >= Half(q, o) /\ Half(q, o)' \in Int
  <2>1. CASE q = r /\ o = sm
    <3>1. Half(q, o)' >= Half(q, o)
      BY <2>1 DEF GoesOn
    <3>2. Half(q, o)' \in Nat
      <4>1. /\ site'[r][sm] \in 1 .. Len(Sites) /\ launch'[r][sm] \in Nat
            /\ pc'[r][sm] # "exited" => launch'[r][sm] >= 1
        <5>1. /\ site'[r][sm] \in 1 .. Len(Sites)
              /\ launch'[r][sm] \in 0 .. setup.launches /\ setup \in Setups
          BY <1>1 DEF IInv, TypeInv
        <5>2. setup.launches \in Nat
          BY <5>1, SetupType
        <5> QED
          BY <5>1, <5>2 DEF Placed
      <4>2. Program(Sites)
        BY CtaAt
      <4>3. HalfAt(Sites, pc'[r][sm], site'[r][sm], launch'[r][sm]) \in Nat
        BY <4>1, <4>2, RetType
      <4> QED
        BY <1>1, <2>1, <4>3 DEF Half
    <3> QED
      BY <3>1, <3>2
  <2>2. CASE q # r \/ o # sm
    BY <1>2, <1>3, <2>2
  <2> QED
    BY <2>1, <2>2
<1>7. Gathered'
  <2>1. SUFFICES ASSUME NEW q \in Ranks, NEW o \in SMs, NEW k \in Nat,
                        k > 0, k <= Prologued(q)', SiteOf(Sites, k).prologue
                 PROVE  Half(q, o)' >= 2 * k - 1
    BY <1>1 DEF Gathered
  <2>2. SUFFICES Half(q, o) >= 2 * k - 1
    BY <1>3, <1>6
  <2>3. CASE Prologued(q)' = Prologued(q)
    BY <2>1, <2>3 DEF HeldInv, Gathered
  <2>4. CASE Prologued(q)' # Prologued(q)
    <3>1. q = r /\ sm = 0
      <4>1. SUFFICES ASSUME q # r \/ sm # 0 PROVE FALSE
        OBVIOUS
      <4>2. Ret(q, 0)' = Ret(q, 0) /\ pc'[q][0] = pc[q][0]
        BY <1>2, <4>1, ZeroSM DEF OnlyMoves
      <4> QED
        BY <2>4, <4>2 DEF Prologued
    <3>2. /\ Prologued(r)' = Prologued(r) + 1
          /\ SiteOf(Sites, Prologued(r) + 1).prologue =>
               \A p \in SMs : Half(r, p) >= 2 * (Prologued(r) + 1) - 1
      BY <2>4, <3>1 DEF GoesOn
    <3>3. CASE k = Prologued(r) + 1
      BY <2>1, <3>1, <3>2, <3>3
    <3>4. CASE k # Prologued(r) + 1
      <4>1. k <= Prologued(q)
        <5>1. k <= Prologued(q)' /\ Prologued(q)' = Prologued(q) + 1 /\ k # Prologued(q) + 1
          BY <2>1, <3>1, <3>2, <3>4
        <5>2. Prologued(q) \in Nat
          BY <1>3
        <5> QED
          BY <5>1, <5>2
      <4> QED
        BY <2>1, <4>1 DEF HeldInv, Gathered
    <3> QED
      BY <3>3, <3>4
  <2> QED
    BY <2>3, <2>4
<1>8. Followed'
  <2>1. SUFFICES ASSUME NEW q \in Ranks, NEW o \in SMs, Ret(q, o)' > 0,
                        SiteOf(Sites, Ret(q, o)').epilogue
                 PROVE  passed'[q] >= Ret(q, o)'
    BY <1>1 DEF Followed
  <2>2. CASE Ret(q, o)' = Ret(q, o)
    <3>1. passed[q] >= Ret(q, o)
      BY <2>1, <2>2 DEF HeldInv, Followed
    <3> QED
      BY <1>3, <1>4, <2>2, <3>1
  <2>3. CASE Ret(q, o)' # Ret(q, o)
    <3>1. q = r /\ o = sm
      BY <1>2, <2>3
    <3> QED
      BY <2>1, <2>3, <3>1 DEF GoesOn
  <2> QED
    BY <2>2, <2>3
<1>9. Killed'
  <2>1. SUFFICES ASSUME NEW q \in Ranks, NEW o \in SMs, pc'[q][o] = "trapped"
                 PROVE  pc'[q][0] = "trapped"
    BY DEF Killed
  <2>2. pc'[q][o] = pc[q][o]
    BY <2>1 DEF OnlyMoves
  <2>3. pc[q][0] = "trapped"
    BY <2>1, <2>2 DEF HeldInv, Killed
  <2>4. pc'[q][0] = pc[q][0]
    BY <2>3, ZeroSM DEF OnlyMoves
  <2> QED
    BY <2>3, <2>4
<1> QED
  BY <1>5, <1>7, <1>8, <1>9 DEF HeldInv

\* Within a launch the CTAs stay together.
LEMMA StayTogether ==
  ASSUME HeldInv, NEW r \in Ranks, NEW sm \in SMs, OnlyMoves(r, sm), UNCHANGED launch,
         pc[r][sm] # "exited"
  PROVE  Together'
<1> SUFFICES ASSUME NEW q \in Ranks, NEW a \in SMs, NEW b \in SMs
             PROVE  \/ launch[q][a] = launch[q][b]
                    \/ launch[q][a] = launch[q][b] + 1 /\ pc'[q][b] = "exited"
                    \/ launch[q][b] = launch[q][a] + 1 /\ pc'[q][a] = "exited"
  BY DEF Together
<1>1. \/ launch[q][a] = launch[q][b]
      \/ launch[q][a] = launch[q][b] + 1 /\ pc[q][b] = "exited"
      \/ launch[q][b] = launch[q][a] + 1 /\ pc[q][a] = "exited"
  BY DEF HeldInv, Together
<1>2. \A o \in SMs : pc[q][o] = "exited" => pc'[q][o] = "exited"
  BY DEF OnlyMoves
<1> QED
  BY <1>1, <1>2

LEMMA DoneKept ==
  ASSUME HeldInv, IInv', UNCHANGED <<setup, launch, doneCount, doneBase>>,
         \A q \in Ranks : passed'[q] >= passed[q]
  PROVE  DoneWords'
<1>1. ASSUME NEW q \in Ranks PROVE \E f \in 0 .. Len(Sites) : DoneAt(q, f)'
  <2>1. PICK f \in 0 .. Len(Sites) : DoneAt(q, f)
    BY DEF HeldInv, DoneWords
  <2>2. Sites' = Sites
    BY DEF Sites
  <2>3. passed[q] \in Nat /\ passed'[q] \in Nat /\ launch[q][0] \in Nat
    BY CtaAt, ZeroSM DEF IInv, TypeInv
  <2>4. launch[q][0] # 0 => (launch[q][0] - 1) * Len(Sites) + f <= passed'[q]
    <3>1. CASE launch[q][0] # 0
      <4>1. (launch[q][0] - 1) * Len(Sites) \in Int
        <5>1. Len(Sites) \in Nat
          BY CtaAt, ZeroSM DEF Program
        <5> QED
          BY <2>3, <5>1
      <4>2. (launch[q][0] - 1) * Len(Sites) + f <= passed[q]
        BY <2>1, <3>1 DEF DoneAt
      <4>3. (launch[q][0] - 1) * Len(Sites) + f \in Int
        BY <4>1
      <4> QED
        BY <2>3, <4>2, <4>3
    <3> QED
      BY <3>1
  <2>5. DoneAt(q, f)'
    BY <2>1, <2>2, <2>4 DEF DoneAt
  <2> QED
    BY <2>5
<1>2. Sites' = Sites
  BY DEF Sites
<1> QED
  BY <1>1, <1>2 DEF DoneWords

-----------------------------------------------------------------------------
\* A CTA that moves within its call.
LEMMA StayGoes ==
  ASSUME HeldInv, NEW r \in Ranks, NEW sm \in SMs, UNCHANGED <<setup, launch, site>>,
         pc[r][sm] \in Middle \cup {"entry"},
         NEW v \in Middle \cup {"epilogue"}, v \in Locations, Goto(r, sm, v),
         \A q \in Ranks, o \in SMs : (q # r \/ o # sm) => gridCalls'[q][o] = gridCalls[q][o],
         Placed(Sites, sm, v, site[r][sm], launch[r][sm], gridCalls'[r][sm]),
         sm = 0 =>
           \/ pc[r][0] \in {"entry", "prologue"} /\ v = "prologue"
           \/ pc[r][0] \notin {"entry", "prologue"} /\ v # "prologue"
           \/ /\ pc[r][0] \in {"entry", "prologue"} /\ v # "prologue"
              /\ SiteOf(Sites, Ret(r, 0) + 1).prologue =>
                   \A o \in SMs : Half(r, o) >= 2 * (Ret(r, 0) + 1) - 1
  PROVE  /\ OnlyMoves(r, sm) /\ GoesOn(r, sm)
         /\ Placed(Sites, sm, pc'[r][sm], site'[r][sm], launch'[r][sm], gridCalls'[r][sm])
<1> DEFINE s == site[r][sm]
           l == launch[r][sm]
           w == pc[r][sm]
<1>1. /\ pc \in [Ranks -> [SMs -> Locations]]
      /\ pc' = [pc EXCEPT ![r][sm] = v]
  BY DEF HeldInv, IInv, TypeInv, Goto
<1>2. pc'[r][sm] = v /\ \A q \in Ranks, o \in SMs : (q # r \/ o # sm) => pc'[q][o] = pc[q][o]
  BY <1>1
<1>3. OnlyMoves(r, sm)
  BY <1>2 DEF OnlyMoves
<1>4. Sites' = Sites
  BY DEF Sites
<1>5. /\ Program(Sites) /\ s \in 1 .. Len(Sites) /\ l \in Nat /\ l >= 1
      /\ w \in Middle \cup {"entry"} /\ w # "exited"
  <2>1. w # "exited"
    BY DEF Middle
  <2> QED
    BY <2>1, CtaAt
<1>6. Ret(r, sm) = RetAt(Sites, w, s, l) /\ Half(r, sm) = HalfAt(Sites, w, s, l)
  BY DEF Ret, Half
<1>7. Ret(r, sm)' = RetAt(Sites, v, s, l) /\ Half(r, sm)' = HalfAt(Sites, v, s, l)
  BY <1>2, <1>4 DEF Ret, Half
<1> HIDE DEF s, l, w
<1>8. RetAt(Sites, v, s, l) = RetAt(Sites, "entry", s, l) /\
      RetAt(Sites, w, s, l) = RetAt(Sites, "entry", s, l)
  BY <1>5, PlaceWithin
<1>9. HalfAt(Sites, v, s, l) >= HalfAt(Sites, w, s, l)
  <2>1. RetAt(Sites, "entry", s, l) \in Nat
    BY <1>5, PlaceWithin
  <2>2. HalfAt(Sites, v, s, l) \in
          {2 * RetAt(Sites, "entry", s, l) + 1, 2 * RetAt(Sites, "entry", s, l) + 2}
    BY <1>5, PlaceWithin
  <2>3. HalfAt(Sites, w, s, l) \in
          {2 * RetAt(Sites, "entry", s, l), 2 * RetAt(Sites, "entry", s, l) + 1}
    BY <1>5, PlaceWithin
  <2> QED
    BY <2>1, <2>2, <2>3
<1>10. Ret(r, sm)' = Ret(r, sm) /\ Half(r, sm)' >= Half(r, sm)
  BY <1>6, <1>7, <1>8, <1>9
<1>11. ASSUME sm = 0
       PROVE  \/ Prologued(r)' = Prologued(r)
              \/ /\ Prologued(r)' = Prologued(r) + 1
                 /\ SiteOf(Sites, Prologued(r) + 1).prologue =>
                      \A o \in SMs : Half(r, o) >= 2 * (Prologued(r) + 1) - 1
  <2>1. Ret(r, 0)' = Ret(r, 0) /\ Ret(r, 0) \in Nat /\ pc'[r][0] = v
    BY <1>2, <1>10, <1>11, CtaAt
  <2>2. v # "exited" /\ v # "entry" /\ pc[r][0] # "exited"
    BY <1>5, <1>11 DEF Middle, w
  <2>3. Prologued(r)' = Ret(r, 0) + (IF v = "prologue" THEN 0 ELSE 1)
    BY <2>1, <2>2 DEF Prologued
  <2>4. Prologued(r) = Ret(r, 0) + (IF pc[r][0] \in {"entry", "prologue"} THEN 0 ELSE 1)
    BY <2>2 DEF Prologued
  <2>5. CASE pc[r][0] \in {"entry", "prologue"} /\ v = "prologue"
    BY <2>3, <2>4, <2>5
  <2>6. CASE pc[r][0] \notin {"entry", "prologue"} /\ v # "prologue"
    BY <2>3, <2>4, <2>6
  <2>7. CASE /\ pc[r][0] \in {"entry", "prologue"} /\ v # "prologue"
             /\ SiteOf(Sites, Ret(r, 0) + 1).prologue =>
                  \A o \in SMs : Half(r, o) >= 2 * (Ret(r, 0) + 1) - 1
    <3>1. Prologued(r) = Ret(r, 0) /\ Prologued(r)' = Ret(r, 0) + 1
      BY <2>1, <2>3, <2>4, <2>7
    <3> QED
      BY <2>7, <3>1
  <2> QED
    BY <1>11, <2>5, <2>6, <2>7
<1>12. Placed(Sites, sm, pc'[r][sm], site'[r][sm], launch'[r][sm], gridCalls'[r][sm])
  BY <1>2
<1> QED
  BY <1>3, <1>10, <1>11, <1>12 DEF GoesOn

\* A CTA that returns from its call.
LEMMA ReturnGoes ==
  ASSUME HeldInv, NEW r \in Ranks, NEW sm \in SMs, UNCHANGED <<setup, launch, gridCalls>>,
         Return(r, sm), pc[r][sm] \in Middle \cup {"entry", "epilogue"},
         pc[r][sm] # "trapped",
         pc[r][sm] = "entry" => ~At(r, sm).prologue,
         pc[r][sm] # "epilogue" => ~(At(r, sm).epilogue /\ ~At(r, sm).fast),
         At(r, sm).epilogue => passed'[r] >= Ret(r, sm) + 1,
         sm = 0 => pc[r][0] \notin {"entry", "prologue"}
  PROVE  /\ OnlyMoves(r, sm) /\ GoesOn(r, sm)
         /\ Placed(Sites, sm, pc'[r][sm], site'[r][sm], launch'[r][sm], gridCalls'[r][sm])
         /\ pc'[r][sm] # "trapped"
<1> DEFINE s == site[r][sm]
           l == launch[r][sm]
           w == pc[r][sm]
<1>1. TypeInv
  BY DEF HeldInv, IInv
<1>2. PICK v \in {"exited", "entry"}, t \in 1 .. Len(Sites) :
        /\ Moved(r, sm, v, t)
        /\ \/ v = "exited" /\ t = 1 /\ s = Len(Sites)
           \/ v = "entry" /\ t = s + 1
  BY <1>1, Returns
<1>3. /\ pc'[r][sm] = v /\ site'[r][sm] = t
      /\ \A q \in Ranks, o \in SMs : (q # r \/ o # sm) =>
           pc'[q][o] = pc[q][o] /\ site'[q][o] = site[q][o]
  BY <1>1, <1>2, MovedType DEF Locations
<1>4. OnlyMoves(r, sm)
  BY <1>3 DEF OnlyMoves
<1>5. Sites' = Sites
  BY DEF Sites
<1>6. /\ Program(Sites) /\ s \in 1 .. Len(Sites) /\ l \in Nat /\ l >= 1 /\ w # "exited"
      /\ Placed(Sites, sm, w, s, l, gridCalls[r][sm])
      /\ w \in Middle \cup {"entry", "epilogue"} /\ w # "trapped"
  <2>1. w # "exited"
    BY DEF Middle
  <2> QED
    BY <2>1, CtaAt
<1>7. Ret(r, sm) = RetAt(Sites, w, s, l) /\ Half(r, sm) = HalfAt(Sites, w, s, l)
  BY DEF Ret, Half
<1>8. Ret(r, sm)' = RetAt(Sites, v, t, l) /\ Half(r, sm)' = HalfAt(Sites, v, t, l)
  BY <1>3, <1>5 DEF Ret, Half
<1>9. /\ w = "entry" => ~Sites[s].prologue
      /\ w # "epilogue" => ~(Sites[s].epilogue /\ ~Sites[s].fast)
      /\ Sites[s].epilogue => passed'[r] >= Ret(r, sm) + 1
  BY DEF At
<1> HIDE DEF s, l, w
<1>10. /\ Placed(Sites, sm, v, t, l, gridCalls[r][sm])
       /\ RetAt(Sites, v, t, l) = RetAt(Sites, w, s, l) + 1
       /\ HalfAt(Sites, v, t, l) = 2 * RetAt(Sites, v, t, l)
  BY <1>2, <1>6, <1>9, PlaceReturn
<1>11. SiteOf(Sites, Ret(r, sm) + 1) = Sites[s]
  BY <1>6, <1>7, SiteAt
<1>12. Half(r, sm)' >= Half(r, sm) /\ Ret(r, sm)' = Ret(r, sm) + 1
  <2>1. Ret(r, sm) \in Nat /\ Half(r, sm) \in Nat /\ Half(r, sm) <= 2 * Ret(r, sm) + 2
    BY CtaAt
  <2>2. Ret(r, sm)' = Ret(r, sm) + 1 /\ Half(r, sm)' = 2 * Ret(r, sm)'
    BY <1>7, <1>8, <1>10
  <2>3. Half(r, sm)' = 2 * Ret(r, sm) + 2
    BY <2>1, <2>2
  <2> QED
    BY <2>1, <2>2, <2>3
<1>13. ASSUME sm = 0 PROVE Prologued(r)' = Prologued(r)
  <2>1. pc[r][0] \notin {"exited", "entry", "prologue"}
    BY <1>6, <1>13 DEF w
  <2>2. Prologued(r) = Ret(r, 0) + 1
    BY <2>1 DEF Prologued
  <2>3. Prologued(r)' = Ret(r, 0)' + 0 /\ Ret(r, 0)' = Ret(r, 0) + 1
    BY <1>3, <1>12, <1>13 DEF Prologued
  <2>4. Ret(r, 0) \in Nat
    BY CtaAt, ZeroSM
  <2> QED
    BY <2>2, <2>3, <2>4
<1>14. Placed(Sites, sm, pc'[r][sm], site'[r][sm], launch'[r][sm], gridCalls'[r][sm])
  BY <1>3, <1>10 DEF l
<1>15. pc'[r][sm] # "trapped"
  BY <1>3
<1> QED
  BY <1>4, <1>9, <1>11, <1>12, <1>13, <1>14, <1>15 DEF GoesOn

\* Who is let out of a grid_sync at h knows the others there.
LEMMA GridPassed ==
  ASSUME HeldInv, NEW r \in Ranks, NEW sm \in SMs, NEW o \in SMs,
         GridComplete(r, sm), pc[r][sm] # "trapped", o = 0 \/ pc[r][o] # "trapped",
         NEW h \in Nat, h >= 1, IsSync(Sites, h), Half(r, sm) = h
  PROVE  Half(r, o) >= h
<1>1. gridCalls[r][sm] <= gridCalls[r][o]
  BY DEF GridComplete
<1>2. gridCalls[r][sm] = Cardinality(SyncsTo(Sites, Half(r, sm)))
  BY DEF HeldInv, AllPlaced, Placed, Half
<1>3. gridCalls[r][o] = Cardinality(SyncsTo(Sites, Half(r, o)))
  BY DEF HeldInv, AllPlaced, Placed, Half
<1>4. Half(r, o) \in Nat
  BY CtaAt
<1>5. Cardinality(SyncsTo(Sites, h)) <= Cardinality(SyncsTo(Sites, Half(r, o)))
  BY <1>1, <1>2, <1>3
<1> QED
  BY <1>4, <1>5, SyncAhead

LEMMA StartHeld ==
  ASSUME HeldInv, NEW r \in Ranks, NEW sm \in SMs, Start(r, sm)
  PROVE  HeldInv'
<1> DEFINE l == launch[r][sm]
<1>1. /\ pc[r][sm] = "exited"
      /\ \A other \in SMs :
           \/ launch[r][other] = l + 1
           \/ launch[r][other] = l /\ pc[r][other] = "exited"
      /\ launch' = [launch EXCEPT ![r][sm] = @ + 1]
      /\ doneBase' = [doneBase EXCEPT ![r][sm] = doneCount[r]]
      /\ pc' = [pc EXCEPT ![r][sm] = "entry"]
      /\ UNCHANGED <<setup, doneCount, gridCalls, site, sent, passed>>
  BY DEF Start, Goto
<1>2. IInv'
  BY StartInv DEF HeldInv
<1>3. /\ pc \in [Ranks -> [SMs -> Locations]]
      /\ launch \in [Ranks -> [SMs -> 0 .. setup.launches]]
      /\ doneCount \in [Ranks -> 0 .. DoneMod - 1]
      /\ doneBase \in [Ranks -> [SMs -> 0 .. DoneMod - 1]]
      /\ gridCalls \in [Ranks -> [SMs -> Nat]]
  BY DEF HeldInv, IInv, TypeInv
<1>4. Sites' = Sites /\ Program(Sites) /\ DoneMod \in Nat /\ DoneMod > 0
  <2>1. setup \in Setups
    BY DEF HeldInv, IInv, TypeInv
  <2>2. DoneMod > 2 * Len(Sites) /\ Len(Sites) \in Nat /\ DoneMod \in Nat
    BY <2>1, ProgramSites DEF Program
  <2> QED
    BY <1>1, <2>1, <2>2, ProgramSites DEF Sites
<1>5. /\ pc'[r][sm] = "entry" /\ launch'[r][sm] = l + 1 /\ doneBase'[r][sm] = doneCount[r]
      /\ \A q \in Ranks, o \in SMs : (q # r \/ o # sm) =>
           /\ pc'[q][o] = pc[q][o] /\ launch'[q][o] = launch[q][o]
           /\ doneBase'[q][o] = doneBase[q][o]
  BY <1>1, <1>3
<1>6. /\ gridCalls' \in [Ranks -> [SMs -> Nat]]
      /\ doneCount' \in [Ranks -> 0 .. DoneMod - 1]
      /\ doneBase' \in [Ranks -> [SMs -> 0 .. DoneMod - 1]]
  BY <1>1, <1>3
<1>7. OnlyMoves(r, sm)
  BY <1>1, <1>5 DEF OnlyMoves
<1>8. /\ Placed(Sites, sm, "exited", site[r][sm], l, gridCalls[r][sm])
      /\ l \in Nat /\ site[r][sm] \in 1 .. Len(Sites)
  BY <1>1, CtaAt
<1> HIDE DEF l
<1>9. /\ Placed(Sites, sm, "entry", site[r][sm], l + 1, gridCalls[r][sm])
      /\ RetAt(Sites, "entry", site[r][sm], l + 1) = RetAt(Sites, "exited", site[r][sm], l)
      /\ HalfAt(Sites, "entry", site[r][sm], l + 1) = HalfAt(Sites, "exited", site[r][sm], l)
  BY <1>4, <1>8, PlaceStart
<1>10. Ret(r, sm)' = Ret(r, sm) /\ Half(r, sm)' = Half(r, sm)
  BY <1>1, <1>4, <1>5, <1>9 DEF Ret, Half, l
<1>11. GoesOn(r, sm)
  <2>1. sm = 0 => Prologued(r)' = Prologued(r)
    <3>1. CASE sm = 0
      <4>1. Prologued(r)' = Ret(r, 0)' + 0 /\ Prologued(r) = Ret(r, 0) + 0
        BY <1>1, <1>5, <3>1 DEF Prologued
      <4> QED
        BY <1>10, <3>1, <4>1
    <3> QED
      BY <3>1
  <2>2. Half(r, sm)' >= Half(r, sm)
    <3>1. Half(r, sm) \in Nat
      BY CtaAt
    <3> QED
      BY <1>10, <3>1
  <2> QED
    BY <1>10, <2>1, <2>2 DEF GoesOn
<1>12. Placed(Sites, sm, pc'[r][sm], site'[r][sm], launch'[r][sm], gridCalls'[r][sm])
  BY <1>1, <1>5, <1>9
<1>13. \A q \in Ranks, o \in SMs : launch[q][o] \in Nat
  BY CtaAt
<1>14. Together'
  <2>1. SUFFICES ASSUME NEW q \in Ranks, NEW a \in SMs, NEW b \in SMs
                 PROVE  \/ launch'[q][a] = launch'[q][b]
                        \/ launch'[q][a] = launch'[q][b] + 1 /\ pc'[q][b] = "exited"
                        \/ launch'[q][b] = launch'[q][a] + 1 /\ pc'[q][a] = "exited"
    BY DEF Together
  <2>2. \A o \in SMs : o # sm => \/ launch'[r][o] = l + 1
                                 \/ launch'[r][o] = l /\ pc'[r][o] = "exited"
    BY <1>1, <1>5 DEF l
  <2>3. CASE q # r
    <3>1. /\ pc'[q][a] = pc[q][a] /\ launch'[q][a] = launch[q][a]
          /\ pc'[q][b] = pc[q][b] /\ launch'[q][b] = launch[q][b]
      BY <1>5, <2>3
    <3>2. \/ launch[q][a] = launch[q][b]
          \/ launch[q][a] = launch[q][b] + 1 /\ pc[q][b] = "exited"
          \/ launch[q][b] = launch[q][a] + 1 /\ pc[q][a] = "exited"
      BY DEF HeldInv, Together
    <3> QED
      BY <3>1, <3>2
  <2>4. CASE q = r /\ a = sm
    <3>1. launch'[q][a] = l + 1
      BY <1>5, <2>4
    <3>2. b = sm \/ launch'[q][b] = l + 1 \/ (launch'[q][b] = l /\ pc'[q][b] = "exited")
      BY <2>2, <2>4
    <3> QED
      BY <2>4, <3>1, <3>2
  <2>5. CASE q = r /\ b = sm
    <3>1. launch'[q][b] = l + 1
      BY <1>5, <2>5
    <3>2. a = sm \/ launch'[q][a] = l + 1 \/ (launch'[q][a] = l /\ pc'[q][a] = "exited")
      BY <2>2, <2>5
    <3> QED
      BY <2>5, <3>1, <3>2
  <2>6. CASE q = r /\ a # sm /\ b # sm
    <3>1. /\ launch'[q][a] = l + 1 \/ (launch'[q][a] = l /\ pc'[q][a] = "exited")
          /\ launch'[q][b] = l + 1 \/ (launch'[q][b] = l /\ pc'[q][b] = "exited")
      BY <2>2, <2>6
    <3> QED
      BY <3>1
  <2> QED
    BY <2>3, <2>4, <2>5, <2>6
<1>15. DoneWords'
  <2>1. SUFFICES ASSUME NEW q \in Ranks PROVE \E f \in 0 .. Len(Sites) : DoneAt(q, f)'
    BY <1>4 DEF DoneWords
  <2>2. PICK f \in 0 .. Len(Sites) : DoneAt(q, f)
    BY DEF HeldInv, DoneWords
  <2>3. ASSUME NEW x \in 0 .. DoneMod - 1 PROVE (x + 0) % DoneMod = x
    BY <1>4
  <2>4. 0 \in 0 .. Len(Sites)
    BY <1>4 DEF Program
  <2>5. CASE q # r
    <3>1. \A o \in SMs : launch'[q][o] = launch[q][o] /\ doneBase'[q][o] = doneBase[q][o]
      BY <1>5, <2>5
    <3>2. DoneAt(q, f)'
      BY <1>1, <1>4, <2>2, <3>1, ZeroSM DEF DoneAt
    <3> QED
      BY <3>2
  <2>6. CASE q = r /\ sm # 0
    <3>1. launch'[r][0] = launch[r][0] /\ doneBase'[r][0] = doneBase[r][0]
      BY <1>5, <2>6, ZeroSM
    <3>2. CASE launch[r][0] = l + 1
      <4>1. launch[r][sm] < launch[r][0]
        BY <1>8, <3>2 DEF l
      <4>2. f = 0
        BY <2>2, <2>6, <4>1 DEF DoneAt
      <4>3. doneCount[r] = (doneBase[r][0] + 0) % DoneMod
        BY <2>2, <2>6, <4>2 DEF DoneAt
      <4>4. doneBase[r][0] \in 0 .. DoneMod - 1
        BY <1>3, ZeroSM
      <4>5. doneCount[r] = doneBase[r][0]
        BY <2>3, <4>3, <4>4
      <4>6. ASSUME NEW o \in SMs
            PROVE  /\ launch'[r][o] = launch'[r][0] => doneBase'[r][o] = doneBase'[r][0]
                   /\ launch'[r][o] < launch'[r][0] => f = 0
                   /\ launch'[r][o] > launch'[r][0] => doneBase'[r][o] = doneCount[r]
        <5>1. CASE o = sm
          BY <1>5, <1>8, <3>1, <3>2, <4>2, <4>5, <5>1
        <5>2. CASE o # sm
          BY <1>5, <2>2, <2>6, <3>1, <5>2 DEF DoneAt
        <5> QED
          BY <5>1, <5>2
      <4>7. DoneAt(r, f)'
        BY <1>1, <1>4, <2>2, <2>6, <3>1, <4>6 DEF DoneAt
      <4> QED
        BY <2>6, <4>7
    <3>3. CASE launch[r][0] = l
      <4>1. ASSUME NEW o \in SMs
            PROVE  /\ launch'[r][o] = launch'[r][0] => doneBase'[r][o] = doneBase'[r][0]
                   /\ launch'[r][o] < launch'[r][0] => f = 0
                   /\ launch'[r][o] > launch'[r][0] => doneBase'[r][o] = doneCount[r]
        <5>1. CASE o = sm
          BY <1>5, <1>8, <3>1, <3>3, <5>1
        <5>2. CASE o # sm
          BY <1>5, <2>2, <2>6, <3>1, <5>2 DEF DoneAt
        <5> QED
          BY <5>1, <5>2
      <4>2. DoneAt(r, f)'
        BY <1>1, <1>4, <2>2, <2>6, <3>1, <4>1 DEF DoneAt
      <4> QED
        BY <2>6, <4>2
    <3> QED
      BY <1>1, <3>2, <3>3, ZeroSM
  <2>7. CASE q = r /\ sm = 0
    <3>1. launch'[r][0] = l + 1 /\ doneBase'[r][0] = doneCount[r] /\ l = launch[r][0]
      BY <1>5, <2>7 DEF l
    <3>2. doneCount[r] = (doneCount[r] + 0) % DoneMod
      BY <1>3, <2>3
    <3>3. launch'[r][0] # 0
      BY <1>8, <3>1
    <3>4. (launch'[r][0] - 1) * Len(Sites) + 0 <= passed[r]
      <4>1. passed[r] = Ret(r, 0) + 0
        BY <1>1, <2>7, LeaderPassed
      <4>2. Ret(r, 0) = l * Len(Sites)
        BY <1>1, <2>7, <3>1 DEF Ret, RetAt
      <4>3. (l + 1) - 1 = l /\ l * Len(Sites) \in Nat
        BY <1>4, <1>8 DEF Program
      <4> QED
        BY <3>1, <4>1, <4>2, <4>3
    <3>5. ASSUME NEW o \in SMs, launch'[r][o] = launch'[r][0]
          PROVE  doneBase'[r][o] = doneBase'[r][0]
      <4>1. CASE o = 0
        BY <4>1
      <4>2. CASE o # 0
        <5>1. launch[r][o] = l + 1 /\ doneBase'[r][o] = doneBase[r][o]
          BY <1>5, <2>7, <3>1, <3>5, <4>2
        <5>2. launch[r][o] > launch[r][0]
          BY <1>8, <3>1, <5>1
        <5>3. doneBase[r][o] = doneCount[r]
          BY <2>2, <2>7, <5>2 DEF DoneAt
        <5> QED
          BY <3>1, <5>1, <5>3
      <4> QED
        BY <4>1, <4>2
    <3>6. ASSUME NEW o \in SMs PROVE ~(launch'[r][o] > launch'[r][0])
      <4>1. launch'[r][o] = l + 1 \/ launch'[r][o] = l
        BY <1>1, <1>5, <2>7 DEF l
      <4> QED
        BY <1>8, <3>1, <4>1
    <3>7. DoneAt(r, 0)'
      BY <1>1, <1>4, <3>1, <3>2, <3>3, <3>4, <3>5, <3>6 DEF DoneAt
    <3> QED
      BY <2>4, <2>7, <3>7
  <2> QED
    BY <2>5, <2>6, <2>7
<1>16. \A q \in Ranks : passed'[q] >= passed[q]
  <2>1. \A q \in Ranks : passed[q] \in Nat
    BY DEF HeldInv, IInv, TypeInv
  <2> QED
    BY <1>1, <2>1
<1>17. pc[r][sm] # "trapped" /\ pc'[r][sm] # "trapped"
  BY <1>1, <1>5
<1> QED
  BY <1>1, <1>2, <1>6, <1>7, <1>11, <1>12, <1>14, <1>15, <1>16, <1>17, CtaHeld

\* A step of a CTA in its launch that leaves the words alone.
LEMMA CallHeld ==
  ASSUME HeldInv, IInv', NEW r \in Ranks, NEW sm \in SMs,
         UNCHANGED <<setup, launch, doneCount, doneBase, passed>>,
         gridCalls' \in [Ranks -> [SMs -> Nat]],
         OnlyMoves(r, sm), GoesOn(r, sm),
         Placed(Sites, sm, pc'[r][sm], site'[r][sm], launch'[r][sm], gridCalls'[r][sm]),
         pc[r][sm] # "trapped", pc'[r][sm] # "trapped", pc[r][sm] # "exited"
  PROVE  HeldInv'
<1>1. \A q \in Ranks : passed'[q] >= passed[q]
  <2>1. \A q \in Ranks : passed[q] \in Nat
    BY DEF HeldInv, IInv, TypeInv
  <2> QED
    BY <2>1
<1>2. Together'
  BY StayTogether
<1>3. DoneWords'
  BY <1>1, DoneKept
<1>4. /\ doneCount' \in [Ranks -> 0 .. DoneMod - 1]
      /\ doneBase' \in [Ranks -> [SMs -> 0 .. DoneMod - 1]]
  BY DEF HeldInv
<1> QED
  BY <1>1, <1>2, <1>3, <1>4, CtaHeld

\* Past the leading grid_sync.
LEMMA PastHeld ==
  ASSUME HeldInv, NEW r \in Ranks, NEW sm \in SMs, AfterPrologue(r, sm),
         UNCHANGED <<setup, counter, signal, doneCount, doneBase, gridCalls, launch, sent, passed>>,
         pc[r][sm] \in {"entry", "prologue"},
         pc[r][sm] = "entry" => ~At(r, sm).prologue,
         pc[r][sm] = "prologue" => GridComplete(r, sm)
  PROVE  HeldInv'
<1>1. IInv'
  BY AfterPrologueInv DEF HeldInv
<1>2. gridCalls' \in [Ranks -> [SMs -> Nat]] /\ pc \in [Ranks -> [SMs -> Locations]]
  BY DEF HeldInv, IInv, TypeInv
<1>3. /\ Program(Sites) /\ site[r][sm] \in 1 .. Len(Sites) /\ launch[r][sm] \in Nat
      /\ launch[r][sm] >= 1
      /\ Placed(Sites, sm, pc[r][sm], site[r][sm], launch[r][sm], gridCalls[r][sm])
  BY CtaAt
<1>4. pc[r][sm] = "entry" => ~Sites[site[r][sm]].prologue
  BY DEF At
<1>5. /\ pc[r][sm] # "trapped" /\ pc[r][sm] # "exited"
      /\ pc[r][sm] \in Middle \cup {"entry"}
  BY DEF Middle
<1>6. \A q \in Ranks, o \in SMs : (q # r \/ o # sm) => gridCalls'[q][o] = gridCalls[q][o]
  OBVIOUS
\* Within the call.
<1>7. ASSUME NEW v \in {"signal", "done_word", "call_epilogue"}, Goto(r, sm, v), UNCHANGED site,
             v = "done_word" => At(r, sm).fast,
             v = "call_epilogue" => At(r, sm).epilogue /\ ~At(r, sm).fast
      PROVE  HeldInv'
  <2>1. Placed(Sites, sm, v, site[r][sm], launch[r][sm], gridCalls[r][sm])
    BY <1>3, <1>4, <1>7, PlacePast DEF At
  <2>2. ASSUME sm = 0, SiteOf(Sites, Ret(r, 0) + 1).prologue, NEW o \in SMs
        PROVE  Half(r, o) >= 2 * (Ret(r, 0) + 1) - 1
    <3>1. SiteOf(Sites, Ret(r, 0) + 1) = Sites[site[r][0]] /\ Ret(r, 0) \in Nat
      <4>1. pc[r][0] # "exited"
        BY <1>5, <2>2
      <4>2. SiteOf(Sites, RetAt(Sites, pc[r][0], site[r][0], launch[r][0]) + 1) = Sites[site[r][0]]
        BY <1>3, <2>2, <4>1, SiteAt
      <4> QED
        BY <4>2, <2>2, CtaAt DEF Ret
    <3>2. pc[r][0] = "prologue" /\ GridComplete(r, 0)
      BY <1>4, <2>2, <3>1
    <3>3. Half(r, 0) = 2 * Ret(r, 0) + 1
      BY <3>2 DEF Half, HalfAt, Ret
    <3>4. IsSync(Sites, 2 * Ret(r, 0) + 1)
      BY <2>2, <3>1, SyncPlaces
    <3>5. pc[r][o] # "trapped"
      BY <3>2 DEF HeldInv, Killed
    <3>6. 2 * Ret(r, 0) + 1 \in Nat /\ 2 * Ret(r, 0) + 1 >= 1
      BY <3>1
    <3>7. pc[r][0] # "trapped"
      BY <3>2
    <3>8. Half(r, o) >= 2 * Ret(r, 0) + 1
      BY <3>2, <3>3, <3>4, <3>5, <3>6, <3>7, ZeroSM, GridPassed
    <3> QED
      BY <3>1, <3>8
  <2>3. v \in Middle /\ v \in Locations /\ v # "prologue"
    BY <1>7 DEF Middle, Locations
  <2>4. sm = 0 =>
          \/ pc[r][0] \in {"entry", "prologue"} /\ v = "prologue"
          \/ pc[r][0] \notin {"entry", "prologue"} /\ v # "prologue"
          \/ /\ pc[r][0] \in {"entry", "prologue"} /\ v # "prologue"
             /\ SiteOf(Sites, Ret(r, 0) + 1).prologue =>
                  \A o \in SMs : Half(r, o) >= 2 * (Ret(r, 0) + 1) - 1
    BY <2>2, <2>3
  <2>5. Placed(Sites, sm, v, site[r][sm], launch[r][sm], gridCalls'[r][sm])
    BY <2>1
  <2>6. /\ OnlyMoves(r, sm) /\ GoesOn(r, sm)
        /\ Placed(Sites, sm, pc'[r][sm], site'[r][sm], launch'[r][sm], gridCalls'[r][sm])
    BY <1>5, <1>6, <1>7, <2>3, <2>4, <2>5, StayGoes
  <2>7. pc'[r][sm] # "trapped"
    BY <1>2, <1>7 DEF Goto
  <2> QED
    BY <1>1, <1>2, <1>5, <2>6, <2>7, CallHeld
\* A CTA that neither signals nor waits for a trailing sync returns.
<1>8. ASSUME sm # 0, ~At(r, sm).fast, ~At(r, sm).epilogue, Return(r, sm)
      PROVE  HeldInv'
  <2>1. /\ OnlyMoves(r, sm) /\ GoesOn(r, sm)
        /\ Placed(Sites, sm, pc'[r][sm], site'[r][sm], launch'[r][sm], gridCalls'[r][sm])
        /\ pc'[r][sm] # "trapped"
    BY <1>5, <1>8, ReturnGoes
  <2> QED
    BY <1>1, <1>2, <1>5, <2>1, CallHeld
<1>9. CASE sm = 0
  BY <1>7, <1>9 DEF AfterPrologue
<1>10. CASE sm # 0
  <2>1. AfterSignals(r, sm)
    BY <1>10 DEF AfterPrologue
  <2>2. CASE At(r, sm).fast
    <3>1. Goto(r, sm, "done_word") /\ UNCHANGED site
      BY <1>10, <2>1, <2>2 DEF AfterSignals
    <3> QED
      BY <1>7, <2>2, <3>1
  <2>3. CASE ~At(r, sm).fast /\ At(r, sm).epilogue
    <3>1. Goto(r, sm, "call_epilogue") /\ UNCHANGED site
      BY <2>1, <2>3 DEF AfterSignals
    <3> QED
      BY <1>7, <2>3, <3>1
  <2>4. CASE ~At(r, sm).fast /\ ~At(r, sm).epilogue
    <3>1. Return(r, sm)
      BY <2>1, <2>4 DEF AfterSignals
    <3> QED
      BY <1>8, <1>10, <2>4, <3>1
  <2> QED
    BY <2>2, <2>3, <2>4
<1> QED
  BY <1>9, <1>10

LEMMA EnterHeld ==
  ASSUME HeldInv, NEW r \in Ranks, NEW sm \in SMs, Enter(r, sm)
  PROVE  HeldInv'
<1>1. /\ pc[r][sm] = "entry"
      /\ UNCHANGED <<setup, counter, signal, doneCount, doneBase, launch, sent, passed>>
  BY DEF Enter
<1>2. CASE ~At(r, sm).prologue
  <2>1. AfterPrologue(r, sm) /\ UNCHANGED gridCalls
    BY <1>2 DEF Enter
  <2>2. pc[r][sm] # "prologue"
    BY <1>1
  <2> QED
    BY <1>1, <1>2, <2>1, <2>2, PastHeld
<1>3. CASE At(r, sm).prologue
  <2>1. /\ gridCalls' = [gridCalls EXCEPT ![r][sm] = @ + 1]
        /\ Goto(r, sm, "prologue") /\ UNCHANGED site
    BY <1>3 DEF Enter
  <2>2. IInv'
    <3>1. CtaStep(r, sm)
      BY DEF CtaStep
    <3> QED
      BY <3>1, CtaStepInv DEF HeldInv
  <2>3. /\ gridCalls \in [Ranks -> [SMs -> Nat]] /\ pc \in [Ranks -> [SMs -> Locations]]
    BY DEF HeldInv, IInv, TypeInv
  <2>4. /\ gridCalls' \in [Ranks -> [SMs -> Nat]]
        /\ gridCalls'[r][sm] = gridCalls[r][sm] + 1
        /\ \A q \in Ranks, o \in SMs : (q # r \/ o # sm) => gridCalls'[q][o] = gridCalls[q][o]
        /\ pc'[r][sm] = "prologue"
    BY <2>1, <2>3 DEF Goto
  <2>5. /\ Program(Sites) /\ site[r][sm] \in 1 .. Len(Sites) /\ launch[r][sm] \in Nat
        /\ Placed(Sites, sm, "entry", site[r][sm], launch[r][sm], gridCalls[r][sm])
    BY <1>1, CtaAt
  <2>6. Placed(Sites, sm, "prologue", site[r][sm], launch[r][sm], gridCalls'[r][sm])
    BY <1>3, <2>4, <2>5, PlaceEnter DEF At
  <2>7. "prologue" \in Middle /\ "prologue" \in Locations /\ "entry" \in Middle \cup {"entry"}
    BY DEF Middle, Locations
  <2>8. sm = 0 => pc[r][0] \in {"entry", "prologue"}
    BY <1>1
  <2>9. /\ OnlyMoves(r, sm) /\ GoesOn(r, sm)
        /\ Placed(Sites, sm, pc'[r][sm], site'[r][sm], launch'[r][sm], gridCalls'[r][sm])
    BY <1>1, <2>1, <2>4, <2>6, <2>7, <2>8, StayGoes
  <2>10. pc[r][sm] # "trapped" /\ pc'[r][sm] # "trapped" /\ pc[r][sm] # "exited"
    BY <1>1, <2>4
  <2> QED
    BY <1>1, <2>2, <2>4, <2>9, <2>10, CallHeld
<1> QED
  BY <1>2, <1>3

LEMMA LeavePrologueHeld ==
  ASSUME HeldInv, NEW r \in Ranks, NEW sm \in SMs, LeavePrologue(r, sm)
  PROVE  HeldInv'
<1>1. /\ pc[r][sm] = "prologue" /\ GridComplete(r, sm) /\ AfterPrologue(r, sm)
      /\ UNCHANGED <<setup, counter, signal, doneCount, doneBase, gridCalls, launch, sent, passed>>
  BY DEF LeavePrologue
<1>2. pc[r][sm] # "entry"
  BY <1>1
<1> QED
  BY <1>1, <1>2, PastHeld

LEMMA EnterEpilogueHeld ==
  ASSUME HeldInv, NEW r \in Ranks, NEW sm \in SMs, EnterEpilogue(r, sm)
  PROVE  HeldInv'
<1>1. /\ pc[r][sm] = "call_epilogue"
      /\ gridCalls' = [gridCalls EXCEPT ![r][sm] = @ + 1]
      /\ Goto(r, sm, "epilogue")
      /\ UNCHANGED <<setup, counter, signal, doneCount, doneBase, site, launch, sent, passed>>
  BY DEF EnterEpilogue
<1>2. IInv'
  <2>1. CtaStep(r, sm)
    BY DEF CtaStep
  <2> QED
    BY <2>1, CtaStepInv DEF HeldInv
<1>3. /\ gridCalls \in [Ranks -> [SMs -> Nat]] /\ pc \in [Ranks -> [SMs -> Locations]]
  BY DEF HeldInv, IInv, TypeInv
<1>4. /\ gridCalls' \in [Ranks -> [SMs -> Nat]]
      /\ gridCalls'[r][sm] = gridCalls[r][sm] + 1
      /\ \A q \in Ranks, o \in SMs : (q # r \/ o # sm) => gridCalls'[q][o] = gridCalls[q][o]
      /\ pc'[r][sm] = "epilogue"
  BY <1>1, <1>3 DEF Goto
<1>5. /\ Program(Sites) /\ site[r][sm] \in 1 .. Len(Sites) /\ launch[r][sm] \in Nat
      /\ Placed(Sites, sm, "call_epilogue", site[r][sm], launch[r][sm], gridCalls[r][sm])
  BY <1>1, CtaAt
<1>6. Placed(Sites, sm, "epilogue", site[r][sm], launch[r][sm], gridCalls'[r][sm])
  BY <1>4, <1>5, PlaceEpilogue
<1>7. pc[r][sm] \in Middle \cup {"entry"} /\ "epilogue" \in Locations
  BY <1>1 DEF Middle, Locations
<1>8. sm = 0 => pc[r][0] \notin {"entry", "prologue"}
  BY <1>1
<1>9. /\ OnlyMoves(r, sm) /\ GoesOn(r, sm)
      /\ Placed(Sites, sm, pc'[r][sm], site'[r][sm], launch'[r][sm], gridCalls'[r][sm])
  BY <1>1, <1>4, <1>6, <1>7, <1>8, StayGoes
<1>10. pc[r][sm] # "trapped" /\ pc'[r][sm] # "trapped" /\ pc[r][sm] # "exited"
  BY <1>1, <1>4
<1> QED
  BY <1>1, <1>2, <1>4, <1>9, <1>10, CallHeld

LEMMA LeaveEpilogueHeld ==
  ASSUME HeldInv, NEW r \in Ranks, NEW sm \in SMs, LeaveEpilogue(r, sm)
  PROVE  HeldInv'
<1>1. /\ pc[r][sm] = "epilogue" /\ GridComplete(r, sm) /\ Return(r, sm)
      /\ UNCHANGED <<setup, counter, signal, doneCount, doneBase, gridCalls, launch, sent, passed>>
  BY DEF LeaveEpilogue
<1>2. IInv'
  <2>1. CtaStep(r, sm)
    BY DEF CtaStep
  <2> QED
    BY <2>1, CtaStepInv DEF HeldInv
<1>3. gridCalls' \in [Ranks -> [SMs -> Nat]]
  BY <1>1 DEF HeldInv
<1>4. Ret(r, sm) \in Nat /\ passed[r] \in Nat
  BY CtaAt
<1>5. passed[r] >= Ret(r, sm) + 1
  <2>1. CASE sm = 0
    BY <1>1, <1>4, <2>1, LeaderPassed
  <2>2. CASE sm # 0
    <3>1. /\ Program(Sites) /\ site[r][sm] \in 1 .. Len(Sites) /\ launch[r][sm] \in Nat
          /\ launch[r][sm] >= 1
          /\ Placed(Sites, sm, "epilogue", site[r][sm], launch[r][sm], gridCalls[r][sm])
      BY <1>1, CtaAt
    <3>2. SiteOf(Sites, Ret(r, sm) + 1) = Sites[site[r][sm]]
      BY <1>1, <3>1, SiteAt DEF Ret
    <3>3. Sites[site[r][sm]].epilogue /\ ~Sites[site[r][sm]].fast
      BY <3>1 DEF Placed
    <3>4. IsSync(Sites, 2 * Ret(r, sm) + 2)
      BY <1>4, <3>2, <3>3, SyncPlaces
    <3>5. Half(r, sm) = 2 * Ret(r, sm) + 2
      BY <1>1 DEF Half, HalfAt, Ret
    <3>6. 2 * Ret(r, sm) + 2 \in Nat /\ 2 * Ret(r, sm) + 2 >= 1 /\ pc[r][sm] # "trapped"
      BY <1>1, <1>4
    <3>7. Half(r, 0) >= 2 * Ret(r, sm) + 2
      BY <1>1, <3>4, <3>5, <3>6, ZeroSM, GridPassed
    <3>8. /\ Ret(r, 0) \in Nat
          /\ passed[r] = Ret(r, 0) + (IF pc[r][0] \in {"call_epilogue", "epilogue"} THEN 1 ELSE 0)
      BY LeaderPassed, CtaAt, ZeroSM
    <3>9. CASE pc[r][0] = "epilogue"
      <4>1. passed[r] = Ret(r, 0) + 1 /\ Half(r, 0) = 2 * Ret(r, 0) + 2
        BY <3>8, <3>9 DEF Half, HalfAt, Ret
      <4> QED
        BY <1>4, <3>7, <3>8, <4>1
    <3>10. CASE pc[r][0] # "epilogue"
      <4>1. Half(r, 0) = 2 * Ret(r, 0) + (IF pc[r][0] \in {"exited", "entry"} THEN 0 ELSE 1)
        BY <3>10 DEF Half, HalfAt, Ret
      <4>2. Ret(r, 0) >= Ret(r, sm) + 1
        BY <1>4, <3>7, <3>8, <4>1
      <4> QED
        BY <1>4, <3>8, <4>2
    <3> QED
      BY <3>9, <3>10
  <2> QED
    BY <2>1, <2>2
<1>6. /\ OnlyMoves(r, sm) /\ GoesOn(r, sm)
      /\ Placed(Sites, sm, pc'[r][sm], site'[r][sm], launch'[r][sm], gridCalls'[r][sm])
      /\ pc'[r][sm] # "trapped"
  <2>1. /\ pc[r][sm] \in Middle \cup {"entry", "epilogue"} /\ pc[r][sm] # "trapped"
        /\ pc[r][sm] # "entry" /\ (sm = 0 => pc[r][0] \notin {"entry", "prologue"})
    BY <1>1
  <2>2. passed'[r] >= Ret(r, sm) + 1
    BY <1>1, <1>5
  <2> QED
    BY <1>1, <2>1, <2>2, ReturnGoes
<1>7. pc[r][sm] # "trapped" /\ pc[r][sm] # "exited"
  BY <1>1
<1> QED
  BY <1>1, <1>2, <1>3, <1>6, <1>7, CallHeld

\* The wrapping difference of the done words is what was added.
LEMMA Wrapped ==
  ASSUME NEW m \in Nat \ {0}, NEW b \in 0 .. m - 1, NEW f \in Nat, f < m
  PROVE  (((b + f) % m) - b) % m = f
<1> DEFINE c == (b + f) % m
<1>1. CASE b + f < m
  <2>1. c = b + f
    <3>1. (0 * m + (b + f)) % m = b + f
      BY <1>1, Remainder
    <3>2. 0 * m + (b + f) = b + f
      OBVIOUS
    <3> QED
      BY <3>1, <3>2
  <2>2. (0 * m + f) % m = f
    BY Remainder
  <2>3. c - b = 0 * m + f
    BY <2>1
  <2> QED
    BY <2>2, <2>3
<1>2. CASE b + f >= m
  <2>1. c = b + f - m
    <3>1. b + f - m \in 0 .. m - 1
      BY <1>2
    <3>2. (1 * m + (b + f - m)) % m = b + f - m
      BY <3>1, Remainder
    <3>3. 1 * m + (b + f - m) = b + f
      OBVIOUS
    <3> QED
      BY <3>2, <3>3
  <2>2. ((-1) * m + f) % m = f
    BY Remainder
  <2>3. c - b = (-1) * m + f
    BY <2>1
  <2> QED
    BY <2>2, <2>3
<1> QED
  BY <1>1, <1>2

LEMMA SeeDoneHeld ==
  ASSUME HeldInv, NEW r \in Ranks, NEW sm \in SMs, SeeDone(r, sm)
  PROVE  HeldInv'
<1> DEFINE s == site[r][sm]
           l == launch[r][sm]
<1>1. /\ pc[r][sm] = "done_word" /\ ~Behind(doneCount[r], doneBase[r][sm], s)
      /\ Return(r, sm)
      /\ UNCHANGED <<setup, counter, signal, doneCount, doneBase, gridCalls, launch, sent, passed>>
  BY DEF SeeDone
<1>2. IInv'
  <2>1. CtaStep(r, sm)
    BY DEF CtaStep
  <2> QED
    BY <2>1, CtaStepInv DEF HeldInv
<1>3. gridCalls' \in [Ranks -> [SMs -> Nat]]
  BY <1>1 DEF HeldInv
<1>4. sm # 0
  BY <1>1, LeaderAt DEF HeldInv, Leader
<1>5. /\ Program(Sites) /\ s \in 1 .. Len(Sites) /\ l \in Nat /\ l >= 1
      /\ Sites[s].fast /\ launch[r][0] \in Nat /\ passed[r] \in Nat
      /\ Ret(r, sm) = (l - 1) * Len(Sites) + (s - 1)
  <2>1. Placed(Sites, sm, "done_word", s, l, gridCalls[r][sm])
    BY <1>1, CtaAt
  <2>2. Ret(r, sm) = (l - 1) * Len(Sites) + (s - 1)
    BY <1>1 DEF Ret, RetAt
  <2>3. Program(Sites) /\ s \in 1 .. Len(Sites) /\ l \in Nat /\ l >= 1
    BY <1>1, CtaAt
  <2> QED
    BY <2>1, <2>2, <2>3, CtaAt, ZeroSM DEF Placed
<1>6. DoneMod \in Nat /\ DoneMod > 2 * Len(Sites) /\ Len(Sites) \in Nat
  <2>1. setup \in Setups
    BY DEF HeldInv, IInv, TypeInv
  <2> QED
    BY <1>5, <2>1, ProgramSites DEF Program
<1>7. doneBase[r][sm] \in 0 .. DoneMod - 1 /\ doneCount[r] \in 0 .. DoneMod - 1
  BY DEF HeldInv
<1>8. PICK f \in 0 .. Len(Sites) : DoneAt(r, f)
  BY DEF HeldInv, DoneWords
<1> HIDE DEF s, l
<1>9. passed[r] >= Ret(r, sm) + 1
  <2>1. launch[r][0] = l
    <3>1. ~(launch[r][0] > l)
      <4>1. \/ launch[r][0] = l
            \/ launch[r][0] = l + 1 /\ pc[r][sm] = "exited"
            \/ l = launch[r][0] + 1 /\ pc[r][0] = "exited"
        BY ZeroSM DEF HeldInv, Together, l
      <4> QED
        BY <1>1, <1>5, <4>1
    <3>2. ASSUME launch[r][0] < l PROVE FALSE
      <4>1. doneBase[r][sm] = doneCount[r]
        BY <1>8, <3>2 DEF DoneAt, l
      <4>2. doneCount[r] - doneBase[r][sm] = 0 * DoneMod + 0
        BY <1>6, <1>7, <4>1
      <4>3. (0 * DoneMod + 0) % DoneMod = 0
        BY <1>6, Remainder
      <4>4. (doneCount[r] - doneBase[r][sm]) % DoneMod = 0
        BY <4>2, <4>3
      <4>5. Behind(doneCount[r], doneBase[r][sm], s)
        BY <1>5, <1>6, <4>4 DEF Behind
      <4> QED
        BY <1>1, <4>5 DEF s
    <3> QED
      BY <1>5, <3>1, <3>2
  <2>2. doneBase[r][sm] = doneBase[r][0]
    BY <1>8, <2>1 DEF DoneAt, l
  <2>3. doneCount[r] = (doneBase[r][sm] + f) % DoneMod
    BY <1>8, <2>2 DEF DoneAt
  <2>4. (doneCount[r] - doneBase[r][sm]) % DoneMod = f
    <3>1. f \in Nat /\ f < DoneMod /\ DoneMod \in Nat \ {0}
      BY <1>6
    <3>2. (((doneBase[r][sm] + f) % DoneMod) - doneBase[r][sm]) % DoneMod = f
      BY <1>7, <3>1, Wrapped
    <3> QED
      BY <2>3, <3>2
  <2>5. ~(2 * f >= DoneMod)
    BY <1>6
  <2>6. ~(f < s)
    <3>1. Behind(doneCount[r], doneBase[r][sm], s) <=> f < s
      BY <2>4, <2>5 DEF Behind
    <3> QED
      BY <1>1, <3>1 DEF s
  <2>7. (l - 1) * Len(Sites) + f <= passed[r]
    BY <1>5, <1>8, <2>1 DEF DoneAt
  <2>8. (l - 1) * Len(Sites) \in Nat
    BY <1>5, <1>6
  <2> QED
    BY <1>5, <1>6, <2>6, <2>7, <2>8
<1>10. /\ OnlyMoves(r, sm) /\ GoesOn(r, sm)
       /\ Placed(Sites, sm, pc'[r][sm], site'[r][sm], launch'[r][sm], gridCalls'[r][sm])
       /\ pc'[r][sm] # "trapped"
  <2>1. /\ pc[r][sm] \in Middle \cup {"entry", "epilogue"} /\ pc[r][sm] # "trapped"
        /\ pc[r][sm] # "entry" /\ At(r, sm).fast
    BY <1>1, <1>5 DEF Middle, At, s
  <2>2. passed'[r] >= Ret(r, sm) + 1
    BY <1>1, <1>9
  <2> QED
    BY <1>1, <1>4, <2>1, <2>2, ReturnGoes
<1>11. pc[r][sm] # "trapped" /\ pc[r][sm] # "exited"
  BY <1>1
<1> QED
  BY <1>1, <1>2, <1>3, <1>10, <1>11, CallHeld

LEMMA UpdateStatusHeld ==
  ASSUME HeldInv, NEW r \in Ranks, UpdateStatus(r)
  PROVE  HeldInv'
<1>1. /\ pc[r][0] = "signal" /\ Goto(r, 0, "wait")
      /\ UNCHANGED <<setup, launch, site, gridCalls, doneCount, doneBase, passed>>
  BY DEF UpdateStatus, ctaVars
<1>2. IInv'
  BY UpdateStatusInv DEF HeldInv
<1>3. gridCalls' \in [Ranks -> [SMs -> Nat]] /\ pc \in [Ranks -> [SMs -> Locations]]
  BY <1>1 DEF HeldInv, IInv, TypeInv
<1>4. /\ "signal" \in Middle /\ "wait" \in Middle /\ "wait" \in Locations
  BY DEF Middle, Locations
<1>5. /\ Program(Sites) /\ site[r][0] \in 1 .. Len(Sites) /\ launch[r][0] \in Nat
      /\ Placed(Sites, 0, "signal", site[r][0], launch[r][0], gridCalls[r][0])
  BY <1>1, CtaAt, ZeroSM
<1>6. Placed(Sites, 0, "wait", site[r][0], launch[r][0], gridCalls'[r][0])
  BY <1>1, <1>4, <1>5, PlaceMiddle
<1>7. /\ OnlyMoves(r, 0) /\ GoesOn(r, 0)
      /\ Placed(Sites, 0, pc'[r][0], site'[r][0], launch'[r][0], gridCalls'[r][0])
  <2>1. pc[r][0] \in Middle \cup {"entry"} /\ pc[r][0] \notin {"entry", "prologue"}
    BY <1>1, <1>4
  <2>2. \A q \in Ranks, o \in SMs : (q # r \/ o # 0) => gridCalls'[q][o] = gridCalls[q][o]
    BY <1>1
  <2> QED
    BY <1>1, <1>4, <1>6, <2>1, <2>2, ZeroSM, StayGoes
<1>8. pc[r][0] # "trapped" /\ pc[r][0] # "exited" /\ pc'[r][0] # "trapped"
  BY <1>1, <1>3, ZeroSM DEF Goto
<1> QED
  BY <1>1, <1>2, <1>3, <1>7, <1>8, ZeroSM, CallHeld

LEMMA StillHeld ==
  ASSUME HeldInv, IInv',
         UNCHANGED <<setup, doneCount, doneBase, gridCalls, pc, site, launch, passed>>
  PROVE  HeldInv'
<1>1. Sites' = Sites
  BY DEF Sites
<1>2. \A r \in Ranks, sm \in SMs : Ret(r, sm)' = Ret(r, sm) /\ Half(r, sm)' = Half(r, sm)
  BY <1>1 DEF Ret, Half
<1>3. \A r \in Ranks : Prologued(r)' = Prologued(r)
  BY <1>2, ZeroSM DEF Prologued
<1>4. AllPlaced' /\ Together' /\ Killed'
  BY <1>1 DEF HeldInv, AllPlaced, Together, Killed
<1>5. Gathered' /\ Followed'
  BY <1>1, <1>2, <1>3 DEF HeldInv, Gathered, Followed
<1>6. DoneWords'
  <2>1. ASSUME NEW r \in Ranks, NEW f \in 0 .. Len(Sites), DoneAt(r, f) PROVE DoneAt(r, f)'
    BY <1>1, <2>1 DEF DoneAt
  <2> QED
    BY <1>1, <2>1 DEF HeldInv, DoneWords
<1> QED
  BY <1>4, <1>5, <1>6 DEF HeldInv

LEMMA ObserveHeld ==
  ASSUME HeldInv, NEW r \in Ranks, Observe(r)
  PROVE  HeldInv'
<1> DEFINE s == site[r][0]
           l == launch[r][0]
<1>1. /\ pc[r][0] = "wait" /\ AfterSignals(r, 0)
      /\ passed' = [passed EXCEPT ![r] = @ + 1]
      /\ At(r, 0).fast => doneCount' = [doneCount EXCEPT ![r] = (doneBase[r][0] + s) % DoneMod]
      /\ ~At(r, 0).fast => UNCHANGED doneCount
      /\ UNCHANGED <<setup, launch, gridCalls, doneBase>>
  BY DEF Observe
<1>2. IInv'
  BY ObserveInv DEF HeldInv
<1>3. /\ gridCalls' \in [Ranks -> [SMs -> Nat]]
      /\ doneCount \in [Ranks -> 0 .. DoneMod - 1]
      /\ doneBase \in [Ranks -> [SMs -> 0 .. DoneMod - 1]]
      /\ doneBase' \in [Ranks -> [SMs -> 0 .. DoneMod - 1]]
      /\ pc \in [Ranks -> [SMs -> Locations]]
  BY <1>1 DEF HeldInv, IInv, TypeInv
<1>4. /\ passed[r] \in Nat /\ passed'[r] = passed[r] + 1
      /\ \A q \in Ranks : passed[q] \in Nat /\ passed'[q] >= passed[q]
  <2>1. passed \in [Ranks -> Nat]
    BY DEF HeldInv, IInv, TypeInv
  <2>2. passed[r] \in Nat /\ passed'[r] = passed[r] + 1
    BY <1>1, <2>1
  <2>3. ASSUME NEW q \in Ranks PROVE passed[q] \in Nat /\ passed'[q] >= passed[q]
    <3>1. CASE q = r
      BY <2>2, <3>1
    <3>2. CASE q # r
      <4>1. passed'[q] = passed[q] /\ passed[q] \in Nat
        BY <1>1, <2>1, <3>2
      <4> QED
        BY <4>1
    <3> QED
      BY <3>1, <3>2
  <2> QED
    BY <2>2, <2>3
<1>5. /\ Program(Sites) /\ s \in 1 .. Len(Sites) /\ l \in Nat /\ l >= 1
      /\ Placed(Sites, 0, "wait", s, l, gridCalls[r][0])
      /\ Ret(r, 0) \in Nat
  BY <1>1, CtaAt, ZeroSM
<1>6. passed[r] = Ret(r, 0)
  BY <1>1, <1>5, LeaderPassed
<1>7. /\ DoneMod \in Nat /\ DoneMod > 2 * Len(Sites) /\ Len(Sites) \in Nat
      /\ Sites[s].fast => Sites[s].prologue /\ Sites[s].epilogue
  <2>1. setup \in Setups
    BY DEF HeldInv, IInv, TypeInv
  <2> QED
    BY <1>5, <2>1, ProgramSites DEF Program
<1>8. doneCount' \in [Ranks -> 0 .. DoneMod - 1]
  <2>1. CASE At(r, 0).fast
    <3>1. doneBase[r][0] \in Int /\ s \in Int
      BY <1>3, <1>5, ZeroSM
    <3>2. (doneBase[r][0] + s) % DoneMod \in 0 .. DoneMod - 1
      BY <1>7, <3>1
    <3> QED
      BY <1>1, <1>3, <2>1, <3>2
  <2>2. CASE ~At(r, 0).fast
    BY <1>1, <1>3, <2>2
  <2> QED
    BY <2>1, <2>2
<1>9. pc[r][0] # "trapped" /\ pc[r][0] # "exited" /\ "wait" \in Middle
  BY <1>1 DEF Middle
<1>10. ASSUME Return(r, 0), ~(At(r, 0).epilogue /\ ~At(r, 0).fast)
       PROVE  /\ OnlyMoves(r, 0) /\ GoesOn(r, 0)
              /\ Placed(Sites, 0, pc'[r][0], site'[r][0], launch'[r][0], gridCalls'[r][0])
              /\ pc'[r][0] # "trapped"
  <2>1. /\ pc[r][0] \in Middle \cup {"entry", "epilogue"}
        /\ pc[r][0] # "entry" /\ pc[r][0] \notin {"entry", "prologue"}
    BY <1>1, <1>9
  <2>2. passed'[r] >= Ret(r, 0) + 1
    BY <1>4, <1>5, <1>6
  <2> QED
    BY <1>1, <1>9, <1>10, <2>1, <2>2, ZeroSM, ReturnGoes
<1>11. ASSUME Goto(r, 0, "call_epilogue"), UNCHANGED site, At(r, 0).epilogue, ~At(r, 0).fast
       PROVE  /\ OnlyMoves(r, 0) /\ GoesOn(r, 0)
              /\ Placed(Sites, 0, pc'[r][0], site'[r][0], launch'[r][0], gridCalls'[r][0])
              /\ pc'[r][0] # "trapped"
  <2>1. Placed(Sites, 0, "call_epilogue", s, l, gridCalls'[r][0])
    BY <1>1, <1>5, <1>9, <1>11, PlaceMiddle DEF At
  <2>2. "call_epilogue" \in Middle /\ "call_epilogue" \in Locations
    BY DEF Middle, Locations
  <2>3. pc[r][0] \in Middle \cup {"entry"} /\ pc[r][0] \notin {"entry", "prologue"}
    BY <1>1, <1>9
  <2>4. \A q \in Ranks, o \in SMs : (q # r \/ o # 0) => gridCalls'[q][o] = gridCalls[q][o]
    BY <1>1
  <2>5. /\ OnlyMoves(r, 0) /\ GoesOn(r, 0)
        /\ Placed(Sites, 0, pc'[r][0], site'[r][0], launch'[r][0], gridCalls'[r][0])
    BY <1>1, <1>11, <2>1, <2>2, <2>3, <2>4, ZeroSM, StayGoes
  <2>6. pc'[r][0] # "trapped"
    BY <1>3, <1>11, ZeroSM DEF Goto
  <2> QED
    BY <2>5, <2>6
<1>12. /\ OnlyMoves(r, 0) /\ GoesOn(r, 0)
       /\ Placed(Sites, 0, pc'[r][0], site'[r][0], launch'[r][0], gridCalls'[r][0])
       /\ pc'[r][0] # "trapped"
  <2>1. \/ Return(r, 0) /\ ~(At(r, 0).epilogue /\ ~At(r, 0).fast)
        \/ Goto(r, 0, "call_epilogue") /\ UNCHANGED site /\ At(r, 0).epilogue /\ ~At(r, 0).fast
    BY <1>1 DEF AfterSignals
  <2> QED
    BY <1>10, <1>11, <2>1
<1>13. Together'
  BY <1>1, <1>9, <1>12, ZeroSM, StayTogether
\* No CTA is left behind in an earlier launch, nor ahead in a later one.
<1>14. ASSUME At(r, 0).fast, NEW o \in SMs PROVE launch[r][o] = l
  <2>1. Sites[s].prologue
    BY <1>7, <1>14 DEF At
  <2>2. \/ launch[r][o] = l
        \/ launch[r][o] = l + 1 /\ pc[r][0] = "exited"
        \/ l = launch[r][o] + 1 /\ pc[r][o] = "exited"
    BY ZeroSM DEF HeldInv, Together
  <2>3. ASSUME l = launch[r][o] + 1, pc[r][o] = "exited" PROVE FALSE
    <3>1. Prologued(r) = Ret(r, 0) + 1
      BY <1>1 DEF Prologued
    <3>2. SiteOf(Sites, Ret(r, 0) + 1) = Sites[s]
      BY <1>1, <1>5, SiteAt DEF Ret
    <3>3. Half(r, o) >= 2 * (Ret(r, 0) + 1) - 1
      <4>1. Ret(r, 0) + 1 \in Nat /\ Ret(r, 0) + 1 > 0 /\ Ret(r, 0) + 1 <= Prologued(r)
        BY <1>5, <3>1
      <4> QED
        BY <2>1, <3>2, <4>1 DEF HeldInv, Gathered
    <3>4. launch[r][o] \in Nat /\ launch[r][o] = l - 1
      BY <2>3, CtaAt
    <3>5. Ret(r, o) = (l - 1) * Len(Sites) /\ Half(r, o) = 2 * Ret(r, o) + 0
      BY <2>3, <3>4 DEF Ret, Half, RetAt, HalfAt
    <3>6. Ret(r, 0) = (l - 1) * Len(Sites) + (s - 1)
      BY <1>1 DEF Ret, RetAt
    <3>7. Ret(r, o) \in Nat
      BY CtaAt
    <3>8. Ret(r, 0) = Ret(r, o) + (s - 1)
      BY <3>5, <3>6
    <3>9. s \in Nat /\ s >= 1
      BY <1>5
    <3>10. Half(r, o) = 2 * Ret(r, o) + 0
      BY <3>5
    <3> QED
      BY <1>5, <3>3, <3>7, <3>8, <3>9, <3>10
  <2> QED
    BY <1>1, <2>2, <2>3
<1>15. DoneWords'
  <2>1. CASE ~At(r, 0).fast
    BY <1>1, <1>2, <1>4, <2>1, DoneKept
  <2>2. CASE At(r, 0).fast
    <3>1. Sites' = Sites
      BY <1>1 DEF Sites
    <3>2. SUFFICES ASSUME NEW q \in Ranks PROVE \E f \in 0 .. Len(Sites) : DoneAt(q, f)'
      BY <3>1 DEF DoneWords
    <3>3. CASE q # r
      <4>1. PICK f \in 0 .. Len(Sites) : DoneAt(q, f)
        BY DEF HeldInv, DoneWords
      <4>2. doneCount'[q] = doneCount[q] /\ passed'[q] = passed[q]
        BY <1>1, <1>3, <2>2, <3>3 DEF HeldInv, IInv, TypeInv
      <4>3. DoneAt(q, f)'
        BY <1>1, <3>1, <4>1, <4>2 DEF DoneAt
      <4> QED
        BY <4>3
    <3>4. CASE q = r
      <4>1. doneCount'[r] = (doneBase[r][0] + s) % DoneMod
        BY <1>1, <1>3, <2>2
      <4>2. \A o \in SMs : launch'[r][o] = launch'[r][0]
        BY <1>1, <1>14, <2>2
      <4>3. \A o \in SMs : doneBase[r][o] = doneBase[r][0]
        <5>1. \A o \in SMs : launch[r][o] = launch[r][0]
          BY <1>14, <2>2
        <5>2. PICK f \in 0 .. Len(Sites) : DoneAt(r, f)
          BY DEF HeldInv, DoneWords
        <5> QED
          BY <5>1, <5>2 DEF DoneAt
      <4>4. (l - 1) * Len(Sites) + s <= passed'[r]
        <5>1. Ret(r, 0) = (l - 1) * Len(Sites) + (s - 1)
          BY <1>1 DEF Ret, RetAt
        <5>2. (l - 1) * Len(Sites) \in Int
          BY <1>5, <1>7
        <5> QED
          BY <1>4, <1>5, <1>6, <5>1, <5>2
      <4>5. \A o \in SMs : ~(launch'[r][o] < launch'[r][0]) /\ ~(launch'[r][o] > launch'[r][0])
        BY <1>1, <1>5, <4>2
      <4>6. PICK f \in 0 .. Len(Sites) : f = s
        BY <1>5, <1>7
      <4>7. DoneAt(r, f)'
        BY <1>1, <1>5, <3>1, <4>1, <4>3, <4>4, <4>5, <4>6 DEF DoneAt
      <4> QED
        BY <3>4, <4>7
    <3> QED
      BY <3>3, <3>4
  <2> QED
    BY <2>1, <2>2
<1> QED
  BY <1>1, <1>2, <1>3, <1>4, <1>8, <1>9, <1>12, <1>13, <1>15, ZeroSM, CtaHeld

\* The trap leaves every CTA in the call it was in.
LEMMA TimeoutHeld ==
  ASSUME HeldInv, NEW r \in Ranks, Timeout(r)
  PROVE  HeldInv'
<1>1. /\ pc[r][0] = "wait"
      /\ pc' = [pc EXCEPT ![r] = [sm \in SMs |-> IF pc[r][sm] = "exited"
                                                 THEN "exited" ELSE "trapped"]]
      /\ UNCHANGED <<setup, site, launch, gridCalls, doneCount, doneBase, passed>>
  BY DEF Timeout, ctaVars
<1>2. IInv'
  BY TimeoutInv DEF HeldInv
<1>3. pc \in [Ranks -> [SMs -> Locations]]
  BY DEF HeldInv, IInv, TypeInv
<1>4. /\ \A sm \in SMs : pc'[r][sm] = IF pc[r][sm] = "exited" THEN "exited" ELSE "trapped"
      /\ \A q \in Ranks : q # r => pc'[q] = pc[q]
  BY <1>1, <1>3
<1>5. Sites' = Sites
  BY <1>1 DEF Sites
<1>6. ASSUME NEW q \in Ranks, NEW o \in SMs
      PROVE  /\ pc'[q][o] = "exited" <=> pc[q][o] = "exited"
             /\ pc'[q][o] = pc[q][o] \/ (pc'[q][o] = "trapped" /\ q = r /\ pc[q][o] # "exited")
  BY <1>4
<1>7. \A q \in Ranks, o \in SMs : Ret(q, o)' = Ret(q, o)
  BY <1>1, <1>5, <1>6 DEF Ret, RetAt
<1>8. \A q \in Ranks, o \in SMs :
        /\ Ret(q, o) \in Nat /\ Half(q, o) \in Nat
        /\ Half(q, o) <= 2 * Ret(q, o) + 2
  BY CtaAt
<1>9. AllPlaced'
  <2>1. ASSUME NEW q \in Ranks, NEW o \in SMs
        PROVE  Placed(Sites, o, pc'[q][o], site[q][o], launch[q][o], gridCalls[q][o])
    <3>1. /\ Program(Sites) /\ site[q][o] \in 1 .. Len(Sites) /\ launch[q][o] \in Nat
          /\ Placed(Sites, o, pc[q][o], site[q][o], launch[q][o], gridCalls[q][o])
          /\ pc[q][o] # "exited" => launch[q][o] >= 1
      BY CtaAt
    <3>2. CASE pc'[q][o] = pc[q][o]
      BY <3>1, <3>2
    <3>3. CASE pc'[q][o] = "trapped" /\ q = r /\ pc[q][o] # "exited" /\ o # 0
      BY <3>1, <3>3 DEF Placed
    <3>4. CASE pc'[q][o] = "trapped" /\ q = r /\ o = 0
      <4>1. "wait" \in Middle /\ "wait" # "trapped"
        BY DEF Middle
      <4>2. Placed(Sites, 0, "wait", site[r][0], launch[r][0], gridCalls[r][0])
        BY <1>1, <3>1, <3>4
      <4>3. Placed(Sites, 0, "trapped", site[r][0], launch[r][0], gridCalls[r][0])
        BY <3>1, <3>4, <4>1, <4>2, PlaceMiddle
      <4> QED
        BY <3>4, <4>3
    <3> QED
      BY <1>6, <3>2, <3>3, <3>4
  <2> QED
    BY <1>1, <1>5, <2>1 DEF AllPlaced
<1>10. Together'
  BY <1>1, <1>6 DEF HeldInv, Together
<1>11. \A q \in Ranks : Prologued(q)' = Prologued(q)
  <2>1. ASSUME NEW q \in Ranks PROVE Prologued(q)' = Prologued(q)
    <3>1. CASE q = r
      <4>1. pc'[r][0] = "trapped"
        BY <1>1, <1>4, ZeroSM
      <4> QED
        BY <1>1, <1>7, <3>1, <4>1, ZeroSM DEF Prologued
    <3>2. CASE q # r
      BY <1>4, <1>7, <3>2, ZeroSM DEF Prologued
    <3> QED
      BY <3>1, <3>2
  <2> QED
    BY <2>1
<1>12. Gathered'
  <2>1. SUFFICES ASSUME NEW q \in Ranks, NEW o \in SMs, NEW k \in Nat,
                        k > 0, k <= Prologued(q), SiteOf(Sites, k).prologue
                 PROVE  Half(q, o)' >= 2 * k - 1
    BY <1>5, <1>11 DEF Gathered
  <2>2. Half(q, o) >= 2 * k - 1
    BY <2>1 DEF HeldInv, Gathered
  <2>3. CASE pc'[q][o] = pc[q][o]
    <3>1. Half(q, o)' = Half(q, o)
      BY <1>1, <1>5, <2>3 DEF Half
    <3> QED
      BY <2>2, <3>1
  <2>4. CASE pc'[q][o] = "trapped"
    <3>1. Half(q, o)' = 2 * Ret(q, o) + 1
      <4>1. Half(q, o)' = 2 * Ret(q, o)' + 1
        BY <2>4 DEF Half, HalfAt, Ret
      <4> QED
        BY <1>7, <4>1
    <3>2. k <= Ret(q, o) + 1
      BY <1>8, <2>2
    <3> QED
      BY <1>8, <3>1, <3>2
  <2> QED
    BY <1>6, <2>3, <2>4
<1>13. Followed'
  BY <1>1, <1>5, <1>7 DEF HeldInv, Followed
<1>14. DoneWords'
  <2>1. \A q \in Ranks : passed'[q] >= passed[q]
    <3>1. \A q \in Ranks : passed[q] \in Nat
      BY DEF HeldInv, IInv, TypeInv
    <3> QED
      BY <1>1, <3>1
  <2> QED
    BY <1>1, <1>2, <2>1, DoneKept
<1>15. Killed'
  <2>1. ASSUME NEW q \in Ranks, NEW o \in SMs, pc'[q][o] = "trapped" PROVE pc'[q][0] = "trapped"
    <3>1. CASE q = r
      BY <1>1, <1>4, <3>1, ZeroSM
    <3>2. CASE q # r
      BY <1>4, <2>1, <3>2 DEF HeldInv, Killed
    <3> QED
      BY <3>1, <3>2
  <2> QED
    BY <2>1 DEF Killed
<1>16. /\ gridCalls' \in [Ranks -> [SMs -> Nat]]
       /\ doneCount' \in [Ranks -> 0 .. DoneMod - 1]
       /\ doneBase' \in [Ranks -> [SMs -> 0 .. DoneMod - 1]]
  BY <1>1 DEF HeldInv
<1> QED
  BY <1>2, <1>9, <1>10, <1>12, <1>13, <1>14, <1>15, <1>16 DEF HeldInv

LEMMA StepHeld == HeldInv /\ [Next]_vars => HeldInv'
<1> SUFFICES ASSUME HeldInv, [Next]_vars PROVE HeldInv'
  OBVIOUS
<1>1. IInv'
  BY StepInv DEF HeldInv
<1>2. ASSUME UNCHANGED vars PROVE HeldInv'
  BY <1>1, <1>2, StillHeld DEF vars
<1>3. ASSUME NEW r \in Ranks, NEW sm \in SMs, CtaStep(r, sm) PROVE HeldInv'
  BY <1>3, StartHeld, EnterHeld, LeavePrologueHeld, SeeDoneHeld, EnterEpilogueHeld,
     LeaveEpilogueHeld DEF CtaStep
<1>4. ASSUME NEW r \in Ranks, NEW q \in Ranks, Signal(r, q) PROVE HeldInv'
  BY <1>1, <1>4, StillHeld DEF Signal, ctaVars
<1>5. ASSUME NEW r \in Ranks, LeaderStep(r) PROVE HeldInv'
  BY <1>4, <1>5, UpdateStatusHeld, ObserveHeld, TimeoutHeld DEF LeaderStep
<1> QED
  BY <1>2, <1>3, <1>5 DEF Next, Finished

\* nvlink_barrier (fused_comm): for every number of ranks and CTAs, every
\* program of prologue, epilogue and fast calls, every number of launches,
\* whatever counter, signal and done words the launches before these left,
\* and any timeouts: CTA 0, and any other CTA if the call has an epilogue,
\* returns from its k-th call only after CTA 0 of every rank, and every CTA
\* of every rank if the call has a prologue, has entered its k-th.  The other
\* CTAs know it from the grid_sync or from a done word that wraps; without an
\* epilogue they return at once, and nothing is said of them.
THEOREM NobodyEarly == Spec => []NoEarlyReturn
<1>1. Spec => []HeldInv
  BY InitHeld, StepHeld, PTL DEF Spec
<1> QED
  BY <1>1, HeldImplies, PTL
-----------------------------------------------------------------------------
(***************************************************************************)
(* grid_sync, which every call above relies on: for every number of CTAs   *)
(* and every tag at least that large it never releases a CTA early, and it *)
(* implements the abstract barrier.                                        *)
(*                                                                         *)
(* The argument: at any time some round k is open.  The CTAs in            *)
(* GridInside(k) have arrived for it, the others have not, and the word is *)
(* the tag of round k plus what the CTAs inside have added, which stays    *)
(* below the tag bit as long as somebody is missing.  A spinning CTA's old *)
(* value carries the tag of its own round, so it sees a different tag only *)
(* if its round is over.                                                   *)
(***************************************************************************)
CONSTANTS FinishSumTag,  \* of GridSync: the top bit,
          MaxSyncs       \*   and the bound on the calls
VARIABLES count, oldValue, at, syncs   \* its variables; `at` is its pc
Grid == INSTANCE GridSync WITH pc <- at

\* The tag the word carries while round k is open, if it began with s.
GridRoundTag(s, k) == (s + k) % 2

\* The CTAs that have arrived for round k.
GridInside(k) == {sm \in Grid!SMs : Grid!arrivals[sm] = k + 1}

\* What a set of CTAs that excludes some CTA has added to the word.
GridSum(S) == Cardinality(S \ {0}) +
            (IF 0 \in S THEN FinishSumTag - (NumSMs - 1) ELSE 0)

\* Round k is open.
GridOpen(s, k) ==
  /\ \A sm \in Grid!SMs :
       \/ at[sm] = "run"  /\ syncs[sm] = k
       \/ at[sm] = "spin" /\ syncs[sm] = k
       \/ at[sm] = "spin" /\ syncs[sm] = k - 1
  /\ GridInside(k) # Grid!SMs
  /\ count = GridRoundTag(s, k) * FinishSumTag + GridSum(GridInside(k))
  /\ \A sm \in Grid!SMs : at[sm] = "spin" =>
       Grid!Tag(oldValue[sm]) = GridRoundTag(s, syncs[sm]) /\ syncs[sm] < MaxSyncs

GridIInv == Grid!TypeOK /\ \E s \in {0, 1}, k \in Nat : GridOpen(s, k)

-----------------------------------------------------------------------------
LEMMA GridSMsFinite ==
  ASSUME Grid!TagFits
  PROVE  IsFiniteSet(Grid!SMs) /\ Cardinality(Grid!SMs) = NumSMs /\ 0 \in Grid!SMs
  BY FS_Interval DEF Grid!TagFits, Grid!SMs

\* As long as a CTA is missing the partial sum stays below the tag bit; the
\* last arrival completes it to exactly the tag.
LEMMA GridSumBound ==
  ASSUME Grid!TagFits, NEW S \in SUBSET Grid!SMs, S # Grid!SMs
  PROVE  GridSum(S) \in 0 .. FinishSumTag - 1
<1>1. /\ IsFiniteSet(S)
      /\ Cardinality(S) <= NumSMs
      /\ Cardinality(S) # NumSMs
  BY GridSMsFinite, FS_Subset
<1>2. Cardinality(S) \in 0 .. NumSMs - 1
  BY <1>1, FS_CardinalityType DEF Grid!TagFits
<1>3. 0 \in S => Cardinality(S \ {0}) = Cardinality(S) - 1
  BY <1>1, FS_RemoveElement
<1>4. 0 \notin S => S \ {0} = S
  OBVIOUS
<1>5. 0 \in S => Cardinality(S) >= 1
  BY <1>1, <1>2, FS_EmptySet
<1>6. CASE 0 \in S
  <2>1. GridSum(S) = Cardinality(S) - 1 + FinishSumTag - (NumSMs - 1)
    BY <1>2, <1>3, <1>6 DEF Grid!TagFits, GridSum
  <2>2. Cardinality(S) \in 1 .. NumSMs - 1
    BY <1>2, <1>5, <1>6
  <2> QED BY <2>1, <2>2 DEF Grid!TagFits
<1>7. CASE 0 \notin S
  <2>1. GridSum(S) = Cardinality(S)
    <3>1. Cardinality(S \ {0}) = Cardinality(S)
      BY <1>4, <1>7
    <3> QED BY <1>2, <1>7, <3>1 DEF GridSum
  <2> QED BY <1>2, <2>1 DEF Grid!TagFits
<1> QED BY <1>6, <1>7

\* An arrival adds its increment to the sum ...
LEMMA GridSumAdd ==
  ASSUME Grid!TagFits, NEW S \in SUBSET Grid!SMs, NEW sm \in Grid!SMs, sm \notin S
  PROVE  GridSum(S \cup {sm}) = GridSum(S) + Grid!Increment(sm)
<1>1. IsFiniteSet(S) /\ IsFiniteSet(S \ {0})
  BY GridSMsFinite, FS_Subset, FS_RemoveElement
<1>2. Cardinality(S \ {0}) \in Nat
  BY <1>1, FS_CardinalityType
<1>3. CASE sm = 0
  <2>1. (S \cup {sm}) \ {0} = S \ {0}
    BY <1>3
  <2> QED BY <1>2, <1>3, <2>1 DEF Grid!TagFits, GridSum, Grid!Increment
<1>4. CASE sm # 0
  <2>1. (S \cup {sm}) \ {0} = (S \ {0}) \cup {sm}
    BY <1>4
  <2>2. Cardinality((S \ {0}) \cup {sm}) = Cardinality(S \ {0}) + 1
    BY <1>1, FS_AddElement
  <2>3. 0 \in S \cup {sm} <=> 0 \in S
    BY <1>4
  <2>4. Cardinality((S \cup {sm}) \ {0}) = Cardinality(S \ {0}) + 1
    BY <2>1, <2>2
  <2> QED BY <1>2, <1>4, <2>3, <2>4 DEF Grid!TagFits, GridSum, Grid!Increment
<1> QED BY <1>3, <1>4

\* ... and a complete round adds exactly the tag.
LEMMA GridSumAll ==
  ASSUME Grid!TagFits PROVE GridSum(Grid!SMs) = FinishSumTag
<1>1. Cardinality(Grid!SMs \ {0}) = NumSMs - 1
  BY GridSMsFinite, FS_RemoveElement
<1> QED BY <1>1, GridSMsFinite DEF Grid!TagFits, GridSum

LEMMA GridSumNone ==
  ASSUME Grid!TagFits PROVE GridSum({}) = 0
  BY FS_EmptySet DEF GridSum

\* While round k is open the word shows the tag of round k.
LEMMA GridOpenTag ==
  ASSUME Grid!TagFits, NEW s \in {0, 1}, NEW k \in Nat, GridOpen(s, k)
  PROVE  /\ Grid!Tag(count) = GridRoundTag(s, k)
         /\ count \in Nat
<1>1. GridInside(k) \in SUBSET Grid!SMs
  BY DEF GridInside
<1>2. GridSum(GridInside(k)) \in 0 .. FinishSumTag - 1
  BY <1>1, GridSumBound DEF GridOpen
<1>3. GridRoundTag(s, k) \in {0, 1}
  BY DEF GridRoundTag
<1> QED BY <1>2, <1>3 DEF Grid!TagFits, GridOpen, Grid!Tag

-----------------------------------------------------------------------------
LEMMA GridInitInv ==
  ASSUME Grid!TagFits PROVE Grid!Init => GridIInv
<1> SUFFICES ASSUME Grid!Init PROVE GridIInv
  OBVIOUS
<1>1. Grid!TypeOK
  BY DEF Grid!TagFits, Grid!Init, Grid!TypeOK, Grid!SMs
<1>2. PICK s \in {0, 1} : count = s * FinishSumTag
  BY DEF Grid!TagFits, Grid!Init
<1>3. GridInside(0) = {}
  BY DEF Grid!Init, GridInside, Grid!arrivals
<1>4. GridInside(0) # Grid!SMs
  BY <1>3, GridSMsFinite
<1>5. GridRoundTag(s, 0) = s
  BY DEF GridRoundTag
<1>6. GridOpen(s, 0)
  <2>1. \A sm \in Grid!SMs : at[sm] = "run" /\ syncs[sm] = 0
    BY DEF Grid!Init
  <2>2. count = GridRoundTag(s, 0) * FinishSumTag + GridSum(GridInside(0))
    <3>1. GridSum(GridInside(0)) = 0
      BY <1>3, GridSumNone
    <3> QED BY <1>2, <1>5, <3>1 DEF Grid!TagFits
  <2> QED BY <1>4, <2>1, <2>2 DEF GridOpen
<1> QED BY <1>1, <1>6 DEF GridIInv

LEMMA GridArriveInv ==
  ASSUME Grid!TagFits, GridIInv, NEW sm \in Grid!SMs, Grid!Arrive(sm)
  PROVE  GridIInv'
<1> USE DEF Grid!TagFits
<1>1. PICK s \in {0, 1}, k \in Nat : GridOpen(s, k)
  BY DEF GridIInv
<1>2. Grid!TypeOK'
  BY DEF GridIInv, Grid!TypeOK, Grid!Arrive, Grid!Increment, Grid!SMs
<1>3. syncs[sm] = k /\ at[sm] = "run"
  BY <1>1 DEF GridOpen, Grid!Arrive
<1>4. GridInside(k)' = GridInside(k) \cup {sm} /\ sm \notin GridInside(k) /\ GridInside(k) \in SUBSET Grid!SMs
  BY <1>1, <1>3 DEF GridIInv, Grid!TypeOK, GridOpen, Grid!Arrive, GridInside, Grid!arrivals
<1>5. /\ GridSum(GridInside(k)) \in 0 .. FinishSumTag - 1
      /\ Grid!Tag(count) = GridRoundTag(s, k)
      /\ GridSum(GridInside(k)') = GridSum(GridInside(k)) + Grid!Increment(sm)
      /\ GridRoundTag(s, k) \in {0, 1}
  <2>1. GridSum(GridInside(k)) \in 0 .. FinishSumTag - 1
    BY <1>1, <1>4, GridSumBound DEF GridOpen
  <2>2. Grid!Tag(count) = GridRoundTag(s, k)
    BY <1>1, GridOpenTag
  <2>3. GridSum(GridInside(k)') = GridSum(GridInside(k)) + Grid!Increment(sm)
    BY <1>4, GridSumAdd
  <2>4. GridRoundTag(s, k) \in {0, 1}
    BY DEF GridRoundTag
  <2> QED BY <2>1, <2>2, <2>3, <2>4
<1>6. \A o \in Grid!SMs : at'[o] = "spin" =>
           Grid!Tag(oldValue'[o]) = GridRoundTag(s, syncs'[o]) /\ syncs'[o] < MaxSyncs
  BY <1>1, <1>3, <1>5 DEF GridIInv, Grid!TypeOK, GridOpen, Grid!Arrive
<1>7. CASE GridInside(k)' # Grid!SMs
  <2>1. GridSum(GridInside(k)') \in 0 .. FinishSumTag - 1
    BY <1>4, <1>7, GridSumBound
  <2>2. count' = GridRoundTag(s, k) * FinishSumTag + GridSum(GridInside(k)')
    BY <1>1, <1>5, <2>1 DEF GridOpen, Grid!Arrive, Grid!Increment
  <2>3. GridOpen(s, k)'
    BY <1>1, <1>3, <1>6, <1>7, <2>2
    DEF GridIInv, Grid!TypeOK, GridOpen, Grid!Arrive, GridInside, Grid!arrivals, GridRoundTag, GridSum, Grid!SMs
  <2> QED BY <1>2, <2>3 DEF GridIInv
<1>8. CASE GridInside(k)' = Grid!SMs
  <2>1. count' = GridRoundTag(s, k + 1) * FinishSumTag
    <3>1. count + Grid!Increment(sm) = GridRoundTag(s, k) * FinishSumTag + FinishSumTag
      BY <1>1, <1>5, <1>8, GridSumAll DEF GridOpen, Grid!Increment
    <3>2. GridRoundTag(s, k + 1) = 1 - GridRoundTag(s, k)
      BY DEF GridRoundTag
    <3> QED BY <1>5, <3>1, <3>2 DEF Grid!Arrive
  <2>2. \A o \in Grid!SMs : at'[o] = "spin" /\ syncs'[o] = k
    <3>1. SUFFICES ASSUME NEW o \in Grid!SMs
                   PROVE  at'[o] = "spin" /\ syncs'[o] = k
      OBVIOUS
    <3>2. syncs'[o] + (IF at'[o] = "spin" THEN 1 ELSE 0) = k + 1
      BY <1>8 DEF GridInside, Grid!arrivals
    <3>3. syncs'[o] = syncs[o] /\ (syncs[o] = k \/ syncs[o] = k - 1)
      BY <1>1 DEF GridOpen, Grid!Arrive
    <3> QED BY <3>2, <3>3
  <2>3. GridInside(k + 1)' = {}
    BY <2>2 DEF GridInside, Grid!arrivals
  <2>4. GridOpen(s, k + 1)'
    <3>1. GridInside(k + 1)' # Grid!SMs
      BY <2>3, GridSMsFinite
    <3>2. GridSum(GridInside(k + 1)') = 0
      BY <2>3, GridSumNone
    <3>3. GridSum(GridInside(k + 1))' = GridSum(GridInside(k + 1)')
      BY DEF GridSum
    <3>4. GridRoundTag(s, k + 1)' = GridRoundTag(s, k + 1) /\ GridRoundTag(s, k + 1) \in {0, 1}
      BY DEF GridRoundTag
    <3>5. count' = GridRoundTag(s, k + 1) * FinishSumTag + GridSum(GridInside(k + 1)')
      BY <2>1, <3>2, <3>4
    <3>6. \A o \in Grid!SMs : at'[o] = "spin" /\ syncs'[o] = (k + 1) - 1
      BY <2>2
    <3> QED BY <1>6, <3>1, <3>3, <3>5, <3>6 DEF GridOpen, GridRoundTag
  <2> QED BY <1>2, <2>4 DEF GridIInv
<1> QED BY <1>7, <1>8

LEMMA GridLeaveInv ==
  ASSUME Grid!TagFits, GridIInv, NEW sm \in Grid!SMs, Grid!Leave(sm)
  PROVE  GridIInv'
<1> USE DEF Grid!TagFits
<1>1. PICK s \in {0, 1}, k \in Nat : GridOpen(s, k)
  BY DEF GridIInv
<1>2. Grid!Tag(count) = GridRoundTag(s, k)
  BY <1>1, GridOpenTag
<1>3. syncs[sm] = k - 1
  BY <1>1, <1>2 DEF GridOpen, Grid!Leave
<1>4. syncs[sm] + 1 <= MaxSyncs
  BY <1>1, <1>3 DEF Grid!Leave, GridOpen, GridIInv, Grid!TypeOK
<1>5. Grid!TypeOK'
  BY <1>4 DEF GridIInv, Grid!TypeOK, Grid!Leave
<1>6. GridInside(k)' = GridInside(k)
  BY <1>3 DEF GridIInv, Grid!TypeOK, Grid!Leave, GridInside, Grid!arrivals
<1>7. GridOpen(s, k)'
  BY <1>1, <1>3, <1>6 DEF GridIInv, Grid!TypeOK, GridOpen, Grid!Leave, GridSum
<1> QED BY <1>5, <1>7 DEF GridIInv

LEMMA GridNextInv ==
  ASSUME Grid!TagFits PROVE GridIInv /\ [Grid!Next]_(Grid!vars) => GridIInv'
<1> SUFFICES ASSUME GridIInv, [Grid!Next]_(Grid!vars) PROVE GridIInv'
  OBVIOUS
<1>1. ASSUME NEW sm \in Grid!SMs, Grid!Arrive(sm) PROVE GridIInv'
  BY <1>1, GridArriveInv
<1>2. ASSUME NEW sm \in Grid!SMs, Grid!Leave(sm) PROVE GridIInv'
  BY <1>2, GridLeaveInv
<1>3. CASE UNCHANGED Grid!vars
  BY <1>3 DEF Grid!vars, GridIInv, Grid!TypeOK, GridOpen, GridInside, Grid!arrivals, GridSum, GridRoundTag, Grid!Tag
<1> QED BY <1>1, <1>2, <1>3 DEF Grid!Next, Grid!Finished

\* The invariant: the words keep their types, and some round is open.
THEOREM GridInvariant ==
  ASSUME Grid!TagFits PROVE Grid!Spec => []GridIInv
<1>1. QED BY GridInitInv, GridNextInv, PTL DEF Grid!Spec

\* Type correctness of the words of grid_sync, whatever the number of CTAs.
THEOREM GridTypeCorrect ==
  ASSUME Grid!TagFits PROVE Grid!Spec => []Grid!TypeOK
<1>1. GridIInv => Grid!TypeOK
  BY DEF GridIInv
<1> QED BY <1>1, GridInvariant, PTL

\* No CTA returns from its k-th call before every CTA has entered its k-th.
THEOREM GridSafety ==
  ASSUME Grid!TagFits PROVE Grid!Spec => []Grid!NoEarlyReturn
<1>1. GridIInv => Grid!NoEarlyReturn
  BY DEF GridIInv, Grid!TypeOK, GridOpen, Grid!NoEarlyReturn, Grid!arrivals
<1> QED BY <1>1, GridInvariant, PTL

\* When all CTAs are between the same two calls, the word is the bare tag.
THEOREM GridReusable ==
  ASSUME Grid!TagFits PROVE Grid!Spec => []Grid!WordReusable
<1>1. GridIInv => Grid!WordReusable
  <2> SUFFICES ASSUME GridIInv, \A p, q \in Grid!SMs : Grid!arrivals[p] = Grid!arrivals[q]
               PROVE  count \in {0, FinishSumTag}
    BY DEF Grid!WordReusable
  <2>1. PICK s \in {0, 1}, k \in Nat : GridOpen(s, k)
    BY DEF GridIInv
  <2>2. GridInside(k) = {}
    BY <2>1 DEF GridOpen, GridInside
  <2>3. GridRoundTag(s, k) \in {0, 1}
    BY DEF GridRoundTag
  <2>4. GridSum(GridInside(k)) = 0
    BY <2>2, GridSumNone
  <2> QED BY <2>1, <2>3, <2>4 DEF Grid!TagFits, GridOpen
<1> QED BY <1>1, GridInvariant, PTL

\* grid_sync implements the abstract barrier: its atomic add is an arrival,
\* the poll that sees the flipped tag a release.
THEOREM GridImplements ==
  ASSUME Grid!TagFits PROVE Grid!Spec => Grid!GridBarrier!Safe
<1> USE DEF Grid!TagFits
<1>1. Grid!Init => Grid!GridBarrier!Init
  BY DEF Grid!Init, Grid!GridBarrier!Init, Grid!arrivals
<1>2. ASSUME GridIInv, GridIInv', [Grid!Next]_(Grid!vars)
      PROVE  [Grid!GridBarrier!Next]_(Grid!GridBarrier!vars)
  <2>1. ASSUME NEW sm \in Grid!SMs, Grid!Arrive(sm) PROVE Grid!GridBarrier!Arrive(sm)
    <3>1. Grid!arrivals' = [Grid!arrivals EXCEPT ![sm] = @ + 1]
      <4>1. ASSUME NEW o \in Grid!SMs
            PROVE  Grid!arrivals'[o] = IF o = sm THEN Grid!arrivals[o] + 1 ELSE Grid!arrivals[o]
        BY <1>2, <2>1 DEF Grid!Arrive, GridIInv, Grid!TypeOK, Grid!arrivals
      <4> QED BY <4>1 DEF Grid!arrivals
    <3>2. Grid!arrivals[sm] = syncs[sm] /\ Grid!arrivals[sm] < MaxSyncs
      BY <1>2, <2>1 DEF Grid!Arrive, GridIInv, Grid!TypeOK, Grid!arrivals
    <3> QED BY <2>1, <3>1, <3>2 DEF Grid!Arrive, Grid!GridBarrier!Arrive
  <2>2. ASSUME NEW sm \in Grid!SMs, Grid!Leave(sm) PROVE Grid!GridBarrier!Leave(sm)
    <3>1. PICK s \in {0, 1}, k \in Nat : GridOpen(s, k)
      BY <1>2 DEF GridIInv
    <3>2. syncs[sm] = k - 1
      BY <2>2, <3>1, GridOpenTag DEF GridOpen, Grid!Leave
    <3>3. Grid!arrivals[sm] = syncs[sm] + 1 /\ syncs[sm] \in Nat
      BY <1>2, <2>2 DEF Grid!Leave, GridIInv, Grid!TypeOK, Grid!arrivals
    <3>4. \A q \in Grid!SMs : Grid!arrivals[sm] <= Grid!arrivals[q]
      BY <3>1, <3>2, <3>3 DEF GridOpen, Grid!arrivals
    <3>5. Grid!arrivals' = Grid!arrivals
      BY <1>2, <2>2 DEF Grid!Leave, GridIInv, Grid!TypeOK, Grid!arrivals
    <3> QED BY <2>2, <3>3, <3>4, <3>5 DEF Grid!Leave, Grid!GridBarrier!Leave
  <2>3. ASSUME UNCHANGED Grid!vars PROVE UNCHANGED Grid!GridBarrier!vars
    BY <2>3 DEF Grid!vars, Grid!GridBarrier!vars, Grid!arrivals
  <2> QED
    BY <1>2, <2>1, <2>2, <2>3 DEF Grid!Next, Grid!Finished, Grid!GridBarrier!Next
<1> QED
  BY <1>1, <1>2, GridInvariant, PTL DEF Grid!Spec, Grid!GridBarrier!Safe
=============================================================================
