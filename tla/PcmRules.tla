------------------------------ MODULE PcmRules ------------------------------
(* Which parameters a client of the PCM can end up with: the table of      *)
(* rate profiles, the constraints and rules quantum_pcm_open adds, the     *)
(* refinement the ALSA core does with them, and the choice it makes from   *)
(* what is left.  A configuration is an interval of rates and one of       *)
(* channel counts.                                                         *)
EXTENDS Integers, FiniteSets, FiniteSetsExt

Profile(rate, channels) == [rate |-> rate, channels |-> channels]
quantum_rate_profiles ==
  {Profile(44100, 26), Profile(48000, 26), Profile(88200, 18),
   Profile(96000, 18), Profile(176400, 8), Profile(192000, 8)}
quantum_rates == {44100, 48000, 88200, 96000, 176400, 192000}
quantum_channel_counts == {8, 18, 26}

Channels(rate) == (CHOOSE p \in quantum_rate_profiles : p.rate = rate).channels

---------------------------------------------------------------------------
Interval(lo, hi) == [min |-> lo, max |-> hi]
Test(interval, n) == interval.min <= n /\ n <= interval.max
IsEmpty(interval) == interval.min > interval.max
Hull(S) == IF S = {} THEN Interval(1, 0) ELSE Interval(Min(S), Max(S))

(* snd_interval_refine and snd_interval_list. *)
Refine(interval, allowed) ==
  Interval(Max({interval.min, allowed.min}), Min({interval.max, allowed.max}))
RefineToList(interval, list) == Refine(interval, Hull({n \in list : Test(interval, n)}))

(* The two rules: everything between the least and the greatest value that *)
(* some profile in the other interval has.                                 *)
AllowedChannels(rates) ==
  Hull({p.channels : p \in {q \in quantum_rate_profiles : Test(rates, q.rate)}})
AllowedRatesAtLeast(channels) ==
  Hull({p.rate : p \in {q \in quantum_rate_profiles : channels.min = q.channels}})
AllowedRates(channels) ==
  Hull({p.rate : p \in {q \in quantum_rate_profiles : Test(channels, q.channels)}})

Pass(c) ==
  LET rates    == RefineToList(c.rates, quantum_rates)
      channels == Refine(RefineToList(c.channels, quantum_channel_counts), AllowedChannels(rates))
  IN  [rates |-> Refine(rates, AllowedRates(channels)), channels |-> channels]

(* snd_pcm_hw_refine repeats the rules until nothing changes, which takes  *)
(* at most one pass for each end of an interval that moves to another row. *)
MaxPasses == 4
Refined(c) ==
  LET after[n \in 0..MaxPasses] == IF n = 0 THEN c ELSE Pass(after[n - 1])
  IN  after[MaxPasses]
Refused(c) == IsEmpty(c.rates) \/ IsEmpty(c.channels)

(* snd_pcm_hw_params_choose: the fewest channels, then the lowest rate. *)
Chosen(c) ==
  LET fewest == Refined([c EXCEPT !.channels = Interval(@.min, @.min)])
  IN  Profile(fewest.rates.min, fewest.channels.min)

(* The head of quantum_pcm_hw_params. *)
Accepted(p) == \E q \in quantum_rate_profiles : q.rate = p.rate /\ q.channels = p.channels

(* What a client may ask for: intervals that begin and end at a value of  *)
(* the lists, just below it or just above.                                 *)
Ends(list) == UNION {{n - 1, n, n + 1} : n \in list}
Intervals(list) == {i \in {Interval(a, b) : a, b \in Ends(list)} : ~IsEmpty(i)}
Configs ==
  {[rates |-> r, channels |-> k] :
     r \in Intervals(quantum_rates), k \in Intervals(quantum_channel_counts)}

(* What the core hands to hw_params for it. *)
Offers == {Chosen(Refined(c)) : c \in {d \in Configs : ~Refused(Refined(d))}}
=============================================================================
