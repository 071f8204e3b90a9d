------------------------ MODULE GhidraScriptsProofs ------------------------
(* Proofs about GhidraScripts for every listing, session, offset list and  *)
(* word: what each kind of script can enter in its tables, that a search   *)
(* enters everything it has passed, and what the reports therefore hold.   *)
EXTENDS GhidraScripts, SetInduction, FiniteSetTheorems, TLAPS

(* The listing is a sequence of instructions. *)
LEMMA CodeType == TypeOK => code \in Seq(Instruction)
  BY ListingsAssumption DEF TypeOK

(* Every script has passes; the number of those of find_mmio_registers.py. *)
LEMMA PassesType ==
  /\ \A s \in Scripts : DOMAIN Passes[s] = 1..Len(Passes[s]) /\ Len(Passes[s]) \in Nat \ {0}
  /\ Len(Passes["mmio"]) = 2
<1>1. ASSUME NEW s \in Scripts
      PROVE  DOMAIN Passes[s] = 1..Len(Passes[s]) /\ Len(Passes[s]) \in Nat \ {0}
  <2>1. CASE s \in {"all", "enhanced", "scalars", "simple", "mmio_simple"}
    BY <2>1 DEF Passes
  <2>2. CASE s \in {"mmio", "interrupt", "function", "usage", "stream", "init"}
    BY <2>2 DEF Passes
  <2> QED
    BY <2>1, <2>2 DEF Scripts, Passes
<1> QED
  BY <1>1 DEF Passes

LEMMA InitTypes == Init => TypeOK
<1> SUFFICES ASSUME Init PROVE TypeOK
  OBVIOUS
<1>1. code \in Seq(Instruction) /\ todo \in Seq(Scripts)
  BY ListingsAssumption, SessionsAssumption DEF Init
<1>2. DOMAIN [f \in OutputFiles |-> <<>>] = OutputFiles
  OBVIOUS
<1> QED
  BY <1>1, <1>2 DEF Init, TypeOK

(* What an instruction adds to the tables. *)
LEMMA DeliverEntries ==
  ASSUME TypeOK, Deliver
  PROVE  LET i == code[at + 1]
         IN  /\ at + 1 \in DOMAIN code /\ i \in Instruction /\ ~Raises(i) /\ HasTarget
             /\ at' = at + 1 /\ UNCHANGED <<code, api, todo, job, pass, goal, analysed, files>>
             /\ log \subseteq log'
             /\ \A e \in log' \ log : \E a \in Found(job, PassName, Target, i) : e = Entry(a, at + 1)
             /\ Delivers(i) => \A a \in Found(job, PassName, Target, i) : Entry(a, at + 1) \in log'
<1>1. at + 1 \in DOMAIN code /\ code[at + 1] \in Instruction
  BY CodeType DEF TypeOK, Deliver
<1> QED
  BY <1>1 DEF Deliver, listing

LEMMA StepTypes == TypeOK /\ [Next]_vars => TypeOK'
<1> SUFFICES ASSUME TypeOK, [Next]_vars PROVE TypeOK'
  OBVIOUS
<1> USE DEF TypeOK, listing, tables
<1>1. CASE Begin
  <2>1. job' \in Scripts /\ todo' \in Seq(Scripts)
    BY <1>1 DEF Begin
  <2>2. Len(code) \in Nat /\ <<>> \in Seq(FunctionsOf(code))
    BY CodeType
  <2> QED
    BY <1>1, <2>1, <2>2 DEF Begin
<1>2. CASE Deliver
  <2>1. /\ at + 1 \in 1..Len(code)
        /\ \A e \in log' : e.n \in 1..Len(code)
    BY <1>2, CodeType, DeliverEntries DEF Entry
  <2>2. users' \subseteq FunctionsOf(code) \cup {UNKNOWN}
    <3>1. code[at + 1].fn \in FunctionsOf(code) \cup {UNKNOWN}
      BY <1>2, CodeType, <2>1 DEF FunctionsOf
    <3>2. \A p, found : UsersFound(job, p, code[at + 1], found) \subseteq {code[at + 1].fn}
      BY DEF UsersFound
    <3> HIDE DEF TypeOK
    <3>3. PICK p, found : users' = users \cup UsersFound(job, p, code[at + 1], found)
      BY <1>2 DEF Deliver
    <3>4. users \subseteq FunctionsOf(code) \cup {UNKNOWN}
      BY DEF TypeOK
    <3> QED
      BY <3>1, <3>2, <3>3, <3>4
  <2> QED
    BY <1>2, <2>1, <2>2 DEF Deliver
<1>3. CASE Catch
  <2>1. at + 1 \in 0..Len(code) /\ 0 \in 0..Len(code)
    BY <1>3, CodeType DEF Catch
  <2> QED
    BY <1>3, <2>1 DEF Catch
<1>4. CASE Abort
  BY <1>4 DEF Abort
<1>5. CASE EndTarget
  <2>1. analysed' \in Seq(FunctionsOf(code))
    BY <1>5 DEF EndTarget, Analyses
  <2>2. at' \in 0..Len(code)
    BY <1>5, CodeType DEF EndTarget
  <2> QED
    BY <1>5, <2>1, <2>2 DEF EndTarget
<1>6. CASE EndPass
  <2>1. pass' \in Nat \ {0}
    BY <1>6, PassesType DEF EndPass
  <2>2. at' \in 0..Len(code)
    BY <1>6, CodeType DEF EndPass
  <2> QED
    BY <1>6, <2>1, <2>2 DEF EndPass
<1>7. CASE Report
  <2>1. DOMAIN files' = OutputFiles
    BY <1>7 DEF Report
  <2> QED
    BY <1>7, <2>1 DEF Report
<1>8. CASE UNCHANGED vars
  BY <1>8 DEF vars
<1> QED
  BY <1>1, <1>2, <1>3, <1>4, <1>5, <1>6, <1>7, <1>8 DEF Next

(* Cursors stay within the listing and the tables refer to it; no function *)
(* is a key of the results that the program does not have.                 *)
THEOREM ScriptsTyping == Spec => []TypeOK
  BY InitTypes, StepTypes, PTL DEF Spec

---------------------------------------------------------------------------
(* Soundness of the tables: every entry is an access that some pass of the *)
(* running script finds in the instruction that the entry refers to.       *)
FoundBy(s, i, a) == \E x \in DOMAIN Passes[s] : \E t : a \in Found(s, Passes[s][x], t, i)
Sources ==
  job # NoScript =>
    \A e \in log : \E a : FoundBy(job, code[e.n], a) /\ e.key = a.key /\ e.kind = a.kind

(* What is found depends on no other variable than api. *)
LEMMA SameFound ==
  ASSUME api' = api, NEW s, NEW p, NEW t, NEW i, NEW a
  PROVE  /\ Found(s, p, t, i)' = Found(s, p, t, i)
         /\ FoundBy(s, i, a)' <=> FoundBy(s, i, a)
<1>1. \A q, u : Found(s, q, u, i)' = Found(s, q, u, i)
  BY DEF Found, AllRegisters, Usage
<1> QED
  BY <1>1 DEF FoundBy

LEMMA SourcesStep == TypeOK /\ Sources /\ [Next]_vars => Sources'
<1> SUFFICES ASSUME TypeOK, Sources, [Next]_vars PROVE Sources'
  OBVIOUS
<1> USE DEF listing, tables
<1>1. CASE Begin
  BY <1>1 DEF Begin, Sources
<1>2. CASE Deliver
  <2> SUFFICES ASSUME NEW e \in log'
               PROVE  \E a : FoundBy(job, code[e.n], a) /\ e.key = a.key /\ e.kind = a.kind
    BY <1>2, DeliverEntries, SameFound DEF Sources
  <2>1. CASE e \in log
    <3>1. job # NoScript
      BY <1>2 DEF Deliver, HasTarget, InPass, Running
    <3> QED
      BY <2>1, <3>1 DEF Sources
  <2>2. CASE e \notin log
    <3>1. PICK a \in Found(job, PassName, Target, code[at + 1]) : e = Entry(a, at + 1)
      BY <1>2, <2>2, DeliverEntries
    <3>2. pass \in DOMAIN Passes[job]
      BY <1>2, PassesType DEF Deliver, HasTarget, InPass, Running, Ended, TypeOK
    <3>3. FoundBy(job, code[at + 1], a)
      BY <3>1, <3>2 DEF FoundBy, PassName
    <3> QED
      BY <3>1, <3>3 DEF Entry
  <2> QED
    BY <2>1, <2>2
<1>3. CASE Next /\ ~Begin /\ ~Deliver
  <2>1. log' = log /\ code' = code /\ api' = api /\ job' \in {job, NoScript}
    <3>1. CASE Catch  BY <3>1 DEF Catch
    <3>2. CASE Abort  BY <3>2 DEF Abort
    <3>3. CASE EndTarget  BY <3>3 DEF EndTarget
    <3>4. CASE EndPass  BY <3>4 DEF EndPass
    <3>5. CASE Report  BY <3>5 DEF Report
    <3> QED  BY <1>3, <3>1, <3>2, <3>3, <3>4, <3>5 DEF Next
  <2>2. CASE job' = NoScript
    BY <2>2 DEF Sources
  <2>3. CASE job' # NoScript
    BY <2>1, <2>3, SameFound DEF Sources
  <2> QED
    BY <2>2, <2>3
<1>4. CASE UNCHANGED vars
  BY <1>4, SameFound DEF vars, Sources
<1> QED
  BY <1>1, <1>2, <1>3, <1>4

---------------------------------------------------------------------------
(* What the scripts that trace writes can find.                            *)
LEMMA FoundStored ==
  ASSUME NEW s \in {"stream", "init"}, NEW i \in Instruction, NEW a, FoundBy(s, i, a)
  PROVE  Immediate(i) # NoValue => Stores(i)
<1>1. a \in StreamWrite(i)
  BY DEF FoundBy, Found, InitWrite
<1>2. i.mn \in Writers /\ i.mem # 2
  BY <1>1 DEF StreamWrite, When, Access, LoosePattern, Displaced, HasBracket
<1> QED
  BY <1>2 DEF Immediate, Stores, Instruction

LEMMA SourcesInvariant == Spec => [](TypeOK /\ Sources)
<1>1. Init => Sources
  BY DEF Init, Sources
<1> QED
  BY <1>1, InitTypes, StepTypes, SourcesStep, PTL DEF Spec

(* ValuesComeFromStores holds of every session: loads are listed among the *)
(* writes of a traced function, and never with a value.                    *)
THEOREM ValuesAreStored == Spec => []ValuesComeFromStores
<1>1. TypeOK /\ Sources => ValuesComeFromStores
  <2> SUFFICES ASSUME TypeOK, Sources, job \in {"stream", "init"},
                      NEW e \in log, Line(e).val # NoValue
               PROVE  Stores(code[e.n])
    BY DEF ValuesComeFromStores
  <2>1. PICK a : FoundBy(job, code[e.n], a)
    BY DEF Sources, NoScript
  <2>2. code[e.n] \in Instruction
    BY CodeType DEF TypeOK
  <2>3. Immediate(code[e.n]) # NoValue
    BY DEF Line
  <2> QED
    BY <2>1, <2>2, <2>3, FoundStored
<1> QED
  BY <1>1, SourcesInvariant, PTL

---------------------------------------------------------------------------
(* Completeness of the searches: whatever such a pass finds in an          *)
(* instruction that it has been given for a target is in the tables.       *)
Searches == {"mmio", "simple", "mmio_simple", "scalars"}
SearchPass(s) == IF s = "mmio" THEN 2 ELSE 1
SearchTargets(s) == Targets(s, Passes[s][SearchPass(s)])
(* The simplified script goes on only when Ghidra has the accessors.       *)
Searched(s, y) ==
  /\ y \in DOMAIN SearchTargets(s)
  /\ s = "mmio_simple" => api

Given(p, y, n) == pass > p \/ (pass = p /\ (goal > y \/ (goal = y /\ n <= at)))
Complete ==
  job \in Searches =>
    \A y, n : Searched(job, y) /\ n \in DOMAIN code /\ Given(SearchPass(job), y, n) =>
      \A a \in Found(job, Passes[job][SearchPass(job)], SearchTargets(job)[y], code[n]) :
        Entry(a, n) \in log

(* How two of them get through their passes.  The first pass of find_mmio_ *)
(* registers.py raises on the first instruction.  The simplified script    *)
(* stops at the first instruction that raises.                             *)
MmioProgress == job = "mmio" /\ pass = 1 => at = 0 /\ (goal > 1 => Len(code) = 0)
SimpleProgress ==
  job = "mmio_simple" =>
    /\ pass = 1 /\ goal > 1 => at = Len(code)
    /\ api /\ pass > 1 => at = Len(code)
    /\ ~api =>
         /\ log = {}
         /\ \A n \in 1..at : n < at \/ pass = 1 => code[n].mn \notin MemoryOpsLea
         /\ pass > 1 /\ at < Len(code) => at > 0 /\ code[at].mn \in MemoryOpsLea
Progress == MmioProgress /\ SimpleProgress

LEMMA SearchFacts ==
  ASSUME NEW s \in Searches
  PROVE  /\ s \in Scripts /\ s # NoScript
         /\ SearchPass(s) \in 1..Len(Passes[s]) /\ SearchPass(s) \in {1, 2}
         /\ Passes[s][SearchPass(s)] \in {"search", "access"}
         /\ DOMAIN SearchTargets(s) \subseteq Nat \ {0}
         /\ DOMAIN SearchTargets(s) = 1..Len(SearchTargets(s)) /\ Len(SearchTargets(s)) \in Nat
<1> USE DEF Passes, Scripts, SearchPass, NoScript
<1>1. CASE s = "mmio_simple"
  BY <1>1 DEF SearchTargets, Targets
<1>2. CASE s \in {"mmio", "simple", "scalars"}
  <2>1. Passes[s][SearchPass(s)] = "search"
    BY <1>2
  <2>2. SearchTargets(s) = Offsets
    BY <2>1 DEF SearchTargets, Targets
  <2> QED
    BY <1>2, <2>1, <2>2, OffsetsAssumption
<1> QED
  BY <1>1, <1>2 DEF Searches

(* The targets of the searches never change during a session. *)
LEMMA SameSearch ==
  ASSUME code' = code, api' = api, NEW s, NEW y
  PROVE  SearchTargets(s)' = SearchTargets(s) /\ (Searched(s, y)' <=> Searched(s, y))
  BY DEF Searched, SearchTargets, Targets, Callers, Calls

(* A step that gives the search no further instruction keeps it complete. *)
LEMMA CompleteKept ==
  ASSUME Complete, code' = code, api' = api, job' = job, log \subseteq log',
         \A y, n : job \in Searches /\ Searched(job, y) /\ n \in DOMAIN code
                     /\ Given(SearchPass(job), y, n)' => Given(SearchPass(job), y, n)
  PROVE  Complete'
<1> SUFFICES ASSUME job \in Searches, NEW y, NEW n, Searched(job, y), n \in DOMAIN code,
                    Given(SearchPass(job), y, n)',
                    NEW a \in Found(job, Passes[job][SearchPass(job)], SearchTargets(job)[y], code[n])
             PROVE  Entry(a, n) \in log'
  BY SameSearch, SameFound DEF Complete
<1>1. Given(SearchPass(job), y, n)
  OBVIOUS
<1> QED
  BY <1>1 DEF Complete

LEMMA CompleteDeliver ==
  ASSUME TypeOK, Complete, Deliver
  PROVE  Complete'
<1>1. /\ at + 1 \in DOMAIN code /\ at' = at + 1 /\ log \subseteq log' /\ HasTarget
      /\ UNCHANGED <<code, api, job, pass, goal>>
      /\ Delivers(code[at + 1]) =>
           \A a \in Found(job, PassName, Target, code[at + 1]) : Entry(a, at + 1) \in log'
  BY DeliverEntries
<1> SUFFICES ASSUME job \in Searches, NEW y, NEW n, Searched(job, y), n \in DOMAIN code,
                    Given(SearchPass(job), y, n)',
                    NEW a \in Found(job, Passes[job][SearchPass(job)], SearchTargets(job)[y], code[n])
             PROVE  Entry(a, n) \in log'
  BY <1>1, SameSearch, SameFound DEF Complete
<1>2. CASE Given(SearchPass(job), y, n)
  BY <1>1, <1>2 DEF Complete
<1>3. CASE ~Given(SearchPass(job), y, n)
  <2>1. n \in 1..Len(code)
    BY CodeType
  <2>2. pass = SearchPass(job) /\ goal = y /\ n = at + 1
    BY <1>1, <1>3, <2>1 DEF Given, TypeOK
  <2>3. PassName \in {"search", "access"} /\ Target = SearchTargets(job)[y]
        /\ PassName = Passes[job][SearchPass(job)]
    BY <2>2, SearchFacts DEF PassName, Target, SearchTargets
  <2>4. Delivers(code[at + 1])
    BY <2>3 DEF Delivers, OverBodies
  <2> QED
    BY <1>1, <2>2, <2>3, <2>4
<1> QED
  BY <1>2, <1>3

(* The iterator of a target ends when the target has been given the whole  *)
(* listing.                                                                *)
LEMMA CompleteEndTarget ==
  ASSUME TypeOK, Complete, EndTarget
  PROVE  Complete'
<1>1. /\ at = Len(code) /\ goal' = goal + 1 /\ HasTarget /\ log' = log
      /\ UNCHANGED <<code, api, job, pass>>
      /\ at' = IF FreshIterator(job, PassName) /\ goal < Len(Targets(job, PassName)) THEN 0 ELSE at
  BY DEF EndTarget, listing
<1> SUFFICES \A y, n : job \in Searches /\ Searched(job, y) /\ n \in DOMAIN code
                       /\ Given(SearchPass(job), y, n)' => Given(SearchPass(job), y, n)
  BY <1>1, CompleteKept
<1> SUFFICES ASSUME NEW y, NEW n, job \in Searches, Searched(job, y), n \in DOMAIN code,
                    Given(SearchPass(job), y, n)', ~Given(SearchPass(job), y, n)
             PROVE  FALSE
  OBVIOUS
<1>2. n \in 1..Len(code) /\ Len(code) \in Nat
  BY CodeType
<1>3. y \in 1..Len(SearchTargets(job)) /\ Len(SearchTargets(job)) \in Nat
  BY SearchFacts DEF Searched
<1>4. pass = SearchPass(job) /\ goal + 1 = y /\ n <= at'
  BY <1>1, <1>2, <1>3 DEF Given, TypeOK
<1>5. Targets(job, PassName) = SearchTargets(job)
  BY <1>4 DEF SearchTargets, PassName
<1>6. goal < Len(Targets(job, PassName))
  BY <1>3, <1>4, <1>5 DEF TypeOK
<1>7. CASE FreshIterator(job, PassName)
  BY <1>1, <1>2, <1>4, <1>6, <1>7
<1>8. CASE ~FreshIterator(job, PassName)
  BY <1>8 DEF FreshIterator, Searches
<1> QED
  BY <1>7, <1>8

LEMMA CompleteEndPass ==
  ASSUME TypeOK, Complete, Progress, EndPass
  PROVE  Complete'
<1>1. /\ goal' = 1 /\ log' = log /\ UNCHANGED <<code, api, job>> /\ InPass /\ ~HasTarget
      /\ pass' = IF job = "mmio" THEN Len(Passes[job]) + 1 ELSE pass + 1
      /\ at' = IF pass = Len(Passes[job]) THEN at ELSE 0
  BY DEF EndPass, listing, tables
<1> SUFFICES \A y, n : job \in Searches /\ Searched(job, y) /\ n \in DOMAIN code
                       /\ Given(SearchPass(job), y, n)' => Given(SearchPass(job), y, n)
  BY <1>1, CompleteKept
<1> SUFFICES ASSUME NEW y, NEW n, job \in Searches, Searched(job, y), n \in DOMAIN code,
                    Given(SearchPass(job), y, n)', ~Given(SearchPass(job), y, n)
             PROVE  FALSE
  OBVIOUS
<1>2. n \in 1..Len(code) /\ Len(code) \in Nat
  BY CodeType
<1>3. /\ y \in 1..Len(SearchTargets(job)) /\ Len(SearchTargets(job)) \in Nat
      /\ SearchPass(job) \in 1..Len(Passes[job]) /\ SearchPass(job) \in {1, 2}
  BY SearchFacts DEF Searched
<1>4. Len(Passes[job]) \in Nat /\ pass <= Len(Passes[job])
  BY <1>1, PassesType, SearchFacts DEF InPass, Ended, TypeOK
<1>5. pass # SearchPass(job)
  <2> SUFFICES ASSUME pass = SearchPass(job) PROVE FALSE
    OBVIOUS
  <2>1. Targets(job, PassName) = SearchTargets(job)
    BY DEF SearchTargets, PassName
  <2>2. goal > Len(SearchTargets(job))
    BY <1>1, <1>3, <2>1 DEF HasTarget, TypeOK
  <2> QED
    BY <1>3, <2>2 DEF Given, TypeOK
<1>6. pass < SearchPass(job)
  BY <1>3, <1>5 DEF Given, TypeOK
<1>7. CASE job = "mmio"
  <2>1. pass = 1
    BY <1>6, <1>7 DEF SearchPass, TypeOK
  <2>2. Len(code) = 0
    <3>1. PassName = "access" /\ Targets(job, PassName) = <<"listing">>
      BY <1>7, <2>1 DEF PassName, Passes, Targets
    <3>2. Len(Targets(job, PassName)) = 1
      BY <3>1
    <3>3. goal > 1
      BY <1>1, <3>2 DEF HasTarget, TypeOK
    <3> QED
      BY <1>7, <2>1, <3>3 DEF Progress, MmioProgress
  <2> QED
    BY <1>2, <2>2
<1>8. CASE job # "mmio"
  <2>1. pass' = pass + 1 /\ at' = 0
    BY <1>1, <1>3, <1>4, <1>6, <1>8
  <2> QED
    BY <1>1, <1>2, <1>3, <1>6, <2>1 DEF Given, TypeOK
<1> QED
  BY <1>7, <1>8

(* Only the access passes raise: that of find_mmio_registers.py comes      *)
(* before its search, and that of the simplified script is not searched.   *)
LEMMA CompleteCatch ==
  ASSUME TypeOK, Complete, Catch
  PROVE  Complete'
<1>1. /\ goal' = 1 /\ log' = log /\ UNCHANGED <<code, api, job>> /\ pass' = pass + 1
      /\ at' = IF pass = Len(Passes[job]) THEN at + 1 ELSE 0
      /\ Raises(code[at + 1]) /\ HasTarget
  BY DEF Catch, listing, tables
<1> SUFFICES \A y, n : job \in Searches /\ Searched(job, y) /\ n \in DOMAIN code
                       /\ Given(SearchPass(job), y, n)' => Given(SearchPass(job), y, n)
  BY <1>1, CompleteKept
<1> SUFFICES ASSUME NEW y, NEW n, job \in Searches, Searched(job, y), n \in DOMAIN code,
                    Given(SearchPass(job), y, n)', ~Given(SearchPass(job), y, n)
             PROVE  FALSE
  OBVIOUS
<1>2. n \in 1..Len(code) /\ Len(code) \in Nat /\ y \in Nat \ {0}
  BY CodeType, SearchFacts DEF Searched
<1>3. job = "mmio" /\ PassName = "access"
  BY <1>1 DEF Raises, MmioSimpleRaises, Searched
<1>4. pass = 1 /\ Len(Passes[job]) = 2 /\ SearchPass(job) = 2
  <2>1. pass \in {1, 2} /\ Len(Passes[job]) = 2 /\ SearchPass(job) = 2
    BY <1>1, <1>3, PassesType DEF HasTarget, InPass, Ended, TypeOK, SearchPass
  <2> QED
    BY <1>3, <2>1 DEF PassName, Passes
<1> QED
  BY <1>1, <1>2, <1>4 DEF Given

LEMMA CompleteStep == TypeOK /\ Complete /\ Progress /\ [Next]_vars => Complete'
<1> SUFFICES ASSUME TypeOK, Complete, Progress, [Next]_vars PROVE Complete'
  OBVIOUS
<1>1. CASE Begin
  <2>1. PICK s : s = job'
    OBVIOUS
  <2>2. pass' = 1 /\ goal' = 1 /\ at' = 0 /\ code' = code /\ api' = api
    BY <1>1 DEF Begin, listing
  <2>3. ASSUME s \in Searches, NEW y, NEW n, Searched(s, y), n \in DOMAIN code,
               Given(SearchPass(s), y, n)'
        PROVE  FALSE
    <3>1. n \in 1..Len(code) /\ y \in Nat \ {0} /\ SearchPass(s) \in {1, 2}
      BY <2>3, CodeType, SearchFacts DEF Searched
    <3> QED
      BY <2>2, <2>3, <3>1 DEF Given
  <2>4. \A y : Searched(s, y)' <=> Searched(s, y)
    BY <2>2, SameSearch
  <2> QED
    BY <2>1, <2>2, <2>3, <2>4 DEF Complete
<1>2. CASE Deliver  BY <1>2, CompleteDeliver
<1>3. CASE Catch  BY <1>3, CompleteCatch
<1>4. CASE EndTarget  BY <1>4, CompleteEndTarget
<1>5. CASE EndPass  BY <1>5, CompleteEndPass
<1>6. CASE Abort \/ Report
  <2>1. job' = NoScript
    BY <1>6 DEF Abort, Report
  <2> QED
    BY <2>1 DEF Complete, Searches, NoScript
<1>7. CASE UNCHANGED vars
  <2>1. UNCHANGED <<code, api, job, pass, goal, at, log>>
    BY <1>7 DEF vars
  <2> QED
    BY <2>1, CompleteKept DEF Given
<1> QED
  BY <1>1, <1>2, <1>3, <1>4, <1>5, <1>6, <1>7 DEF Next

(* A pass that is running is one of its script's. *)
LEMMA RunningPass ==
  ASSUME TypeOK, HasTarget \/ InPass
  PROVE  /\ job \in Scripts /\ pass \in DOMAIN Passes[job] /\ pass <= Len(Passes[job])
         /\ job = "mmio" => Len(Passes[job]) = 2 /\ pass \in {1, 2}
         /\ job = "mmio_simple" => Len(Passes[job]) = 1 /\ pass = 1
<1>1. job \in Scripts /\ pass <= Len(Passes[job]) /\ pass \in Nat \ {0}
  BY PassesType DEF HasTarget, InPass, Running, Ended, TypeOK
<1>2. pass \in DOMAIN Passes[job]
  BY <1>1, PassesType
<1>3. Len(Passes["mmio_simple"]) = 1
  BY DEF Passes
<1> QED
  BY <1>1, <1>2, <1>3, PassesType

(* What the simplified script enters. *)
LEMMA FoundCases ==
  ASSUME NEW p, NEW t, NEW i
  PROVE  Found("mmio_simple", p, t, i) = MmioSimpleAccess(i)
  BY DEF Found

LEMMA MmioProgressStep == TypeOK /\ MmioProgress /\ [Next]_vars => MmioProgress'
<1> SUFFICES ASSUME TypeOK, MmioProgress, [Next]_vars, job' = "mmio", pass' = 1
             PROVE  at' = 0 /\ (goal' > 1 => Len(code') = 0)
  BY DEF MmioProgress
<1> USE DEF listing, tables
<1>1. CASE Begin
  BY <1>1 DEF Begin
<1>2. CASE Deliver
  <2>1. job = "mmio" /\ pass = 1 /\ ~Raises(code[at + 1])
    BY <1>2 DEF Deliver
  <2> QED
    BY <2>1 DEF Raises, PassName, Passes
<1>3. CASE Catch
  <2>1. pass \in Nat \ {0} /\ pass' = pass + 1
    BY <1>3 DEF Catch, TypeOK
  <2> QED
    BY <2>1
<1>4. CASE Abort
  BY <1>4 DEF Abort, NoScript
<1>5. CASE EndTarget
  <2>1. job = "mmio" /\ pass = 1 /\ at = Len(code) /\ at' \in {0, at} /\ code' = code
    BY <1>5 DEF EndTarget
  <2> QED
    BY <2>1 DEF MmioProgress
<1>6. CASE EndPass
  <2>1. pass' = 3
    BY <1>6, RunningPass DEF EndPass
  <2> QED
    BY <2>1
<1>7. CASE Report
  BY <1>7 DEF Report, NoScript
<1>8. CASE UNCHANGED vars
  BY <1>8 DEF vars, MmioProgress
<1> QED
  BY <1>1, <1>2, <1>3, <1>4, <1>5, <1>6, <1>7, <1>8 DEF Next

(* The simplified script enters nothing for an instruction that would not  *)
(* have raised without the accessors.                                      *)
LEMMA SimpleDeliver ==
  ASSUME job = "mmio_simple", code[at + 1].mn \notin MemoryOpsLea, log = {},
         \A e \in log' \ log : \E a \in Found(job, PassName, Target, code[at + 1]) : e = Entry(a, at + 1)
  PROVE  log' = {}
<1>1. \A p, t, i : Found("mmio_simple", p, t, i) = MmioSimpleAccess(i)
  BY FoundCases
<1>2. Found(job, PassName, Target, code[at + 1]) = MmioSimpleAccess(code[at + 1])
  BY <1>1
<1>3. MmioSimpleAccess(code[at + 1]) = {}
  BY DEF MmioSimpleAccess, When
<1> QED
  BY <1>2, <1>3

LEMMA SimpleProgressStep == TypeOK /\ SimpleProgress /\ [Next]_vars => SimpleProgress'
<1> SUFFICES ASSUME TypeOK, SimpleProgress, [Next]_vars, job' = "mmio_simple"
             PROVE  SimpleProgress'
  BY DEF SimpleProgress
<1> USE DEF listing, tables
<1>0. Len(code) \in Nat /\ at \in Nat /\ pass \in Nat
  BY CodeType DEF TypeOK
<1>1. CASE Begin
  BY <1>1 DEF Begin, SimpleProgress
<1>2. CASE Deliver
  <2>1. /\ UNCHANGED <<code, api, job, pass, goal>> /\ at' = at + 1 /\ at < Len(code) /\ HasTarget
        /\ ~Raises(code[at + 1])
        /\ \A e \in log' \ log : \E a \in Found(job, PassName, Target, code[at + 1]) : e = Entry(a, at + 1)
    BY <1>2, DeliverEntries DEF Deliver
  <2>2. pass = 1 /\ goal = 1
    <3>1. pass = 1
      BY <2>1, RunningPass
    <3> QED
      BY <1>0, <2>1, <3>1 DEF SimpleProgress, TypeOK
  <2>3. ~api => code[at + 1].mn \notin MemoryOpsLea
    BY <2>1 DEF Raises, MmioSimpleRaises
  <2>4. ~api => log' = {}
    BY <2>1, <2>3, SimpleDeliver DEF SimpleProgress
  <2>5. ~api => \A n \in 1..(at + 1) : code[n].mn \notin MemoryOpsLea
    <3>1. ~api => \A n \in 1..at : code[n].mn \notin MemoryOpsLea
      BY <2>1, <2>2 DEF SimpleProgress
    <3> QED
      BY <1>0, <2>3, <3>1
  <2> QED
    BY <2>1, <2>2, <2>4, <2>5 DEF SimpleProgress
<1>3. CASE Catch
  <2>1. /\ UNCHANGED <<code, api, job, log>> /\ pass' = pass + 1 /\ goal' = 1
        /\ at < Len(code) /\ Raises(code[at + 1]) /\ HasTarget
        /\ at' = IF pass = Len(Passes[job]) THEN at + 1 ELSE 0
    BY <1>3 DEF Catch
  <2>2. pass = 1 /\ at' = at + 1 /\ pass' = 2
    <3>1. pass = 1 /\ Len(Passes[job]) = 1
      BY <2>1, RunningPass
    <3> QED
      BY <2>1, <3>1
  <2>3. ~api /\ code[at + 1].mn \in MemoryOpsLea
    BY <2>1 DEF Raises, MmioSimpleRaises
  <2>4. log = {} /\ \A n \in 1..at : code[n].mn \notin MemoryOpsLea
    BY <2>1, <2>2, <2>3 DEF SimpleProgress
  <2> QED
    BY <1>0, <2>1, <2>2, <2>3, <2>4 DEF SimpleProgress
<1>4. CASE Abort
  BY <1>4 DEF Abort, NoScript
<1>5. CASE EndTarget
  <2>1. UNCHANGED <<code, api, job, pass, log>> /\ at = Len(code) /\ HasTarget
        /\ at' = IF FreshIterator(job, PassName) /\ goal < Len(Targets(job, PassName)) THEN 0 ELSE at
    BY <1>5 DEF EndTarget
  <2>2. pass = 1 /\ Targets(job, PassName) = <<"listing">>
    BY <2>1, RunningPass DEF PassName, Passes, Targets
  <2>3. Len(Targets(job, PassName)) = 1
    BY <2>2
  <2>4. at' = at
    BY <2>1, <2>3 DEF TypeOK
  <2> QED
    BY <2>1, <2>2, <2>4 DEF SimpleProgress
<1>6. CASE EndPass
  <2>1. /\ UNCHANGED <<code, api, job, log>> /\ pass' = pass + 1 /\ InPass /\ ~HasTarget
        /\ at' = IF pass = Len(Passes[job]) THEN at ELSE 0
    BY <1>6 DEF EndPass
  <2>2. pass = 1 /\ at' = at
    <3>1. pass = 1 /\ Len(Passes[job]) = 1
      BY <2>1, RunningPass
    <3> QED
      BY <2>1, <3>1
  <2>3. Len(Targets(job, PassName)) = 1
    <3>1. Targets(job, PassName) = <<"listing">>
      BY <2>1, RunningPass DEF PassName, Passes, Targets
    <3> QED
      BY <3>1
  <2>4. goal > 1
    BY <2>1, <2>3 DEF HasTarget, TypeOK
  <2>5. at = Len(code) /\ pass' = 2
    BY <2>1, <2>2, <2>4 DEF SimpleProgress
  <2> QED
    BY <1>0, <2>1, <2>2, <2>5 DEF SimpleProgress
<1>7. CASE Report
  BY <1>7 DEF Report, NoScript
<1>8. CASE UNCHANGED vars
  BY <1>8 DEF vars, SimpleProgress
<1> QED
  BY <1>1, <1>2, <1>3, <1>4, <1>5, <1>6, <1>7, <1>8 DEF Next

(* What the reports below rest on. *)
ScriptsInv == TypeOK /\ Sources /\ Complete /\ Progress
LEMMA ScriptsInvariant == Spec => []ScriptsInv
<1>1. Init => ScriptsInv
  BY InitTypes DEF Init, ScriptsInv, Sources, Complete, Progress, MmioProgress,
     SimpleProgress, Searches, NoScript
<1>2. ScriptsInv /\ [Next]_vars => ScriptsInv'
  BY StepTypes, SourcesStep, CompleteStep, MmioProgressStep,
     SimpleProgressStep DEF ScriptsInv, Progress
<1> QED
  BY <1>1, <1>2, PTL DEF Spec

---------------------------------------------------------------------------
(* Reports.  A report is written when the script has ended; no other step  *)
(* writes a file.                                                          *)
LEMMA FilesKept ==
  ASSUME [Next]_vars, ~Report
  PROVE  UNCHANGED <<code, api, files>>
<1> USE DEF listing
<1>1. CASE Begin  BY <1>1 DEF Begin
<1>2. CASE Deliver  BY <1>2 DEF Deliver
<1>3. CASE Catch  BY <1>3 DEF Catch
<1>4. CASE Abort  BY <1>4 DEF Abort
<1>5. CASE EndTarget  BY <1>5 DEF EndTarget
<1>6. CASE EndPass  BY <1>6 DEF EndPass
<1>7. CASE UNCHANGED vars  BY <1>7 DEF vars
<1> QED
  BY <1>1, <1>2, <1>3, <1>4, <1>5, <1>6, <1>7 DEF Next

LEMMA ReportFiles ==
  ASSUME TypeOK, Report
  PROVE  /\ code' = code /\ api' = api /\ job \in Scripts /\ pass > Len(Passes[job])
         /\ \A f \in OutputFiles : f # OutputFile[job] => files'[f] = files[f]
         /\ files'[OutputFile[job]] = IF Reports(job) THEN ReportOf(job) ELSE files[OutputFile[job]]
<1>1. job \in Scripts /\ pass > Len(Passes[job]) /\ code' = code /\ api' = api
  BY DEF Report, Ended, Running, TypeOK, listing
<1>2. OutputFile[job] \in OutputFiles /\ DOMAIN files = OutputFiles
  BY <1>1 DEF OutputFiles, TypeOK
<1>3. files' = IF Reports(job) THEN [files EXCEPT ![OutputFile[job]] = ReportOf(job)] ELSE files
  BY DEF Report
<1> HIDE DEF OutputFiles
<1> QED
  BY <1>1, <1>2, <1>3

(* What the scripts of the search properties write, and to which file.     *)
LEMMA ReportedFiles ==
  ASSUME TypeOK, Report
  PROVE  /\ \/ job = "mmio" /\ files'["mmio_registers"] = MmioReport
            \/ job = "mmio_simple" /\ files'["mmio_registers"] = MmioSimpleReport
            \/ job \notin {"mmio", "mmio_simple"} /\ files'["mmio_registers"] = files["mmio_registers"]
         /\ \/ job = "simple" /\ files'["simple"] = SimpleReport
            \/ job # "simple" /\ files'["simple"] = files["simple"]
         /\ \/ job = "scalars" /\ files'["scalars"] = ScalarReport
            \/ job # "scalars" /\ files'["scalars"] = files["scalars"]
<1>1. \A s \in Scripts : OutputFile[s] = IF s \in {"mmio", "mmio_simple"} THEN "mmio_registers" ELSE s
  BY DEF OutputFile
<1>2. {"mmio", "simple", "scalars"} \subseteq Scripts
  BY DEF Scripts, Passes
<1>3. {"mmio_registers", "simple", "scalars"} \subseteq OutputFiles
  BY <1>1, <1>2 DEF OutputFiles
<1>4. "mmio_registers" \notin Scripts
  BY DEF Scripts, Passes
<1>5. \A s : s # "init" => Reports(s)
  BY DEF Reports
<1>6. /\ job = "mmio" => ReportOf(job) = MmioReport
      /\ job = "mmio_simple" => ReportOf(job) = MmioSimpleReport
      /\ job = "simple" => ReportOf(job) = SimpleReport
      /\ job = "scalars" => ReportOf(job) = ScalarReport
  BY DEF ReportOf
<1>7. CASE job \in {"mmio", "mmio_simple"}
  BY <1>1, <1>3, <1>5, <1>6, <1>7, ReportFiles
<1>8. CASE job \notin {"mmio", "mmio_simple"}
  <2>1. OutputFile[job] = job /\ job # "mmio_registers"
    BY <1>1, <1>4, <1>8, ReportFiles
  <2> QED
    BY <1>3, <1>5, <1>6, <1>8, <2>1, ReportFiles
<1> QED
  BY <1>7, <1>8

(* An entry is in the list of its key. *)
LEMMA ListedByKey ==
  ASSUME NEW kinds, NEW o, NEW n
  PROVE  Listed(ByKey(Of(kinds)), o, n) <=> \E e \in log : e.kind \in kinds /\ e.key = o /\ e.n = n
  BY DEF Listed, ByKey, Of

(* When a search has ended it has found everything.                        *)
LEMMA SearchEnded ==
  ASSUME TypeOK, Complete, Report, job \in Searches, NEW y, Searched(job, y), NEW n \in DOMAIN code,
         NEW a \in Found(job, Passes[job][SearchPass(job)], SearchTargets(job)[y], code[n])
  PROVE  Entry(a, n) \in log
<1>1. pass > SearchPass(job)
  BY ReportFiles, SearchFacts, PassesType DEF TypeOK
<1>2. Given(SearchPass(job), y, n)
  BY <1>1 DEF Given
<1> QED
  BY <1>2 DEF Complete

LEMMA OffsetTargets ==
  ASSUME NEW s \in {"mmio", "simple", "scalars"}, NEW y \in DOMAIN Offsets
  PROVE  /\ s \in Searches /\ Searched(s, y) /\ SearchTargets(s)[y] = Offsets[y]
         /\ Passes[s][SearchPass(s)] = "search"
<1>1. Passes[s][SearchPass(s)] = "search"
  BY DEF Passes, SearchPass
<1>2. SearchTargets(s) = Offsets
  BY <1>1 DEF SearchTargets, Targets
<1> QED
  BY <1>1, <1>2 DEF Searched, Searches

---------------------------------------------------------------------------
(* An operand with displacement o shows it.                                *)
LEMMA SoughtShown ==
  ASSUME NEW o \in Nat, NEW n \in DOMAIN code, code[n] \in Instruction, SoughtAt(o, n)
  PROVE  ShownIn(o, code[n]) /\ HasBracket(code[n])
<1>1. code[n].disp \in Int /\ Magnitude(code[n].disp) = o /\ o # 0 /\ HasBracket(code[n])
  BY DEF SoughtAt, Instruction, EightDigits
<1>2. o \in NumbersIn(code[n])
  BY <1>1 DEF NumbersIn, Displaced, Magnitude
<1>3. HexBegins(o, o)
  <2>1. o \div 16^0 = o /\ 0 \in Places
    BY <1>1 DEF Places
  <2> QED
    BY <1>1, <2>1 DEF HexBegins
<1> QED
  BY <1>1, <1>2, <1>3 DEF ShownIn, Shows

LEMMA SearchedReport ==
  ASSUME ScriptsInv, Report, NEW o \in Range(Offsets), NEW n \in DOMAIN code, SoughtAt(o, n)
  PROVE  /\ job = "mmio" =>
              /\ code[n].mn \in Writers => Listed(MmioReport.written, o, n)
              /\ code[n].mn \in Readers => Listed(MmioReport.read, o, n)
         /\ job = "simple" /\ code[n].mn \in MemoryOpsLea => Listed(SimpleReport.access, o, n)
         /\ job = "scalars" /\ api /\ code[n].disp = o /\ code[n].mn \in MemoryOpsLea =>
              Listed(ScalarReport.access, o, n)
<1>1. PICK y \in DOMAIN Offsets : Offsets[y] = o
  BY DEF Range
<1>2. code[n] \in Instruction /\ o \in Nat
  BY <1>1, CodeType, OffsetsAssumption DEF ScriptsInv, KnownOffsets
<1>3. ShownIn(o, code[n]) /\ HasBracket(code[n])
  BY <1>2, SoughtShown
<1>4. ASSUME job \in {"mmio", "simple", "scalars"}, NEW a \in Found(job, "search", o, code[n])
      PROVE  Entry(a, n) \in log
  BY <1>1, <1>4, OffsetTargets, SearchEnded DEF ScriptsInv
<1> DEFINE found == Found(job, "search", o, code[n])
<1>5. ASSUME job \in {"mmio", "simple", "scalars"}, NEW kinds, NEW kind \in kinds,
             Access(o, kind) \in found
      PROVE  Listed(ByKey(Of(kinds)), o, n)
  <2>1. Entry(Access(o, kind), n) \in log
    BY <1>4, <1>5
  <2>2. Entry(Access(o, kind), n) = [key |-> o, kind |-> kind, n |-> n]
    BY DEF Entry, Access
  <2> QED
    BY <2>1, <2>2, ListedByKey
<1>6. CASE job = "mmio"
  <2>1. found = KnownAccess(o, code[n])
    BY <1>6 DEF Found
  <2>2. code[n].mn \in Writers => Access(o, "WRITE") \in found
    BY <1>3, <2>1 DEF KnownAccess, When
  <2>3. code[n].mn \in Readers => Access(o, "READ") \in found
    BY <1>3, <2>1 DEF KnownAccess, When
  <2>4. code[n].mn \in Writers => Listed(ByKey(Of({"WRITE"})), o, n)
    BY <1>5, <1>6, <2>2
  <2>5. code[n].mn \in Readers => Listed(ByKey(Of({"READ"})), o, n)
    BY <1>5, <1>6, <2>3
  <2> QED
    BY <1>6, <2>4, <2>5 DEF MmioReport
<1>7. CASE job = "simple"
  <2>1. found = SimpleAccess(o, code[n])
    BY <1>7 DEF Found
  <2>2. code[n].mn \in MemoryOpsLea => Access(o, SimpleKind(code[n])) \in found
    BY <1>3, <2>1 DEF SimpleAccess, When
  <2>3. SimpleKind(code[n]) \in {"READ", "WRITE", "ACCESS"}
    BY DEF SimpleKind
  <2>4. code[n].mn \in MemoryOpsLea => Listed(ByKey(Of({"READ", "WRITE", "ACCESS"})), o, n)
    BY <1>5, <1>7, <2>2, <2>3
  <2> QED
    BY <1>7, <2>4 DEF SimpleReport
<1>8. CASE job = "scalars" /\ api /\ code[n].disp = o /\ code[n].mn \in MemoryOpsLea
  <2> DEFINE kind == ScalarKind(code[n], o, code[n].mem)
  <2>1. found = ScalarAccess(api, o, code[n])
    BY <1>8 DEF Found
  <2>2. Displaced(code[n])
    BY <1>3, <1>8 DEF Displaced, SoughtAt
  <2>3. [op |-> code[n].mem, val |-> code[n].disp] \in Scalars(code[n])
    BY <2>2 DEF Scalars
  <2>4. Access(o, kind) \in found
    <3> DEFINE h == [op |-> code[n].mem, val |-> code[n].disp]
               hits == {s \in Scalars(code[n]) : api /\ s.val = o}
    <3>1. h.op = code[n].mem /\ h.val = o
      BY <1>8
    <3>2. h \in hits
      BY <1>8, <2>3, <3>1
    <3>3. found = {Access(o, ScalarKind(code[n], o, s.op)) : s \in hits}
      BY <1>3, <1>8, <2>1 DEF ScalarAccess
    <3> HIDE DEF h, hits, found
    <3> QED
      BY <3>1, <3>2, <3>3
  <2>5. kind \in {"READ", "WRITE", "ACCESS"}
    BY DEF ScalarKind
  <2> HIDE DEF kind, found
  <2>6. Listed(ByKey(Of({"READ", "WRITE", "ACCESS"})), o, n)
    BY <1>5, <1>8, <2>4, <2>5
  <2> QED
    BY <1>8, <2>6 DEF ScalarReport
<1> QED
  BY <1>6, <1>7, <1>8

(* SearchedOffsetsFound holds of every session: once find_mmio_registers.py*)
(* or find_registers_simple.py has reported, or the scalar search has with *)
(* the accessors it supposes, no access to an offset that was searched for *)
(* is missing from its list, however the listing spells the number and     *)
(* whichever exception ended the pass before the search.                   *)
THEOREM SearchesMissNothing == Spec => []SearchedOffsetsFound
<1>1. Init => SearchedOffsetsFound
  BY DEF Init, SearchedOffsetsFound, OutputFiles, OutputFile, Scripts, Passes
<1>2. ScriptsInv /\ SearchedOffsetsFound /\ [Next]_vars => SearchedOffsetsFound'
  <2> SUFFICES ASSUME ScriptsInv, SearchedOffsetsFound, [Next]_vars
               PROVE  SearchedOffsetsFound'
    OBVIOUS
  <2>1. CASE ~Report
    BY <2>1, FilesKept DEF SearchedOffsetsFound, SoughtAt
  <2>2. CASE Report
    <3>1. code' = code /\ api' = api
      BY <2>2, ReportFiles DEF ScriptsInv
    <3> SUFFICES ASSUME NEW o \in Range(Offsets), NEW n \in DOMAIN code, SoughtAt(o, n)
                 PROVE  /\ files'["mmio_registers"] # <<>> /\ files'["mmio_registers"].by = "mmio" =>
                             /\ code[n].mn \in Writers => Listed(files'["mmio_registers"].written, o, n)
                             /\ code[n].mn \in Readers => Listed(files'["mmio_registers"].read, o, n)
                        /\ files'["simple"] # <<>> /\ code[n].mn \in MemoryOpsLea =>
                             Listed(files'["simple"].access, o, n)
                        /\ /\ files'["scalars"] # <<>> /\ api
                           /\ code[n].disp = o /\ code[n].mn \in MemoryOpsLea
                           => Listed(files'["scalars"].access, o, n)
      BY <3>1 DEF SearchedOffsetsFound, SoughtAt
    <3>2. /\ files["mmio_registers"] # <<>> /\ files["mmio_registers"].by = "mmio" =>
               /\ code[n].mn \in Writers => Listed(files["mmio_registers"].written, o, n)
               /\ code[n].mn \in Readers => Listed(files["mmio_registers"].read, o, n)
          /\ files["simple"] # <<>> /\ code[n].mn \in MemoryOpsLea =>
               Listed(files["simple"].access, o, n)
          /\ /\ files["scalars"] # <<>> /\ api
             /\ code[n].disp = o /\ code[n].mn \in MemoryOpsLea
             => Listed(files["scalars"].access, o, n)
      BY DEF SearchedOffsetsFound
    <3>3. MmioSimpleReport.by = "mmio_simple"
      BY DEF MmioSimpleReport
    <3> QED
      BY <2>2, <3>2, <3>3, ReportedFiles, SearchedReport DEF ScriptsInv
  <2> QED
    BY <2>1, <2>2
<1> QED
  BY <1>1, <1>2, ScriptsInvariant, PTL DEF Spec

---------------------------------------------------------------------------
LEMMA MmioSimpleTarget ==
  ASSUME api
  PROVE  /\ Searched("mmio_simple", 1) /\ "mmio_simple" \in Searches
         /\ Passes["mmio_simple"][SearchPass("mmio_simple")] = "access"
<1>1. Passes["mmio_simple"][SearchPass("mmio_simple")] = "access"
  BY DEF Passes, SearchPass
<1>2. SearchTargets("mmio_simple") = <<"listing">>
  BY <1>1 DEF SearchTargets, Targets
<1> QED
  BY <1>1, <1>2 DEF Searched, Searches

(* The tables of the simplified script when it reports.                    *)
LEMMA MmioSimpleLog ==
  ASSUME ScriptsInv, Report, job = "mmio_simple"
  PROVE  /\ \A e \in log : e.kind = "READ" /\ e.n \in DOMAIN code /\ MmioSimpleAccess(code[e.n]) # {}
         /\ api => \A n \in DOMAIN code : MmioSimpleAccess(code[n]) # {} => \E e \in log : e.n = n
         /\ ~api => log = {}
<1>1. ASSUME NEW e \in log
      PROVE  e.kind = "READ" /\ e.n \in DOMAIN code /\ MmioSimpleAccess(code[e.n]) # {}
  <2>1. PICK a : FoundBy(job, code[e.n], a) /\ e.kind = a.kind
    BY DEF ScriptsInv, Sources, NoScript
  <2>2. a \in MmioSimpleAccess(code[e.n])
    BY <2>1, FoundCases DEF FoundBy
  <2>3. a.kind = "READ"
    BY <2>2 DEF MmioSimpleAccess, When, Access
  <2>4. e.n \in DOMAIN code
    BY CodeType DEF ScriptsInv, TypeOK
  <2> QED
    BY <2>1, <2>2, <2>3, <2>4
<1>2. ASSUME api, NEW n \in DOMAIN code, NEW a \in MmioSimpleAccess(code[n])
      PROVE  \E e \in log : e.n = n
  <2>1. Found(job, "access", SearchTargets(job)[1], code[n]) = MmioSimpleAccess(code[n])
    BY FoundCases
  <2>2. Entry(a, n) \in log
    BY <1>2, <2>1, MmioSimpleTarget, SearchEnded DEF ScriptsInv
  <2> QED
    BY <2>2 DEF Entry
<1>3. ~api => log = {}
  BY DEF ScriptsInv, Progress, SimpleProgress
<1> QED
  BY <1>1, <1>2, <1>3

LEMMA MmioSimpleReported ==
  ASSUME ScriptsInv, Report, job = "mmio_simple"
  PROVE  LET f == MmioSimpleReport
             immediates == {n \in DOMAIN code : MmioSimpleAccess(code[n]) # {}}
             rows == UNION {{e.n : e \in f.read[k]} : k \in DOMAIN f.read}
         IN  /\ f.written = <<>>
             /\ IF api THEN f.total = Len(code) /\ rows = immediates
                ELSE /\ rows = {}
                     /\ \A n \in 1..(f.total - 1) : code[n].mn \notin MemoryOpsLea
                     /\ f.total < Len(code) => code[f.total].mn \in MemoryOpsLea
<1> DEFINE read == ByKey(Of({"READ"}))
           immediates == {n \in DOMAIN code : MmioSimpleAccess(code[n]) # {}}
           rows == UNION {{e.n : e \in read[k]} : k \in DOMAIN read}
<1>1. /\ MmioSimpleReport.written = ByKey(Of({"WRITE"})) /\ MmioSimpleReport.read = read
      /\ MmioSimpleReport.total = at
  BY DEF MmioSimpleReport
<1>2. ByKey(Of({"WRITE"})) = <<>>
  <2>1. Of({"WRITE"}) = {}
    BY MmioSimpleLog DEF Of
  <2> QED
    BY <2>1 DEF ByKey
<1>3. rows = {e.n : e \in log}
  <2>1. Of({"READ"}) = log
    BY MmioSimpleLog DEF Of
  <2>2. DOMAIN read = {e.key : e \in log} /\ \A k \in DOMAIN read : read[k] = {e \in log : e.key = k}
    BY <2>1 DEF ByKey
  <2> HIDE DEF read
  <2> QED
    BY <2>2
<1>4. api => rows = immediates
  <2> HIDE DEF rows
  <2> QED
    BY <1>3, MmioSimpleLog
<1>5. ~api => rows = {}
  <2> HIDE DEF rows
  <2> QED
    BY <1>3, MmioSimpleLog
<1>6. pass > 1
  <2>1. Len(Passes["mmio_simple"]) = 1
    BY DEF Passes
  <2> QED
    BY <2>1, ReportFiles DEF ScriptsInv
<1>7. /\ api => at = Len(code)
      /\ ~api => \A n \in 1..(at - 1) : code[n].mn \notin MemoryOpsLea
      /\ ~api => (at < Len(code) => code[at].mn \in MemoryOpsLea)
  BY <1>6, CodeType DEF ScriptsInv, Progress, SimpleProgress, TypeOK
<1> HIDE DEF read, immediates, rows
<1>8. LET r == MmioSimpleReport.read
      IN  UNION {{e.n : e \in r[k]} : k \in DOMAIN r} = rows
  BY <1>1 DEF rows
<1>9. {n \in DOMAIN code : MmioSimpleAccess(code[n]) # {}} = immediates
  BY DEF immediates
<1> QED
  BY <1>1, <1>2, <1>4, <1>5, <1>7, <1>8, <1>9

(* PartialScanIsPrefix holds of every session: the report of the simplified*)
(* script covers the instructions that it counts, and what another script  *)
(* wrote to the same file before is gone.                                  *)
THEOREM ReportCoversPrefix == Spec => []PartialScanIsPrefix
<1>1. Init => PartialScanIsPrefix
  BY DEF Init, PartialScanIsPrefix, OutputFiles, OutputFile, Scripts, Passes
<1>2. ScriptsInv /\ PartialScanIsPrefix /\ [Next]_vars => PartialScanIsPrefix'
  <2> SUFFICES ASSUME ScriptsInv, PartialScanIsPrefix, [Next]_vars
               PROVE  PartialScanIsPrefix'
    OBVIOUS
  <2>1. CASE ~Report
    <3>1. code' = code /\ api' = api /\ files'["mmio_registers"] = files["mmio_registers"]
      BY <2>1, FilesKept
    <3> QED
      BY <3>1 DEF PartialScanIsPrefix
  <2>2. CASE Report /\ job \notin {"mmio", "mmio_simple"}
    <3>1. code' = code /\ api' = api /\ files'["mmio_registers"] = files["mmio_registers"]
      BY <2>2, ReportFiles, ReportedFiles DEF ScriptsInv
    <3> QED
      BY <3>1 DEF PartialScanIsPrefix
  <2>3. CASE Report /\ job = "mmio"
    <3>1. files'["mmio_registers"] = MmioReport
      BY <2>3, ReportedFiles DEF ScriptsInv
    <3>2. MmioReport.by # "mmio_simple"
      BY DEF MmioReport
    <3> QED
      BY <3>1, <3>2 DEF PartialScanIsPrefix
  <2>4. CASE Report /\ job = "mmio_simple"
    <3>1. code' = code /\ api' = api /\ files'["mmio_registers"] = MmioSimpleReport
      BY <2>4, ReportFiles, ReportedFiles DEF ScriptsInv
    <3> QED
      BY <2>4, <3>1, MmioSimpleReported DEF PartialScanIsPrefix
  <2> QED
    BY <2>1, <2>2, <2>3, <2>4
<1> QED
  BY <1>1, <1>2, ScriptsInvariant, PTL DEF Spec
---------------------------------------------------------------------------
(* The greatest of a set with the greatest number. *)
LEMMA MaxIs ==
  ASSUME NEW k \in Nat, NEW s, s \subseteq 1..k, k \in s
  PROVE  Max(s) = k
<1>1. \A y \in s : k >= y
  OBVIOUS
<1>2. \A x \in s : (\A y \in s : x >= y) => x = k
  OBVIOUS
<1> QED  BY <1>1, <1>2 DEF Max

---------------------------------------------------------------------------
(* FoldLeft of AddLine is a recursive function on sets of positions. *)
IsFold(f, d, k) ==
  f = [s \in SUBSET (1..k) |-> IF s = {} THEN <<>> ELSE AddLine(f[s \ {Max(s)}], d[Max(s)])]

LEMMA FoldGrows ==
  ASSUME NEW d, NEW k \in Nat, NEW f, IsFold(f, d, k)
  PROVE  \E g : IsFold(g, d, k + 1)
<1> DEFINE g == [s \in SUBSET (1..(k + 1)) |->
                   IF k + 1 \in s THEN AddLine(f[s \ {k + 1}], d[k + 1]) ELSE f[s]]
<1>1. ASSUME NEW s \in SUBSET (1..(k + 1))
      PROVE  g[s] = IF s = {} THEN <<>> ELSE AddLine(g[s \ {Max(s)}], d[Max(s)])
  <2>1. CASE k + 1 \in s
    <3>1. Max(s) = k + 1
      <4>1. k + 1 \in Nat /\ s \subseteq 1..(k + 1)
        OBVIOUS
      <4> QED  BY <2>1, <4>1, MaxIs
    <3>2. s \ {k + 1} \in SUBSET (1..(k + 1)) /\ k + 1 \notin s \ {k + 1}
      OBVIOUS
    <3>3. g[s \ {k + 1}] = f[s \ {k + 1}]
      BY <3>2
    <3>4. g[s] = AddLine(f[s \ {k + 1}], d[k + 1]) /\ s # {}
      BY <2>1
    <3> HIDE DEF g
    <3> QED  BY <3>1, <3>3, <3>4
  <2>2. CASE k + 1 \notin s
    <3>1. s \in SUBSET (1..k)
      BY <2>2
    <3>2. f[s] = IF s = {} THEN <<>> ELSE AddLine(f[s \ {Max(s)}], d[Max(s)])
      BY <3>1 DEF IsFold
    <3>3. s \ {Max(s)} \in SUBSET (1..(k + 1)) /\ k + 1 \notin s \ {Max(s)}
      BY <2>2
    <3>4. g[s \ {Max(s)}] = f[s \ {Max(s)}]
      BY <3>3
    <3>5. g[s] = f[s]
      BY <2>2
    <3> QED  BY <3>2, <3>4, <3>5
  <2> QED  BY <2>1, <2>2
<1>2. IsFold(g, d, k + 1)
  <2>1. g = [s \in SUBSET (1..(k + 1)) |-> g[s]]
    OBVIOUS
  <2> HIDE DEF g
  <2> QED  BY <1>1, <2>1 DEF IsFold
<1> QED  BY <1>2

LEMMA FoldExists ==
  ASSUME NEW d, NEW n \in Nat
  PROVE  \E f : IsFold(f, d, n)
<1> DEFINE T == {k \in 0..n : \E f : IsFold(f, d, k)}
<1>1. 0 \in T
  <2> DEFINE f == [s \in SUBSET (1..0) |-> <<>>]
  <2>1. \A s \in SUBSET (1..0) : s = {}
    OBVIOUS
  <2>2. IsFold(f, d, 0)
    BY <2>1 DEF IsFold
  <2> QED  BY <2>2
<1>2. \A k \in 0..(n - 1) : k \in T => k + 1 \in T
  <2> SUFFICES ASSUME NEW k \in 0..(n - 1), k \in T PROVE k + 1 \in T
    OBVIOUS
  <2>1. k \in Nat /\ k + 1 \in 0..n
    OBVIOUS
  <2>2. PICK f : IsFold(f, d, k)
    OBVIOUS
  <2>3. \E g : IsFold(g, d, k + 1)
    BY <2>1, <2>2, FoldGrows
  <2> QED  BY <2>1, <2>3
<1>3. \A k \in 0..n : k \in T
  <2> HIDE DEF T
  <2> QED  BY <1>1, <1>2, Inductive
<1>4. n \in 0..n
  OBVIOUS
<1> QED  BY <1>3, <1>4

(* Hence it adds one line after the other. *)
LEMMA FoldByLine ==
  ASSUME NEW n \in Nat, NEW d, DOMAIN d = 1..n
  PROVE  \E p : /\ p[0] = <<>> /\ p[n] = FoldLeft(AddLine, <<>>, d)
                /\ \A k \in 0..(n - 1) : p[k + 1] = AddLine(p[k], d[k + 1])
<1>1. PICK f : f = (CHOOSE g : IsFold(g, d, n)) /\ IsFold(f, d, n)
  BY FoldExists
<1>2. FoldLeft(AddLine, <<>>, d) = f[1..n]
  <2>1. FoldLeft(AddLine, <<>>, d) = (CHOOSE g : IsFold(g, d, n))[1..n]
    BY DEF FoldLeft, MapThenFoldSet, IsFold
  <2> QED  BY <1>1, <2>1
<1>3. \A s \in SUBSET (1..n) : f[s] = IF s = {} THEN <<>> ELSE AddLine(f[s \ {Max(s)}], d[Max(s)])
  BY <1>1 DEF IsFold
<1> DEFINE p == [k \in 0..n |-> f[1..k]]
<1>4. p[0] = <<>> /\ p[n] = f[1..n]
  <2>1. 1..0 = {} /\ {} \in SUBSET (1..n) /\ 0 \in 0..n /\ n \in 0..n
    OBVIOUS
  <2> QED  BY <1>3, <2>1
<1>5. ASSUME NEW k \in 0..(n - 1)
      PROVE  p[k + 1] = AddLine(p[k], d[k + 1])
  <2>1. k \in 0..n /\ k + 1 \in 0..n /\ 1..(k + 1) \in SUBSET (1..n) /\ k + 1 \in 1..(k + 1)
    OBVIOUS
  <2>2. Max(1..(k + 1)) = k + 1
    BY <2>1, MaxIs
  <2>3. (1..(k + 1)) \ {k + 1} = 1..k
    OBVIOUS
  <2>4. 1..(k + 1) # {}
    BY <2>1
  <2>5. f[1..(k + 1)] = AddLine(f[1..k], d[k + 1])
    BY <1>3, <2>1, <2>2, <2>3, <2>4
  <2> QED  BY <2>1, <2>5
<1> HIDE DEF p
<1> QED  BY <1>2, <1>4, <1>5

---------------------------------------------------------------------------
(* The first place of a line, and the last one of an offset.               *)
LEMMA FirstFacts ==
  ASSUME NEW n \in Nat, NEW d, DOMAIN d = 1..n, NEW z \in 1..n
  PROVE  /\ FirstIn(d, d[z]) \in 1..n /\ FirstIn(d, d[z]) <= z
         /\ d[FirstIn(d, d[z])] = d[z]
<1> DEFINE T == {x \in 1..n : d[x] = d[z]}
<1>1. PICK x \in T : \A y \in T : x <= y
  <2>1. T \subseteq Nat /\ z \in T
    OBVIOUS
  <2> HIDE DEF T
  <2> QED  BY <2>1, Least
<1>2. \E v \in DOMAIN d : d[v] = d[z] /\ \A y \in 1..(v - 1) : d[y] # d[z]
  <2>1. \A y \in 1..(x - 1) : y \in 1..n /\ ~(x <= y)
    OBVIOUS
  <2> QED  BY <1>1, <2>1
<1>3. PICK v : v = FirstIn(d, d[z]) /\ v \in 1..n /\ d[v] = d[z] /\ \A y \in 1..(v - 1) : d[y] # d[z]
  BY <1>2 DEF FirstIn
<1>4. v <= z
  <2>1. CASE z < v
    <3>1. z \in 1..(v - 1)
      BY <2>1, <1>3
    <3> QED  BY <3>1, <1>3
  <2> QED  BY <2>1, <1>3
<1> QED  BY <1>3, <1>4

LEMMA LastFacts ==
  ASSUME NEW l, NEW n \in Nat, DOMAIN l = 1..n, Len(l) = n, NEW o, NEW z \in 1..n, l[z].off = o
  PROVE  /\ LastAt(l, o) \in 1..n /\ l[LastAt(l, o)].off = o
         /\ \A y \in 1..n : l[y].off = o => y <= LastAt(l, o)
<1> DEFINE T == {x \in 1..n : l[x].off = o}
<1>1. PICK x \in T : \A y \in T : y <= x
  <2>1. T \subseteq 1..n /\ z \in T
    OBVIOUS
  <2> HIDE DEF T
  <2> QED  BY <2>1, Greatest
<1>2. \E v \in DOMAIN l : l[v].off = o /\ \A y \in (v + 1)..Len(l) : l[y].off # o
  <2>1. \A y \in (x + 1)..n : y \in 1..n /\ ~(y <= x)
    OBVIOUS
  <2> QED  BY <1>1, <2>1
<1>3. PICK v : v = LastAt(l, o) /\ v \in 1..n /\ l[v].off = o /\ \A y \in (v + 1)..n : l[y].off # o
  BY <1>2 DEF LastAt
<1>4. ASSUME NEW y \in 1..n, l[y].off = o
      PROVE  y <= v
  <2>1. CASE v < y
    <3>1. y \in (v + 1)..n
      BY <2>1, <1>3
    <3> QED  BY <3>1, <1>3, <1>4
  <2> QED  BY <2>1, <1>3
<1> QED  BY <1>3, <1>4

---------------------------------------------------------------------------
(* The list l has the first k lines of d, each once, in the order of their *)
(* first occurrence.                                                       *)
Deduped(l, d, k) ==
  /\ l \in Seq(Range(d))
  /\ \A x \in 1..k : \E i \in DOMAIN l : l[i] = d[x]
  /\ \A i \in DOMAIN l : FirstIn(d, l[i]) <= k
  /\ \A i, j \in DOMAIN l : i < j => FirstIn(d, l[i]) < FirstIn(d, l[j])

LEMMA Placed ==
  ASSUME NEW n \in Nat, NEW d, DOMAIN d = 1..n, NEW l \in Seq(Range(d))
  PROVE  \A i \in DOMAIN l : FirstIn(d, l[i]) \in 1..n /\ d[FirstIn(d, l[i])] = l[i]
<1> SUFFICES ASSUME NEW i \in DOMAIN l
             PROVE  FirstIn(d, l[i]) \in 1..n /\ d[FirstIn(d, l[i])] = l[i]
  OBVIOUS
<1>1. l[i] \in Range(d)
  OBVIOUS
<1>2. PICK z \in 1..n : l[i] = d[z]
  BY <1>1 DEF Range
<1>3. FirstIn(d, d[z]) \in 1..n /\ d[FirstIn(d, d[z])] = d[z]
  BY FirstFacts
<1> QED  BY <1>2, <1>3, Zenon

LEMMA DedupStep ==
  ASSUME NEW n \in Nat, NEW d, DOMAIN d = 1..n, NEW k \in 0..(n - 1), NEW l, Deduped(l, d, k)
  PROVE  Deduped(AddLine(l, d[k + 1]), d, k + 1)
<1>0. k \in Nat /\ k + 1 \in 1..n
  OBVIOUS
<1>1. PICK line : line = d[k + 1]
  OBVIOUS
<1>2. /\ l \in Seq(Range(d))
      /\ \A x \in 1..k : \E i \in DOMAIN l : l[i] = d[x]
      /\ \A i \in DOMAIN l : FirstIn(d, l[i]) <= k
      /\ \A i, j \in DOMAIN l : i < j => FirstIn(d, l[i]) < FirstIn(d, l[j])
  BY DEF Deduped
<1>3. \A i \in DOMAIN l : FirstIn(d, l[i]) \in 1..n /\ d[FirstIn(d, l[i])] = l[i]
  BY <1>2, Placed
<1>4. \A i \in DOMAIN l : FirstIn(d, l[i]) <= k + 1
  BY <1>0, <1>2, <1>3
<1>5. \A x \in 1..(k + 1) : x \in 1..k \/ x = k + 1
  BY <1>0
<1>6. CASE line \in Range(l)
  <2>1. \E i \in DOMAIN l : l[i] = line
    BY <1>6 DEF Range
  <2>2. \A x \in 1..(k + 1) : \E i \in DOMAIN l : l[i] = d[x]
    BY <1>1, <1>2, <1>5, <2>1
  <2>3. AddLine(l, line) = l
    BY <1>6 DEF AddLine
  <2> QED  BY <1>1, <1>2, <1>4, <2>2, <2>3 DEF Deduped
<1>7. CASE line \notin Range(l)
  <2>1. FirstIn(d, line) = k + 1
    <3>1. FirstIn(d, line) \in 1..n /\ FirstIn(d, line) <= k + 1 /\ d[FirstIn(d, line)] = line
      BY <1>0, <1>1, FirstFacts
    <3>2. ASSUME FirstIn(d, line) \in 1..k
          PROVE  FALSE
      BY <1>2, <1>7, <3>1, <3>2 DEF Range
    <3> QED  BY <1>0, <3>1, <3>2
  <2>2. line \in Range(d)
    BY <1>0, <1>1 DEF Range
  <2>3. PICK m : m = Append(l, line) /\ m = AddLine(l, line)
    BY <1>7 DEF AddLine
  <2>4. PICK h \in Nat : h = Len(l) /\ DOMAIN l = 1..h
    BY <1>2
  <2>5. /\ m \in Seq(Range(d)) /\ DOMAIN m = 1..(h + 1) /\ m[h + 1] = line
        /\ \A i \in 1..h : m[i] = l[i]
    <3>1. ASSUME NEW S, l \in Seq(S), line \in S
          PROVE  /\ Append(l, line) \in Seq(S) /\ DOMAIN Append(l, line) = 1..(Len(l) + 1)
                 /\ Append(l, line)[Len(l) + 1] = line
                 /\ \A i \in 1..Len(l) : Append(l, line)[i] = l[i]
      BY <3>1
    <3> QED  BY <1>2, <2>2, <2>3, <2>4, <3>1
  <2>6. \A x \in 1..(k + 1) : \E i \in DOMAIN m : m[i] = d[x]
    <3>1. h + 1 \in DOMAIN m /\ \A i \in 1..h : i \in DOMAIN m
      BY <2>4, <2>5
    <3> QED  BY <1>1, <1>2, <1>5, <2>4, <2>5, <3>1
  <2>7. \A i \in DOMAIN m : i \in 1..h \/ i = h + 1
    BY <2>4, <2>5
  <2>8. \A i \in DOMAIN m : FirstIn(d, m[i]) <= k + 1
    BY <1>0, <1>4, <2>1, <2>4, <2>5, <2>7
  <2>9. ASSUME NEW i \in DOMAIN m, NEW j \in DOMAIN m, i < j
        PROVE  FirstIn(d, m[i]) < FirstIn(d, m[j])
    <3>1. i \in 1..h
      BY <2>4, <2>5, <2>9
    <3>2. CASE j \in 1..h
      BY <1>2, <2>4, <2>5, <2>9, <3>1, <3>2
    <3>3. CASE j = h + 1
      <4>1. FirstIn(d, l[i]) <= k /\ FirstIn(d, l[i]) \in 1..n
        BY <1>2, <1>3, <2>4, <3>1
      <4> QED  BY <1>0, <2>1, <2>5, <3>1, <3>3, <4>1
    <3> QED  BY <2>7, <3>2, <3>3
  <2> HIDE DEF Deduped
  <2>10. Deduped(m, d, k + 1)
    BY <2>5, <2>6, <2>8, <2>9 DEF Deduped
  <2> QED  BY <1>1, <2>3, <2>10
<1> QED  BY <1>6, <1>7

(* So the fold leaves each line where it first occurred.                   *)
LEMMA FoldDedups ==
  ASSUME NEW n \in Nat, NEW d, DOMAIN d = 1..n
  PROVE  Deduped(FoldLeft(AddLine, <<>>, d), d, n)
<1>1. PICK p : /\ p[0] = <<>> /\ p[n] = FoldLeft(AddLine, <<>>, d)
               /\ \A k \in 0..(n - 1) : p[k + 1] = AddLine(p[k], d[k + 1])
  BY FoldByLine
<1> DEFINE T == {k \in 0..n : Deduped(p[k], d, k)}
<1>2. 0 \in T
  <2>1. Deduped(<<>>, d, 0)
    BY DEF Deduped
  <2> QED  BY <1>1, <2>1
<1>3. \A k \in 0..(n - 1) : k \in T => k + 1 \in T
  <2> SUFFICES ASSUME NEW k \in 0..(n - 1), k \in T PROVE k + 1 \in T
    OBVIOUS
  <2>1. k + 1 \in 0..n /\ Deduped(p[k], d, k)
    OBVIOUS
  <2>2. Deduped(AddLine(p[k], d[k + 1]), d, k + 1)
    BY <2>1, DedupStep
  <2> QED  BY <1>1, <2>1, <2>2
<1>4. \A k \in 0..n : k \in T
  <2> HIDE DEF T
  <2> QED  BY <1>2, <1>3, Inductive
<1>5. n \in 0..n
  OBVIOUS
<1> QED  BY <1>1, <1>4, <1>5

(* Such a list replays what ReplayFaithful says.                           *)
LEMMA DedupedReplays ==
  ASSUME NEW n \in Nat \ {0}, NEW d, DOMAIN d = 1..n, Len(d) = n, NEW s, Deduped(s, d, n)
  PROVE  /\ Range(s) = Range(d) /\ s # <<>>
         /\ \A x, y \in DOMAIN s : x < y => FirstIn(d, s[x]) < FirstIn(d, s[y])
         /\ \A o \in {d[x].off : x \in DOMAIN d} :
              ~ReturnsTo(d, o) => s[LastAt(s, o)] = d[LastAt(d, o)]
<1>1. /\ s \in Seq(Range(d))
      /\ \A x \in 1..n : \E i \in DOMAIN s : s[i] = d[x]
      /\ \A x, y \in DOMAIN s : x < y => FirstIn(d, s[x]) < FirstIn(d, s[y])
  BY DEF Deduped
<1>2. PICK m \in Nat : m = Len(s) /\ DOMAIN s = 1..m
  BY <1>1
<1>3. Range(s) = Range(d)
  <2>1. \A i \in DOMAIN s : s[i] \in Range(d)
    BY <1>1
  <2>2. \A x \in DOMAIN d : d[x] \in Range(s)
    BY <1>1 DEF Range
  <2>3. \A v \in Range(d) : v \in Range(s)
    BY <2>2 DEF Range
  <2>4. \A v \in Range(s) : v \in Range(d)
    BY <2>1 DEF Range
  <2> QED  BY <2>3, <2>4
<1>4. s # <<>>
  <2>1. 1 \in 1..n
    OBVIOUS
  <2>2. PICK i \in DOMAIN s : s[i] = d[1]
    BY <1>1, <2>1
  <2> QED  BY <2>2
<1>5. \A i \in 1..m : FirstIn(d, s[i]) \in 1..n /\ d[FirstIn(d, s[i])] = s[i]
  BY <1>1, <1>2, Placed
<1>6. \A z \in 1..n : FirstIn(d, d[z]) \in 1..n /\ d[FirstIn(d, d[z])] = d[z]
  BY FirstFacts
<1>7. ASSUME NEW o, NEW z \in 1..n, d[z].off = o
      PROVE  ~ReturnsTo(d, o) => s[LastAt(s, o)] = d[LastAt(d, o)]
  <2>1. PICK a \in 1..n : a = LastAt(d, o) /\ d[a].off = o
    BY <1>7, LastFacts
  <2>2. PICK w \in 1..m : s[w] = d[z]
    BY <1>1, <1>2
  <2>3. PICK b \in 1..m : /\ b = LastAt(s, o) /\ s[b].off = o
                          /\ \A y \in 1..m : s[y].off = o => y <= b
    <3>1. s[w].off = o /\ Len(s) = m /\ DOMAIN s = 1..m /\ m \in Nat
      BY <1>2, <1>7, <2>2
    <3>2. /\ LastAt(s, o) \in 1..m /\ s[LastAt(s, o)].off = o
          /\ \A y \in 1..m : s[y].off = o => y <= LastAt(s, o)
      BY <3>1, LastFacts, SMTT(30)
    <3> QED  BY <3>2
  <2>4. \A y \in 1..n : d[y].off = o => FirstIn(d, d[y]) <= FirstIn(d, s[b])
    <3> SUFFICES ASSUME NEW y \in 1..n, d[y].off = o
                 PROVE  FirstIn(d, d[y]) <= FirstIn(d, s[b])
      OBVIOUS
    <3>1. PICK i \in 1..m : s[i] = d[y]
      BY <1>1, <1>2
    <3>2. i <= b
      BY <2>3, <3>1
    <3>3. i = b \/ FirstIn(d, s[i]) < FirstIn(d, s[b])
      <4>1. i \in DOMAIN s /\ b \in DOMAIN s
        BY <1>2
      <4>2. i = b \/ i < b
        BY <3>2
      <4> QED  BY <1>1, <4>1, <4>2
    <3>4. FirstIn(d, s[i]) \in Int /\ FirstIn(d, s[b]) \in Int
      BY <1>5
    <3> QED  BY <3>1, <3>3, <3>4
  <2>5. PICK x \in 1..n : x = FirstIn(d, s[b]) /\ d[x] = s[b]
    BY <1>5
  <2>6. PICK f \in 1..n : f = FirstIn(d, d[a]) /\ d[f] = d[a]
    BY <1>6
  <2>7. f <= x
    BY <2>1, <2>4, <2>5, <2>6
  <2>9. s[b] # d[a] => FirstIn(d, d[x]) > f
    <3>1. s[b] # d[a] => x # f
      BY <2>5, <2>6
    <3> QED  BY <2>5, <2>7, <3>1
  <2>10. d[x].off = o
    BY <2>3, <2>5
  <2>11. s[b] # d[a] => \E y \in DOMAIN d : d[y].off = o /\ FirstIn(d, d[y]) > f
    BY <2>9, <2>10
  <2> QED  BY <2>1, <2>3, <2>6, <2>11 DEF ReturnsTo
<1> QED  BY <1>1, <1>3, <1>4, <1>7

---------------------------------------------------------------------------
(* The table of the traced function is finite: an instruction adds at most *)
(* one write to it.                                                        *)
StreamFinite == job = "stream" => IsFiniteSet(log)

LEMMA StreamFiniteStep == TypeOK /\ StreamFinite /\ [Next]_vars => StreamFinite'
<1> SUFFICES ASSUME TypeOK, StreamFinite, [Next]_vars, job' = "stream"
             PROVE  IsFiniteSet(log')
  BY DEF StreamFinite
<1> USE DEF listing, tables
<1>1. CASE Begin
  BY <1>1, FS_EmptySet DEF Begin
<1>2. CASE Deliver
  <2>1. job = "stream" /\ IsFiniteSet(log)
    BY <1>2 DEF Deliver, StreamFinite
  <2> DEFINE found == IF Delivers(code[at + 1]) THEN StreamWrite(code[at + 1]) ELSE {}
  <2>2. log' = log \cup {Entry(a, at + 1) : a \in found}
    <3>1. \A p, t, i : Found(job, p, t, i) = StreamWrite(i)
      BY <2>1 DEF Found
    <3> HIDE DEF Deliver
    <3> QED  BY <1>2, <3>1 DEF Deliver
  <2>3. found = {} \/ \E a : found = {a}
    BY DEF StreamWrite, When
  <2> HIDE DEF found
  <2>4. CASE found = {}
    BY <2>1, <2>2, <2>4
  <2>5. CASE \E a : found = {a}
    <3>1. PICK a : found = {a}
      BY <2>5
    <3>2. log' = log \cup {Entry(a, at + 1)}
      BY <2>2, <3>1
    <3> QED  BY <2>1, <3>2, FS_AddElement
  <2> QED  BY <2>3, <2>4, <2>5
<1>3. CASE Next /\ ~Begin /\ ~Deliver
  <2>1. log' = log /\ job' \in {job, NoScript}
    <3>1. CASE Catch  BY <3>1 DEF Catch
    <3>2. CASE Abort  BY <3>2 DEF Abort
    <3>3. CASE EndTarget  BY <3>3 DEF EndTarget
    <3>4. CASE EndPass  BY <3>4 DEF EndPass
    <3>5. CASE Report  BY <3>5 DEF Report
    <3> QED  BY <1>3, <3>1, <3>2, <3>3, <3>4, <3>5 DEF Next
  <2> QED  BY <2>1 DEF StreamFinite, NoScript
<1>4. CASE UNCHANGED vars
  BY <1>4 DEF vars, StreamFinite
<1> QED  BY <1>1, <1>2, <1>3, <1>4

LEMMA StreamReplays ==
  ASSUME IsFiniteSet(log)
  PROVE  \E n \in Nat \ {0} :
           LET d == StreamReport.detail
           IN  DOMAIN d = 1..n /\ Len(d) = n /\ Deduped(StreamReport.summary, d, n)
<1>1. PICK entries : entries = {e \in log : e.key \in KnownOffsets}
  OBVIOUS
<1>2. PICK n \in Nat : n = Cardinality(entries)
  <2>1. IsFiniteSet(entries)
    BY <1>1, FS_Subset
  <2> QED  BY <2>1, FS_CardinalityType
<1>3. PICK w : w = KnownWrites /\ DOMAIN w = 1..n /\ (w = <<>> <=> n = 0) /\ w \in [1..n -> Range(w)]
  <2> DEFINE g(x) == CHOOSE e \in entries : Cardinality({f \in entries : f.n < e.n}) = x - 1
  <2>1. PICK w : w = [x \in 1..n |-> g(x)]
    OBVIOUS
  <2>2. w = InOrder(entries)
    BY <1>2, <2>1 DEF InOrder
  <2>3. w = KnownWrites
    BY <1>1, <2>2 DEF KnownWrites
  <2> HIDE DEF g
  <2>4. DOMAIN w = 1..n
    BY <2>1
  <2>5. w \in [1..n -> Range(w)]
    BY <2>1 DEF Range
  <2>6. w = <<>> <=> n = 0
    BY <2>1, <2>4
  <2> QED  BY <2>3, <2>4, <2>5, <2>6
<1>4. CASE n = 0
  <2>1. StreamReport.detail = <<Fallback>>
    BY <1>3, <1>4 DEF StreamReport
  <2>2. Lines(w) = <<>>
    BY <1>3, <1>4 DEF Lines
  <2>3. FoldLeft(AddLine, <<>>, <<>>) = <<>>
    <3>1. 0 \in Nat /\ DOMAIN <<>> = 1..0
      OBVIOUS
    <3>2. PICK n0 \in {0}, d \in {<<>>} : DOMAIN d = 1..n0
      BY <3>1
    <3>3. PICK p : p[0] = <<>> /\ p[n0] = FoldLeft(AddLine, <<>>, d)
      BY <3>1, <3>2, FoldByLine
    <3> QED  BY <3>2, <3>3
  <2>4. StreamReport.summary = <<Fallback>>
    BY <1>3, <2>2, <2>3 DEF StreamReport, Summary
  <2>5. Deduped(<<Fallback>>, <<Fallback>>, 1)
    <3>1. PICK d : d = <<Fallback>> /\ d \in Seq({Fallback}) /\ DOMAIN d = 1..1 /\ d[1] = Fallback
      <4>1. ASSUME NEW a
            PROVE  <<a>> \in Seq({a}) /\ DOMAIN <<a>> = 1..1 /\ <<a>>[1] = a
        OBVIOUS
      <4> QED  BY <4>1, Zenon
    <3>2. Range(d) = {Fallback}
      BY <3>1 DEF Range
    <3>3. FirstIn(d, d[1]) <= 1
      <4>1. PICK m \in {1} : DOMAIN d = 1..m
        BY <3>1
      <4>2. 1 \in 1..m /\ m \in Nat
        OBVIOUS
      <4>3. FirstIn(d, d[1]) <= 1
        BY <4>1, <4>2, FirstFacts
      <4> QED  BY <4>3
    <3> QED  BY <3>1, <3>2, <3>3 DEF Deduped
  <2>6. DOMAIN <<Fallback>> = 1..1 /\ Len(<<Fallback>>) = 1 /\ 1 \in Nat \ {0}
    OBVIOUS
  <2> QED  BY <2>1, <2>4, <2>5, <2>6
<1>5. CASE n # 0
  <2>1. PICK d : d = Lines(w) /\ DOMAIN d = 1..n
    <3>1. DOMAIN w = 1..n
      BY <1>3
    <3>2. Lines(w) = [x \in DOMAIN w |-> Line(w[x])]
      BY DEF Lines
    <3>3. DOMAIN Lines(w) = 1..n
      BY <3>1, <3>2
    <3> QED  BY <3>3
  <2>2. Len(d) = n
    <3>1. d = [x \in 1..n |-> d[x]]
      BY <2>1 DEF Lines
    <3> QED  BY <3>1
  <2>3. StreamReport.detail = d
    BY <1>3, <1>5, <2>1 DEF StreamReport
  <2>4. PICK s : s = FoldLeft(AddLine, <<>>, d) /\ Deduped(s, d, n)
    BY <2>1, FoldDedups
  <2>5. s # <<>>
    BY <1>5, <2>1, <2>4, DedupedReplays
  <2>6. StreamReport.summary = s
    BY <1>3, <2>1, <2>4, <2>5 DEF StreamReport, Summary
  <2> QED  BY <1>5, <2>1, <2>2, <2>3, <2>4, <2>6
<1> QED  BY <1>4, <1>5

(* Only trace_stream_start_writes.py writes its file. *)
LEMMA StreamFile ==
  ASSUME TypeOK, [Next]_vars
  PROVE  \/ files'["stream"] = files["stream"]
         \/ files'["stream"] = StreamReport /\ job = "stream"
<1>1. CASE ~Report
  BY <1>1, FilesKept
<1>2. CASE Report
  <2>1. \A f \in Scripts : OutputFile[f] = IF f \in {"mmio", "mmio_simple"} THEN "mmio_registers" ELSE f
    BY DEF OutputFile
  <2>2. "stream" \in Scripts /\ job \in Scripts
    BY <1>2, ReportFiles DEF Scripts, Passes
  <2>3. "stream" \in OutputFiles
    BY <2>1, <2>2 DEF OutputFiles
  <2>4. CASE job = "stream"
    <3>1. Reports(job) /\ ReportOf(job) = StreamReport
      BY <2>4 DEF Reports, ReportOf
    <3> QED  BY <1>2, <2>1, <2>2, <2>4, <3>1, ReportFiles
  <2>5. CASE job # "stream"
    <3>1. OutputFile[job] # "stream"
      BY <2>1, <2>2, <2>5
    <3> QED  BY <1>2, <2>3, <3>1, ReportFiles
  <2> QED  BY <2>4, <2>5
<1> QED  BY <1>1, <1>2

(* ReplayFaithful holds of every session: the summary of the traced writes *)
(* has each line of the detail file once, in the order of its first        *)
(* occurrence, and ends with the same line for a register as the detail,   *)
(* unless the detail came back to that line after another one.             *)
THEOREM ReplayAlwaysFaithful == Spec => []ReplayFaithful
<1>1. Init => StreamFinite /\ ReplayFaithful
  BY DEF Init, StreamFinite, ReplayFaithful, NoScript, OutputFiles, OutputFile, Scripts, Passes
<1>2. TypeOK /\ StreamFinite /\ ReplayFaithful /\ [Next]_vars => ReplayFaithful'
  <2> SUFFICES ASSUME TypeOK, StreamFinite, ReplayFaithful, [Next]_vars
               PROVE  ReplayFaithful'
    OBVIOUS
  <2>1. CASE files'["stream"] = files["stream"]
    BY <2>1 DEF ReplayFaithful
  <2>2. CASE files'["stream"] = StreamReport /\ job = "stream"
    <3>1. PICK n \in Nat \ {0} :
            LET d == StreamReport.detail
            IN  DOMAIN d = 1..n /\ Len(d) = n /\ Deduped(StreamReport.summary, d, n)
      BY <2>2, StreamReplays DEF StreamFinite
    <3>2. PICK d, s : /\ d = StreamReport.detail /\ s = StreamReport.summary
                      /\ DOMAIN d = 1..n /\ Len(d) = n /\ Deduped(s, d, n)
      BY <3>1
    <3>3. files'["stream"].detail = d /\ files'["stream"].summary = s
      BY <2>2, <3>2
    <3> QED  BY <3>2, <3>3, DedupedReplays DEF ReplayFaithful
  <2> QED  BY <2>1, <2>2, StreamFile
<1> QED  BY <1>1, <1>2, ScriptsTyping, StreamFiniteStep, PTL DEF Spec
=============================================================================
