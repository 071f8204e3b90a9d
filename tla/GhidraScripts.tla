--------------------------- MODULE GhidraScripts ---------------------------
(* A session in which scripts of scripts/ghidra run one after the other    *)
(* over one listing.  A script makes passes over the instructions, one     *)
(* pass for each of its targets (an offset it searches for, a function it  *)
(* analyses), enters what it finds in its tables, and writes a report that *)
(* replaces the one of the script that wrote the same file before.         *)
EXTENDS RegisterScans, SequencesExt

CONSTANTS
  Listings,      (* the listings a session may start from                  *)
  Sessions,      (* the sequences of scripts that are run                  *)
  Offsets,       (* the sequence of offsets that the searches share        *)
  Word           (* values are printed modulo this, 2^32 in the code       *)

NoScript == "none"
Passes ==
  [all         |-> <<"base", "access", "rates">>,
   enhanced    |-> <<"base", "access">>,
   scalars     |-> <<"search">>,
   simple      |-> <<"search">>,
   mmio_simple |-> <<"access">>,
   mmio        |-> <<"access", "search">>,
   interrupt   |-> <<"calls", "access">>,
   function    |-> <<"bodies", "callers">>,
   usage       |-> <<"base", "bodies", "search">>,
   stream      |-> <<"bodies">>,
   init        |-> <<"bodies">>]
Scripts == DOMAIN Passes

OutputFile ==
  [s \in Scripts |-> IF s \in {"mmio", "mmio_simple"} THEN "mmio_registers" ELSE s]
OutputFiles == {OutputFile[s] : s \in Scripts}

ASSUME WordAssumption == Word \in Nat \ {0}
ASSUME ListingsAssumption == \A c \in Listings : c \in Seq(Instruction)
ASSUME OffsetsAssumption == Offsets \in Seq(KnownOffsets)
ASSUME SessionsAssumption == Sessions \subseteq Seq(Scripts)

VARIABLES
  code,      (* the listing: a sequence of instructions                    *)
  api,       (* whether Ghidra offers the accessors the scripts suppose    *)
  todo,      (* scripts still to run                                       *)
  job,       (* the running script, or NoScript                            *)
  pass,      (* number of its pass                                         *)
  goal,      (* number of the target of the pass                           *)
  at,        (* instructions that the iterator of the pass has delivered   *)
  log,       (* accesses in its tables: [key, kind, n], n in DOMAIN code   *)
  users,     (* its set functions_using_mmio                               *)
  analysed,  (* functions that are keys of its results                     *)
  files      (* output file -> its content, <<>> when there is none        *)

listing == <<code, api>>
tables == <<log, users, analysed>>
vars == <<code, api, todo, job, pass, goal, at, log, users, analysed, files>>

---------------------------------------------------------------------------
(* Passes and their targets. *)
FunctionsOf(c) == {c[n].fn : n \in DOMAIN c} \ {UNKNOWN}
Calls(c) == SelectSeq(c, LAMBDA i : i.mn = "CALL" /\ i.fn # UNKNOWN)
Callers(c) == [x \in DOMAIN Calls(c) |-> Calls(c)[x].fn]

KeyFunctions == <<InitFunction, ControlFunction, "FUN_14000d410">>
Bodies(s) ==
  CASE s = "function" -> KeyFunctions
    [] s = "usage"    -> <<InitFunction, ControlFunction>>
    [] s = "stream"   -> <<ControlFunction>>
    [] s = "init"     -> <<InitFunction>>

Targets(s, p) ==
  CASE p = "bodies"  -> Bodies(s)
    [] p = "callers" -> Callers(code)
    [] p = "search"  -> Offsets
    [] OTHER         -> <<"listing">>

Running == job # NoScript
Ended == Running /\ pass > Len(Passes[job])
InPass == Running /\ ~Ended
PassName == Passes[job][pass]
Target == Targets(job, PassName)[goal]
HasTarget == InPass /\ goal <= Len(Targets(job, PassName))

(* A body is iterated over when the program has the function; a caller of  *)
(* IoConnectInterruptEx only when it has no result yet.                    *)
OverBodies == PassName \in {"bodies", "callers"}
AnalysesMissing ==
  /\ OverBodies
  /\ PassName = "callers" => Target \notin Range(analysed)
Analyses ==
  /\ OverBodies
  /\ Target \in FunctionsOf(code)
  /\ PassName = "callers" => Target \notin Range(analysed)
Delivers(i) == OverBodies => Analyses /\ i.fn = Target

(* listing.getInstructions is called again for every target, except in     *)
(* search_for_common_offsets of trace_mmio_usage.py.                       *)
FreshIterator(s, p) == ~(s = "usage" /\ p = "search")

---------------------------------------------------------------------------
(* What the running script enters for instruction i.                       *)
AllRegisters(p, i) ==
  CASE p = "base"   -> AllRegistersBase(i)
    [] p = "access" -> AllRegistersAccess(i)
    [] p = "rates"  -> AllRegistersRate(api, i)
Usage(p, t, i) ==
  CASE p = "base"   -> UsageBase(i)
    [] p = "bodies" -> UsageKnown(t, i)
    [] p = "search" -> UsageAccess(t, i)

Found(s, p, t, i) ==
  CASE s = "all"         -> AllRegisters(p, i)
    [] s = "enhanced"    -> IF p = "base" THEN EnhancedBase(i) ELSE EnhancedAccess(i)
    [] s = "scalars"     -> ScalarAccess(api, t, i)
    [] s = "simple"      -> SimpleAccess(t, i)
    [] s = "mmio_simple" -> MmioSimpleAccess(i)
    [] s = "mmio"        -> IF p = "search" THEN KnownAccess(t, i) ELSE {}
    [] s = "interrupt"   -> IF p = "calls" THEN When(i.mn = "CALL", 0, "CALL")
                            ELSE InterruptAccess(i)
    [] s = "function"    -> FunctionAccess(i)
    [] s = "usage"       -> Usage(p, t, i)
    [] s = "stream"      -> StreamWrite(i)
    [] s = "init"        -> InitWrite(i)

(* functions_using_mmio *)
UsersFound(s, p, i, found) ==
  IF /\ found # {}
     /\ s \in {"all", "mmio", "mmio_simple"} /\ p # "rates"
     /\ p = "base" => i.fn # UNKNOWN
    THEN {i.fn} ELSE {}

(* An exception that a handler of the script catches, and one that nothing *)
(* catches: a function looked up by name in a manager that takes an id.    *)
Raises(i) ==
  \/ job = "mmio_simple" /\ MmioSimpleRaises(api, i)
  \/ job = "mmio" /\ PassName = "access"
Aborts == job = "usage" /\ PassName = "bodies" /\ ~api

---------------------------------------------------------------------------
(* Reports: the tables, without the layout and the examples.               *)
Of(kinds) == {e \in log : e.kind \in kinds}
ByKey(entries) ==
  [k \in {e.key : e \in entries} |-> {e \in entries : e.key = k}]
(* Entries of one target, as they were entered. *)
InOrder(entries) ==
  [x \in 1..Cardinality(entries) |->
     CHOOSE e \in entries : Cardinality({f \in entries : f.n < e.n}) = x - 1]

AllRegistersReport ==
  [access |-> ByKey(Of({"READ", "WRITE", "UNKNOWN"})), rates |-> Of({"RATE"}), users |-> users]
EnhancedReport == [access |-> ByKey(Of({"READ", "WRITE", "ACCESS"}))]
ScalarReport   == [access |-> ByKey(Of({"READ", "WRITE", "ACCESS"}))]
SimpleReport   == [access |-> ByKey(Of({"READ", "WRITE", "ACCESS"}))]

(* Both write mmio_registers.json; the count of processed instructions is  *)
(* that of the simplified script only.                                     *)
MmioSimpleReport ==
  [by |-> "mmio_simple", total |-> at, users |-> users,
   read |-> ByKey(Of({"READ"})), written |-> ByKey(Of({"WRITE"}))]
MmioReport ==
  [by |-> "mmio", users |-> users,
   read |-> ByKey(Of({"READ"})), written |-> ByKey(Of({"WRITE"}))]

InterruptReport ==
  LET access == ByKey(Of({"READ", "WRITE"}))
      calls  == InOrder(Of({"CALL"}))
      kinds(k) == {e.kind : e \in access[k]}
  IN  [calls  |-> [x \in DOMAIN calls |-> code[calls[x].n].fn],
       access |-> access,
       likely |-> {k \in DOMAIN access : kinds(k) = {"READ", "WRITE"}}]

FunctionReport ==
  [f \in Range(analysed) |-> ByKey({e \in log : code[e.n].fn = f})]

UsageReport ==
  [base    |-> Of({"BASE"}),
   known   |-> [f \in Range(analysed) |->
                  ByKey({e \in Of({"KNOWN"}) : code[e.n].fn = f})],
   offsets |-> ByKey(Of({"ACCESS"}))]

(* A line of stream_start_writes.txt or init_writes.txt. *)
Line(e) ==
  LET v == Immediate(code[e.n])
  IN  [off |-> e.key, val |-> IF v = NoValue THEN NoValue ELSE v % Word]
Lines(l) == [x \in DOMAIN l |-> Line(l[x])]

(* Only offsets known to be registers; each line once, in the order of its *)
(* first occurrence; a known-good line when there is none.                 *)
Fallback == [off |-> 256, val |-> 8]
KnownWrites == InOrder({e \in log : e.key \in KnownOffsets})
PrependLine(lines, line) == IF line \in Range(lines) THEN lines ELSE <<line>> \o lines
AddLine(lines, line) == IF line \in Range(lines) THEN lines ELSE Append(lines, line)
Summary(writes) ==
  LET distinct == FoldLeft(AddLine, <<>>, Lines(writes))
  IN  IF distinct = <<>> THEN <<Fallback>> ELSE distinct
StreamReport ==
  [detail  |-> IF KnownWrites = <<>> THEN <<Fallback>> ELSE Lines(KnownWrites),
   summary |-> Summary(KnownWrites)]

(* Writes are the same when offset and immediate are, before the immediate *)
(* is masked.                                                              *)
SameWrite(e, f) == e.key = f.key /\ Immediate(code[e.n]) = Immediate(code[f.n])
AddWrite(unique, e) ==
  IF \E x \in DOMAIN unique : SameWrite(unique[x], e) THEN unique ELSE Append(unique, e)
InitReport ==
  LET unique == FoldLeft(AddWrite, <<>>, InOrder(log))
  IN  [all    |-> Lines(unique),
       likely |-> Lines(SelectSeq(unique, LAMBDA e : IsLikelyMmio(e.key)))]

ReportOf(s) ==
  CASE s = "all"         -> AllRegistersReport
    [] s = "enhanced"    -> EnhancedReport
    [] s = "scalars"     -> ScalarReport
    [] s = "simple"      -> SimpleReport
    [] s = "mmio_simple" -> MmioSimpleReport
    [] s = "mmio"        -> MmioReport
    [] s = "interrupt"   -> InterruptReport
    [] s = "function"    -> FunctionReport
    [] s = "usage"       -> UsageReport
    [] s = "stream"      -> StreamReport
    [] s = "init"        -> InitReport

(* trace_init_writes.py returns before it opens its files when the program *)
(* has no such function.                                                   *)
Reports(s) == s = "init" => InitFunction \in FunctionsOf(code)

---------------------------------------------------------------------------
Init ==
  /\ code \in Listings
  /\ api \in BOOLEAN
  /\ todo \in Sessions
  /\ job = NoScript /\ pass = 1 /\ goal = 1 /\ at = 0
  /\ log = {} /\ users = {} /\ analysed = <<>>
  /\ files = [f \in OutputFiles |-> <<>>]

(* A script starts with empty tables. *)
Begin ==
  /\ job = NoScript /\ todo # <<>>
  /\ job' = Head(todo) /\ todo' = Tail(todo)
  /\ pass' = 1 /\ goal' = 1 /\ at' = 0
  /\ log' = {} /\ users' = {} /\ analysed' = <<>>
  /\ UNCHANGED <<listing, files>>

(* An access found in instruction n, as the tables hold it. *)
Entry(a, n) == [key |-> a.key, kind |-> a.kind, n |-> n]

(* The iterator delivers the next instruction. *)
Deliver ==
  /\ HasTarget /\ at < Len(code)
  /\ ~Raises(code[at + 1]) /\ ~Aborts
  /\ LET i == code[at + 1]
         found == IF Delivers(i) THEN Found(job, PassName, Target, i) ELSE {}
     IN  /\ log' = log \cup {Entry(a, at + 1) : a \in found}
         /\ users' = users \cup UsersFound(job, PassName, i, found)
  /\ at' = at + 1
  /\ UNCHANGED <<listing, todo, job, pass, goal, analysed, files>>

(* Bug: the handler is inside the loop, which goes on with the next one.   *)
CatchGoesOn ==
  /\ HasTarget /\ at < Len(code)
  /\ Raises(code[at + 1])
  /\ at' = at + 1
  /\ UNCHANGED <<listing, todo, job, pass, goal, tables, files>>

(* The loop is left by an exception that its handler prints: the pass ends *)
(* with the tables as they are.                                            *)
Catch ==
  /\ HasTarget /\ at < Len(code)
  /\ Raises(code[at + 1])
  /\ at' = IF pass = Len(Passes[job]) THEN at + 1 ELSE 0
  /\ pass' = pass + 1 /\ goal' = 1
  /\ UNCHANGED <<listing, todo, job, tables, files>>

(* An exception that nothing catches ends the script without a report. *)
Abort ==
  /\ HasTarget /\ Aborts
  /\ job' = NoScript
  /\ UNCHANGED <<listing, todo, pass, goal, at, tables, files>>

(* The iterator is exhausted: the next target. *)
EndTarget ==
  /\ HasTarget /\ at = Len(code) /\ ~Aborts
  /\ goal' = goal + 1
  /\ at' = IF FreshIterator(job, PassName) /\ goal < Len(Targets(job, PassName)) THEN 0 ELSE at
  /\ analysed' = IF Analyses THEN Append(analysed, Target) ELSE analysed
  /\ UNCHANGED <<listing, todo, job, pass, log, users, files>>

(* The last target is done.  find_mmio_registers.py searches for the known *)
(* offsets only when it has processed an instruction.                      *)
EndPass ==
  /\ InPass /\ ~HasTarget
  /\ pass' = IF job = "mmio" THEN Len(Passes[job]) + 1 ELSE pass + 1
  /\ goal' = 1
  /\ at' = IF pass = Len(Passes[job]) THEN at ELSE 0
  /\ UNCHANGED <<listing, todo, job, tables, files>>

Report ==
  /\ Ended
  /\ files' = IF Reports(job) THEN [files EXCEPT ![OutputFile[job]] = ReportOf(job)] ELSE files
  /\ job' = NoScript
  /\ UNCHANGED <<listing, todo, pass, goal, at, tables>>

Next == Begin \/ Deliver \/ Catch \/ Abort \/ EndTarget \/ EndPass \/ Report

Spec == Init /\ [][Next]_vars

---------------------------------------------------------------------------
(* The access in instruction n is in the list of offset o. *)
Listed(table, o, n) == o \in DOMAIN table /\ \E e \in table[o] : e.n = n

(* Types: cursors stay within their ranges and tables refer to the listing.*)
TypeOK ==
  /\ code \in Listings /\ api \in BOOLEAN
  /\ todo \in Seq(Scripts) /\ job \in Scripts \cup {NoScript}
  /\ pass \in Nat \ {0} /\ goal \in Nat \ {0}
  /\ at \in 0..Len(code)
  /\ \A e \in log : e.n \in 1..Len(code)
  /\ users \subseteq FunctionsOf(code) \cup {UNKNOWN}
  /\ analysed \in Seq(FunctionsOf(code))
  /\ DOMAIN files = OutputFiles

(* The searches for a list of offsets with an iterator for each of them    *)
(* never miss what they look for: once they have reported, every access    *)
(* with a displacement that was searched for is in the list of that        *)
(* offset, whatever else is there; the search for scalars finds those      *)
(* above the base register, and needs the accessors it supposes.           *)
SoughtAt(o, n) ==
  /\ o \in Range(Offsets) /\ o # 0
  /\ HasBracket(code[n]) /\ Magnitude(code[n].disp) = o
SearchedOffsetsFound ==
  \A o \in Range(Offsets), n \in DOMAIN code : SoughtAt(o, n) =>
    /\ LET f == files["mmio_registers"]
       IN  f # <<>> /\ f.by = "mmio" =>
             /\ code[n].mn \in Writers => Listed(f.written, o, n)
             /\ code[n].mn \in Readers => Listed(f.read, o, n)
    /\ files["simple"] # <<>> /\ code[n].mn \in MemoryOpsLea =>
          Listed(files["simple"].access, o, n)
    /\ /\ files["scalars"] # <<>> /\ api
       /\ code[n].disp = o /\ code[n].mn \in MemoryOpsLea
       => Listed(files["scalars"].access, o, n)

(* mmio_registers.json of the simplified script covers exactly the         *)
(* instructions its count names: an exception leaves a report of those     *)
(* before it, and never the tables of the script that wrote the file last. *)
PartialScanIsPrefix ==
  LET f == files["mmio_registers"]
      immediates == {n \in DOMAIN code : MmioSimpleAccess(code[n]) # {}}
      rows == UNION {{e.n : e \in f.read[k]} : k \in DOMAIN f.read}
  IN  f # <<>> /\ f.by = "mmio_simple" =>
        /\ f.written = <<>>
        /\ IF api THEN f.total = Len(code) /\ rows = immediates
           ELSE /\ rows = {}
                /\ \A n \in 1..(f.total - 1) : code[n].mn \notin MemoryOpsLea
                /\ f.total < Len(code) => code[f.total].mn \in MemoryOpsLea

(* A line that gives a value comes from an instruction that stores: a load *)
(* is listed too, but always as "?".                                       *)
ValuesComeFromStores ==
  job \in {"stream", "init"} =>
    \A e \in log : Line(e).val # NoValue => Stores(code[e.n])

(* The summary of trace_stream_start_writes.py has the lines of the detail *)
(* file, each once, in the order in which they first occur there.  For a   *)
(* register both end with the same line, be it a value or "?", unless the  *)
(* detail comes back to its last line after another line of the register.  *)
FirstIn(l, line) == CHOOSE x \in DOMAIN l : l[x] = line /\ \A y \in 1..(x - 1) : l[y] # line
LastAt(l, o) == CHOOSE x \in DOMAIN l : l[x].off = o /\ \A y \in (x + 1)..Len(l) : l[y].off # o
ReturnsTo(l, o) ==
  \E y \in DOMAIN l : l[y].off = o /\ FirstIn(l, l[y]) > FirstIn(l, l[LastAt(l, o)])
ReplayFaithful ==
  files["stream"] # <<>> =>
    LET d == files["stream"].detail
        s == files["stream"].summary
    IN  /\ Range(s) = Range(d) /\ s # <<>>
        /\ \A x, y \in DOMAIN s : x < y => FirstIn(d, s[x]) < FirstIn(d, s[y])
        /\ \A o \in {d[x].off : x \in DOMAIN d} :
             ~ReturnsTo(d, o) => s[LastAt(s, o)] = d[LastAt(d, o)]

---------------------------------------------------------------------------
(* What trace_stream_start_writes.py says of itself and does not keep *)

(* "one line per write [...] so you can paste into the Linux driver"        *)
(* (trace_stream_start_writes.py): what is pasted ends with the line that   *)
(* the traced function ends with, for every register.                       *)
LastWritesKept ==
  files["stream"] # <<>> =>
    LET d == files["stream"].detail
        s == files["stream"].summary
    IN  \A o \in {d[x].off : x \in DOMAIN d} : s[LastAt(s, o)] = d[LastAt(d, o)]
=============================================================================
