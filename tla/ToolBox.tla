-------------------------------- MODULE ToolBox --------------------------------
(* The built-in tools (pkg/tools): a registry, the tools that read, write    *)
(* and list files below the roots of a policy, and the tools that compute    *)
(* something from the text an LLM gave them. Tools of one reply run in       *)
(* parallel, so the calls of several goroutines interleave between the       *)
(* system calls they make.                                                   *)
EXTENDS Integers, Sequences, SequencesExt, FiniteSets, FiniteSetsExt, Folds, TLC

CONSTANTS
    Clients,        \* tool calls under way at once
    Policies,       \* sets of roots that SetAllowedRoots may install
    Paths,          \* what file tools are asked for: sequences of names
    Links,          \* symbolic links to directories: path -> path
    Extensions,     \* last names whose extension the file tools allow
    Lengths,        \* how much is written at once
    Sums,           \* expressions for the calculator, sequences of characters
    MaxLength,      \* tokens of the arguments generic tools are given
    Streams,        \* sequences of the sizes of the reads a body comes in
    MaxFile, MaxOutput, MaxItems,
    MaxCalls        \* bound: calls of tools

VARIABLES
    registered,     \* names in ToolRegistry.tools
    roots,          \* SecurityPolicy.AllowedRoots
    files,          \* path -> content, a sequence of distinct pieces
    job,            \* client -> its call
    calls, pieces,  \* calls so far; pieces written so far
    acked,          \* ghost: path -> pieces that were written with success,
    unsure,         \* ghost:   and those of writes that failed,
    mixed           \* ghost: paths where a write that replaces overlapped another

vars == <<registered, roots, files, job, calls, pieces, acked, unsure, mixed>>
ghosts == <<acked, unsure, mixed>>

Idle == [tool |-> "none", at |-> "idle"]
Upto(n, s) == SubSeq(s, 1, IF n < Len(s) THEN n ELSE Len(s))

DefaultTools == {"file_read", "file_write", "file_list", "calculator"}

Init ==
    /\ registered = DefaultTools /\ roots \in Policies
    /\ files = <<>> /\ job = [c \in Clients |-> Idle] /\ calls = 0 /\ pieces = 0
    /\ acked = <<>> /\ unsure = <<>> /\ mixed = {}

-------------------------------------------------------------------------------
(* The registry refuses a second tool of one name.                           *)
RegisterTool(name) == name \notin registered /\ registered' = registered \union {name}
UnregisterTool(name) == name \in registered /\ registered' = registered \ {name}

Registry ==
    /\ calls < MaxCalls /\ calls' = calls + 1
    /\ RegisterTool("calculator") \/ UnregisterTool("calculator")
    /\ UNCHANGED <<roots, files, job, pieces, ghosts>>

SetAllowedRoots(allowed) ==
    /\ calls < MaxCalls /\ calls' = calls + 1
    /\ allowed # roots /\ roots' = allowed
    /\ UNCHANGED <<registered, files, job, pieces, ghosts>>

(* ResolvePath: links on the way are followed, what does not exist yet is    *)
(* kept, and the result must lie below a root.                               *)
Resolved(path) ==
    LET links == {n \in 1..Len(path) : SubSeq(path, 1, n) \in DOMAIN Links} IN
    IF links = {} THEN path
    ELSE Links[SubSeq(path, 1, Max(links))] \o SubSeq(path, Max(links) + 1, Len(path))

Inside(path) == \E root \in roots : IsPrefix(root, Resolved(path))

-------------------------------------------------------------------------------
(* A call finds its tool, then checks what it was given; a call of a tool    *)
(* that was found runs on even if it is unregistered.                        *)
CallOf(c, tool, started) ==
    /\ job[c] = Idle /\ calls < MaxCalls /\ calls' = calls + 1
    /\ job' = [job EXCEPT ![c] = IF tool \in registered THEN started ELSE [tool |-> tool, at |-> "refused"]]

Allowed(path) == Inside(path) /\ Last(path) \in Extensions

CallWrite(c, path, length, append) ==
    /\ CallOf(c, "file_write",
              IF Allowed(path) /\ length <= MaxFile
              THEN [tool |-> "file_write", at |-> "open", path |-> Resolved(path), append |-> append, start |-> 0,
                    text |-> [i \in 1..length |-> pieces + i]]
              ELSE [tool |-> "file_write", at |-> "refused"])
    /\ pieces' = pieces + length
    /\ UNCHANGED <<registered, roots, files, ghosts>>

CallRead(c, path) ==
    /\ CallOf(c, "file_read",
              IF Allowed(path) THEN [tool |-> "file_read", at |-> "stat", path |-> Resolved(path)]
              ELSE [tool |-> "file_read", at |-> "refused"])
    /\ UNCHANGED <<registered, roots, files, pieces, ghosts>>

CallList(c, path, recursive) ==
    /\ CallOf(c, "file_list",
              IF Inside(path) THEN [tool |-> "file_list", at |-> "names", path |-> Resolved(path), recursive |-> recursive]
              ELSE [tool |-> "file_list", at |-> "refused"])
    /\ UNCHANGED <<registered, roots, files, pieces, ghosts>>

(* Clients that hold a path open for writing.                                *)
Writing(path) == {c \in Clients : job[c].at = "write" /\ job[c].path = path}

Disturbing(path, jobs) ==
    [c \in Clients |-> IF jobs[c].tool = "file_read" /\ jobs[c].at = "read" /\ jobs[c].path = path
                       THEN [jobs[c] EXCEPT !.disturbed = TRUE] ELSE jobs[c]]

(* MkdirAll and the opening of the file, which creates it, or empties it     *)
(* unless the text is to be appended.                                        *)
Open(c) ==
    LET j == job[c]  old == IF j.path \in DOMAIN files THEN files[j.path] ELSE <<>>
        fresh == j.path \notin DOMAIN files \/ ~j.append IN
    /\ j.at = "open"
    /\ job' = Disturbing(j.path, [job EXCEPT ![c].at = "write", ![c].start = Len(old)])
    /\ files' = (j.path :> IF j.append THEN old ELSE <<>>) @@ files
    /\ acked' = IF fresh THEN (j.path :> {}) @@ acked ELSE acked
    /\ unsure' = IF fresh THEN (j.path :> {}) @@ unsure ELSE unsure
    /\ mixed' = IF \E d \in Writing(j.path) : ~(j.append /\ job[d].append) THEN mixed \union {j.path}
                ELSE IF fresh /\ Writing(j.path) = {} THEN mixed \ {j.path} ELSE mixed
    /\ UNCHANGED <<registered, roots, calls, pieces>>

Bug_AppendsWhereItOpened(j) == IF j.append THEN j.start ELSE 0

(* Where the text goes: O_APPEND finds the end when the write is made.       *)
Position(j) == IF j.append THEN Len(files[j.path]) ELSE 0

Spliced(old, at, text) == Upto(at, old) \o text \o SubSeq(old, at + Len(text) + 1, Len(old))

(* The write, which may fail after a part, or only when the file is closed.  *)
Write(c) ==
    LET j == job[c] IN
    /\ j.at = "write"
    /\ \E n \in 0..Len(j.text), failed \in BOOLEAN :
          /\ failed \/ n = Len(j.text)
          /\ files' = [files EXCEPT ![j.path] = Spliced(@, Position(j), Upto(n, j.text))]
          /\ job' = Disturbing(j.path, [job EXCEPT ![c] = [tool |-> "file_write", at |-> IF failed THEN "failed" ELSE "done"]])
          /\ IF failed THEN unsure' = [unsure EXCEPT ![j.path] = @ \union ToSet(j.text)] /\ UNCHANGED acked
             ELSE acked' = [acked EXCEPT ![j.path] = @ \union ToSet(j.text)] /\ UNCHANGED unsure
    /\ UNCHANGED <<registered, roots, calls, pieces, mixed>>

(* A file that is missing or too large is refused; one that grows after the  *)
(* look is read all the same, and what is too long is cut and marked.        *)
Stat(c) ==
    LET j == job[c] IN
    /\ j.at = "stat"
    /\ job' = [job EXCEPT ![c] =
                 IF j.path \in DOMAIN files /\ Len(files[j.path]) <= MaxFile
                 THEN [tool |-> "file_read", at |-> "read", path |-> j.path, seen |-> files[j.path],
                       disturbed |-> Writing(j.path) # {}]
                 ELSE [tool |-> "file_read", at |-> "refused"]]
    /\ UNCHANGED <<registered, roots, files, calls, pieces, ghosts>>

Bug_CutsSilently(s) == [text |-> Upto(MaxOutput, s), cut |-> FALSE]

TruncateOutput(s) == [text |-> Upto(MaxOutput, s), cut |-> Len(s) > MaxOutput]

Read(c) ==
    LET j == job[c] IN
    /\ j.at = "read"
    /\ job' = [job EXCEPT ![c] = IF j.path \in DOMAIN files
                                 THEN [tool |-> "file_read", at |-> "read it", seen |-> j.seen, disturbed |-> j.disturbed,
                                       output |-> TruncateOutput(files[j.path])]
                                 ELSE [tool |-> "file_read", at |-> "failed"]]
    /\ UNCHANGED <<registered, roots, files, calls, pieces, ghosts>>

-------------------------------------------------------------------------------
(* A listing takes the names of a directory, in their order, then looks at   *)
(* each. A walk through the directories below fails if one is gone by then;  *)
(* a plain listing leaves it out.                                            *)
Below(path, recursive) ==
    {f \in DOMAIN files : IF recursive THEN IsStrictPrefix(path, f) ELSE Front(f) = path}

Names(c) ==
    LET j == job[c] IN
    /\ j.at = "names"
    /\ \E names \in SetToSeqs(Below(j.path, j.recursive)) :
          job' = [job EXCEPT ![c] = [tool |-> "file_list", at |-> "infos", path |-> j.path, recursive |-> j.recursive,
                                     names |-> Upto(MaxItems, names)]]
    /\ UNCHANGED <<registered, roots, files, calls, pieces, ghosts>>

Infos(c) ==
    LET j == job[c] IN
    /\ j.at = "infos"
    /\ job' = [job EXCEPT ![c] =
                 IF j.recursive /\ ~(ToSet(j.names) \subseteq DOMAIN files) THEN [tool |-> "file_list", at |-> "failed"]
                 ELSE [tool |-> "file_list", at |-> "listed", path |-> j.path, recursive |-> j.recursive,
                       list |-> SelectSeq(j.names, LAMBDA f : f \in DOMAIN files)]]
    /\ UNCHANGED <<registered, roots, files, calls, pieces, ghosts>>

(* Another program deletes a file nobody writes at the moment.               *)
RemoveFile(path) ==
    /\ path \in DOMAIN files /\ Writing(path) = {} /\ calls < MaxCalls /\ calls' = calls + 1
    /\ files' = [f \in DOMAIN files \ {path} |-> files[f]]
    /\ UNCHANGED <<registered, roots, job, pieces, ghosts>>

Return(c) ==
    /\ job[c].at \in {"refused", "failed", "done", "read it", "listed", "computed"}
    /\ job' = [job EXCEPT ![c] = Idle]
    /\ UNCHANGED <<registered, roots, files, calls, pieces, ghosts>>

-------------------------------------------------------------------------------
(* The calculator splits at the first kind of operator it finds, + before -  *)
(* before * before /, and must find two numbers. A sign in front is not a    *)
(* subtraction. Numbers are fractions here.                                  *)
Error == [error |-> TRUE, num |-> 0, den |-> 1]
Number(n, d) == [error |-> FALSE, num |-> n, den |-> d]
Digits == "0" :> 0 @@ "1" :> 1 @@ "2" :> 2

(* strconv.ParseFloat of a sign and digits.                                  *)
Natural(s) == FoldLeft(LAMBDA n, x : 10 * n + Digits[x], 0, s)
ParseFloat(s) ==
    LET signed == s # <<>> /\ Head(s) \in {"+", "-"}  rest == IF signed THEN Tail(s) ELSE s IN
    IF rest = <<>> \/ \E i \in DOMAIN rest : rest[i] \notin DOMAIN Digits THEN Error
    ELSE Number(IF signed /\ Head(s) = "-" THEN - Natural(rest) ELSE Natural(rest), 1)

Places(s, x) == {i \in DOMAIN s : s[i] = x}

Bug_FirstTwoParts(s, op) == Min(Places(s, op) \union {Len(s) + 1}) <= Len(s)
(* Exactly two parts.                                                        *)
TwoParts(s, op) == Cardinality(Places(s, op)) = 1

Applied(a, op, b) ==
    IF a.error \/ b.error THEN Error
    ELSE CASE op = "+" -> Number(a.num * b.den + b.num * a.den, a.den * b.den)
           [] op = "-" -> Number(a.num * b.den - b.num * a.den, a.den * b.den)
           [] op = "*" -> Number(a.num * b.num, a.den * b.den)
           [] op = "/" -> IF b.num = 0 THEN Error
                          ELSE Number(a.num * b.den * (IF b.num < 0 THEN -1 ELSE 1), a.den * b.num * (IF b.num < 0 THEN -1 ELSE 1))

WithoutSpaces(expr) == SelectSeq(expr, LAMBDA x : x # " ")

EvaluateExpression(expr) ==
    LET s == WithoutSpaces(expr)
        Splits(op) == Places(s, op) # {} /\ (op = "-" => Head(s) # "-")
        At(op) == IF ~TwoParts(s, op) THEN Error
                  ELSE LET i == Min(Places(s, op))
                           ends == {j \in Places(s, op) \union {Len(s) + 1} : j > i} IN
                       Applied(ParseFloat(SubSeq(s, 1, i - 1)), op, ParseFloat(SubSeq(s, i + 1, Min(ends) - 1))) IN
    IF Splits("+") THEN At("+") ELSE IF Splits("-") THEN At("-")
    ELSE IF Splits("*") THEN At("*") ELSE IF Splits("/") THEN At("/") ELSE ParseFloat(s)

(* What arithmetic says: the last + or - that is not a sign is done last,    *)
(* then the last * or /.                                                     *)
Binary(s, ops) == {i \in 2..Len(s) : s[i] \in ops /\ s[i - 1] \in DOMAIN Digits}
Arithmetic[s \in Seq({"0", "1", "2", "+", "-", "*", "/"})] ==
    LET sums == Binary(s, {"+", "-"})  products == Binary(s, {"*", "/"})
        last == IF sums # {} THEN Max(sums) ELSE Max(products) IN
    IF sums \union products = {} THEN ParseFloat(s)
    ELSE Applied(Arithmetic[SubSeq(s, 1, last - 1)], s[last], Arithmetic[SubSeq(s, last + 1, Len(s))])

Equal(a, b) == a.error = b.error /\ a.num * b.den = b.num * a.den

-------------------------------------------------------------------------------
(* Arguments of generic tools: "k" is a key with its colon, "v" a value.     *)
(* What does not parse is tried again without commas before a closing        *)
(* bracket, and with the brackets that are missing.                          *)
Lists(values) == {<<>>} \union values \union {a \o <<",">> \o b : a, b \in values}
Arrays(values) == {<<"[">> \o a \o <<"]">> : a \in Lists(values)}
Objects(values) == {<<"{">> \o a \o <<"}">> : a \in Lists({<<"k">> \o v : v \in values})}
Inner == {<<"v">>} \union Arrays({<<"v">>}) \union Objects({<<"v">>})
Documents == Objects(Inner)

(* Arguments cut off anywhere, and arguments with one or two commas too many.*)
Damaged ==
    UNION {{[of |-> d, text |-> Upto(n, d)] : n \in 0..Len(d)}
           \union {[of |-> d, text |-> Upto(n - 1, d) \o commas \o SubSeq(d, n, Len(d))] :
                      n \in {i \in DOMAIN d : d[i] \in {"}", "]"}}, commas \in {<<",">>, <<",", ",">>}}
           : d \in {d \in Documents : Len(d) <= MaxLength}}

Refused == <<"refused">>
Parsed(text) == IF text \in Documents THEN text ELSE Refused

Useless(s) == {i \in 1..Len(s) - 1 : s[i] = "," /\ s[i + 1] \in {"}", "]"}}

Bug_StrippedOnce(s) ==
    LET kept == SetToSortSeq(DOMAIN s \ Useless(s), <) IN [i \in DOMAIN kept |-> s[kept[i]]]

Stripped[s \in Seq({"{", "}", "[", "]", ",", "k", "v"})] ==
    IF Useless(s) = {} THEN s ELSE Stripped[RemoveAt(s, Max(Useless(s)))]
WithoutTrailingCommas(s) == Stripped[s]

Missing(s, open, close) ==
    LET n == Cardinality(Places(s, open)) - Cardinality(Places(s, close)) IN
    [i \in 1..(IF n > 0 THEN n ELSE 0) |-> close]

RepairJSONCandidates(raw) ==
    LET s == WithoutTrailingCommas(raw) IN
    <<raw, s, s \o Missing(s, "[", "]") \o Missing(s, "{", "}")>>

ParseToolArgs(text) ==
    LET candidates == RepairJSONCandidates(text)
        fine == {i \in DOMAIN candidates : Parsed(candidates[i]) # Refused} IN
    IF text = <<>> THEN <<"{", "}">> ELSE IF fine = {} THEN Refused ELSE candidates[Min(fine)]

(* LimitedRead: a body that comes in several reads is cut at the limit.      *)
LimitedRead(sizes) ==
    FoldLeft(LAMBDA got, n :
                 IF got.cut THEN got
                 ELSE IF n > MaxOutput - got.length THEN [length |-> MaxOutput, cut |-> TRUE]
                 ELSE [length |-> got.length + n, cut |-> FALSE],
             [length |-> 0, cut |-> FALSE], sizes)

Compute(c) ==
    /\ calls = 0 /\ calls' = MaxCalls
    /\ \/ \E s \in Sums : job' = [job EXCEPT ![c] = [tool |-> "calculator", at |-> "computed", of |-> s, output |-> EvaluateExpression(s)]]
       \/ \E d \in Damaged : job' = [job EXCEPT ![c] = [tool |-> "generic", at |-> "computed", of |-> d, output |-> ParseToolArgs(d.text)]]
       \/ \E s \in Streams : job' = [job EXCEPT ![c] = [tool |-> "body", at |-> "computed", of |-> s, output |-> LimitedRead(s)]]
    /\ UNCHANGED <<registered, roots, files, pieces, ghosts>>

Next ==
    \/ Registry
    \/ \E allowed \in Policies : SetAllowedRoots(allowed)
    \/ \E path \in Paths : RemoveFile(path)
    \/ \E c \in Clients :
          \/ \E path \in Paths : \/ \E n \in Lengths, append \in BOOLEAN : CallWrite(c, path, n, append)
                                 \/ CallRead(c, path)
                                 \/ \E recursive \in BOOLEAN : CallList(c, Front(path), recursive)
          \/ Open(c) \/ Write(c) \/ Stat(c) \/ Read(c) \/ Names(c) \/ Infos(c) \/ Return(c) \/ Compute(c)

-------------------------------------------------------------------------------
(* A file nobody is writing holds exactly once each piece that was written   *)
(* with success since it was last replaced, and besides them only pieces of  *)
(* writes that failed, unless a write that replaces overlapped another.      *)
WritesAreKept ==
    \A f \in DOMAIN files \ mixed :
        Writing(f) = {} => /\ acked[f] \subseteq ToSet(files[f])
                           /\ ToSet(files[f]) \subseteq acked[f] \union unsure[f]
                           /\ Cardinality(ToSet(files[f])) = Len(files[f])

(* What file_read returns is short enough; what was read while nobody wrote  *)
(* is whole or says that it was cut. A listing has the files of the          *)
(* directory that are still there, or as many as it may have.                *)
OutputsAreTrue ==
    \A c \in Clients : LET j == job[c] IN
        /\ j.at = "read it" => /\ Len(j.output.text) <= MaxOutput
                               /\ ~j.disturbed => IF j.output.cut THEN Len(j.seen) > MaxOutput ELSE j.output.text = j.seen
        /\ j.at = "listed" => Len(j.list) <= MaxItems /\ IsInjective(j.list)
        /\ j.tool = "body" => LET n == FoldLeft(LAMBDA a, b : a + b, 0, j.of) IN
                              j.output = [length |-> Min({n, MaxOutput}), cut |-> n > MaxOutput]

(* When the calculator answers, the answer is right.                         *)
AnswersAreRight ==
    \A c \in Clients : job[c].tool = "calculator" /\ job[c].at = "computed" /\ ~job[c].output.error
                          => Equal(job[c].output, Arithmetic[WithoutSpaces(job[c].of)])

(* Arguments that had commas too many are those that were meant; arguments   *)
(* that were cut off are refused, or what was there of them, closed.         *)
RepairsInventNothing ==
    \A c \in Clients : job[c].tool = "generic" =>
        LET d == job[c].of  output == job[c].output IN
        /\ IF IsPrefix(d.text, d.of)
           THEN output = Refused \/ (IsPrefix(d.text, output) /\ Len(output) <= Len(d.text) + 3)
           ELSE output = d.of

(* The tools an agent is given do what they report. *)
ToolsAreSound == WritesAreKept /\ OutputsAreTrue /\ AnswersAreRight /\ RepairsInventNothing
===============================================================================
