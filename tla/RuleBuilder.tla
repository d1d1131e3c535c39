---------------------------- MODULE RuleBuilder -----------------------------
(***************************************************************************)
(* RuleBuilder (android/rule_builder.go) collects the commands of a rule   *)
(* with the files they read and write, by calls that come in any order,    *)
(* and Build makes a ninja rule of them.  The files that one command       *)
(* writes for another are not dependencies of the rule, and those marked   *)
(* as temporary are not among its outputs.                                 *)
(*                                                                         *)
(* Texts, flags and the order within sorted lists are left out: what is    *)
(* left of a command are its files.  The command that removes temporary    *)
(* files has them as its outputs.                                          *)
(***************************************************************************)
EXTENDS Integers, Sequences, FiniteSets, SequencesExt

CONSTANTS
    Sources,     \* files that other rules make
    Made,        \* files that commands of this rule write
    DepFiles,    \* depfiles that they write
    InSboxDir,   \* the files in the directory given to Sbox
    MaxCommands,
    MaxCalls,
    None

VARIABLES
    commands,    \* each with what its methods recorded, and the inputs they were given
    temporaries, \* temporariesSet
    flags,       \* of "restat", "sbox" and "missing" (dependencies), those that are set
    calls,
    rule         \* the rule that Build made, or its kind is "none", "panic" or "nothing"

vars == <<commands, temporaries, flags, calls, rule>>

Union(field) == UNION {ToSet(commands[i][field]) : i \in DOMAIN commands}

\* A call, before Build.
Call == rule.kind = "none" /\ calls < MaxCalls /\ calls' = calls + 1

panic == rule' = [kind |-> "panic"] /\ UNCHANGED <<commands, temporaries, flags>>

-----------------------------------------------------------------------------
(* The methods of RuleBuilder.                                             *)

NewCommand == [inputs |-> << >>, orderOnlys |-> << >>, outputs |-> << >>, depFiles |-> << >>,
               rsp |-> << >>, hasRsp |-> FALSE, given |-> << >>,
               removes |-> FALSE]

Restat ==
    /\ Call
    /\ IF "sbox" \in flags
       THEN panic
       ELSE /\ flags' = flags \cup {"restat"}
            /\ UNCHANGED <<commands, temporaries, rule>>

Sbox ==
    /\ Call
    /\ IF flags \cap {"sbox", "restat"} # {} \/ commands # << >>
       THEN panic
       ELSE /\ flags' = flags \cup {"sbox"}
            /\ UNCHANGED <<commands, temporaries, rule>>

MissingDeps ==
    /\ Call
    /\ flags' = flags \cup {"missing"}
    /\ UNCHANGED <<commands, temporaries, rule>>

Command ==
    /\ Call /\ Len(commands) < MaxCommands
    /\ commands' = Append(commands, NewCommand)
    /\ UNCHANGED <<temporaries, flags, rule>>

Temporary(p) ==
    /\ Call
    /\ temporaries' = temporaries \cup {p}
    /\ UNCHANGED <<commands, flags, rule>>

\* It adds a command.
DeleteTemporaryFiles ==
    /\ Call /\ Len(commands) < MaxCommands
    /\ commands' = Append(commands, [NewCommand EXCEPT !.outputs = SetToSeq(temporaries),
                                                     !.removes = TRUE])
    /\ UNCHANGED <<temporaries, flags, rule>>

-----------------------------------------------------------------------------
(* The methods of RuleBuilderCommand.                                      *)

Record(i, field, p) ==
    /\ Call
    /\ p \notin ToSet(commands[i][field])
    /\ commands' = [commands EXCEPT ![i][field] = Append(@, p)]
    /\ UNCHANGED <<temporaries, flags, rule>>

\* addInput and addImplicit do not record a file in the directory of Sbox.
addInput(i, p) ==
    /\ Call
    /\ p \notin ToSet(commands[i].given)
    /\ commands' = [commands EXCEPT
            ![i].given = Append(@, p),
            ![i].inputs = IF "sbox" \in flags /\ p \in InSboxDir THEN @ ELSE Append(@, p)]
    /\ UNCHANGED <<temporaries, flags, rule>>

addOrderOnly(i, p) == Record(i, "orderOnlys", p)
Output(i, p) == Record(i, "outputs", p)
DepFile(i, p) == Record(i, "depFiles", p)

FlagWithRspFileInputList(i, p) ==
    /\ Call
    /\ IF commands[i].hasRsp
       THEN panic
       ELSE /\ commands' = [commands EXCEPT ![i].hasRsp = TRUE, ![i].rsp = <<p>>]
            /\ UNCHANGED <<temporaries, flags, rule>>

-----------------------------------------------------------------------------
(* Build.                                                                  *)

\* Mutant: a temporary file counts as an input of the rule.
InputsTemporary == (Union("inputs") \ (Union("outputs") \ temporaries)) \ Union("depFiles")

\* RuleBuilder.Inputs.
Inputs == (Union("inputs") \ Union("outputs")) \ Union("depFiles")

Outputs == Union("outputs") \ temporaries

allDepFiles == FlattenSeq([i \in DOMAIN commands |-> commands[i].depFiles])

\* The command that merges the depfiles reads all of them: none is an input of
\* the rule.  A file that is not in the directory of Sbox is reported as an error,
\* and the rule is made nevertheless.
Build ==
    /\ rule.kind = "none"
    /\ rule' =
        IF "missing" \in flags
        THEN [kind |-> "error", inputs |-> {}, outputs |-> Outputs, depfile |-> None,
              merges |-> FALSE, orderOnly |-> Union("orderOnlys"), errors |-> {}]
        ELSE IF commands = << >> THEN [kind |-> "nothing"]
        ELSE IF \/ Outputs = {}
                \/ \E i, j \in DOMAIN commands : i < j /\ commands[i].hasRsp /\ commands[j].hasRsp
        THEN [kind |-> "panic"]
        ELSE [kind |-> "rule",
              inputs |-> Inputs \cup Union("rsp"),
              outputs |-> Outputs,
              depfile |-> IF allDepFiles = << >> THEN None ELSE Head(allDepFiles),
              merges |-> Len(allDepFiles) > 1,
              orderOnly |-> {},
              errors |-> IF "sbox" \notin flags THEN {}
                         ELSE (Outputs \cup ToSet(SubSeq(allDepFiles, 2, Len(allDepFiles))))
                                \ InSboxDir]
    /\ UNCHANGED <<commands, temporaries, flags, calls>>

Init ==
    /\ commands = << >> /\ temporaries = {} /\ flags = {}
    /\ calls = 0 /\ rule = [kind |-> "none"]

Next ==
    \/ Restat \/ Sbox \/ MissingDeps \/ Command \/ DeleteTemporaryFiles \/ Build
    \/ \E p \in Made : Temporary(p)
    \/ \E i \in {j \in DOMAIN commands : ~commands[j].removes} :
        \/ \E p \in Sources \cup Made \cup DepFiles : addInput(i, p)
        \/ \E p \in Sources : addOrderOnly(i, p) \/ FlagWithRspFileInputList(i, p)
        \/ \E p \in Made : Output(i, p)
        \/ \E p \in DepFiles : DepFile(i, p)

Spec == Init /\ [][Next]_vars

-----------------------------------------------------------------------------
(* Properties.                                                             *)

Written(i) == ToSet(commands[i].outputs) \cup ToSet(commands[i].depFiles)
Reads(i) == ToSet(commands[i].given) \cup ToSet(commands[i].rsp)

\* The files that are there after the first n commands, when what the rule depends
\* on is there before.
After[n \in 0 .. Len(commands)] ==
    IF n = 0 THEN rule.inputs
    ELSE IF commands[n].removes THEN After[n - 1] \ ToSet(commands[n].outputs)
    ELSE After[n - 1] \cup Written(n)

\* A command reads what other rules make, or what an earlier command wrote and
\* no command removed.  Whoever uses Sbox reads nothing else from its directory.
WellOrdered ==
    \A i \in DOMAIN commands : \A p \in Reads(i) :
        \/ p \in Sources /\ ~("sbox" \in flags /\ p \in InSboxDir)
        \/ \E j \in 1 .. i - 1 :
                /\ p \in Written(j) /\ ~commands[j].removes
                /\ \A k \in j + 1 .. i - 1 : ~(commands[k].removes /\ p \in Written(k))

\* The rule that Build makes runs with no more than the files it depends on: if
\* its commands are in a sensible order each one finds what it reads, the rule never
\* depends on a file it writes itself, and what it leaves behind is what it declares,
\* with the temporary files that were not removed.  A file that sbox cannot deliver is
\* reported, apart from the first depfile.
RuleRuns ==
    rule.kind = "rule" /\ WellOrdered =>
        /\ rule.inputs \subseteq Sources
        /\ \A i \in DOMAIN commands : Reads(i) \subseteq After[i - 1]
        /\ LET left == After[Len(commands)] \ rule.inputs
               writes == UNION {Written(i) : i \in {j \in DOMAIN commands : ~commands[j].removes}}
           IN  /\ left \subseteq rule.outputs \cup Union("depFiles") \cup temporaries
               /\ rule.outputs \cap temporaries = {}
               /\ writes \ temporaries \subseteq rule.outputs \cup Union("depFiles")
               /\ Last(commands).removes /\ ToSet(Last(commands).outputs) = temporaries =>
                    left = rule.outputs \cup Union("depFiles")
        /\ "sbox" \in flags =>
            /\ "restat" \notin flags
            /\ \A p \in rule.outputs \cup Union("depFiles") :
                    p \in InSboxDir \/ p \in rule.errors \/ p = rule.depfile
        /\ (rule.depfile = None) = (Union("depFiles") = {})

=============================================================================
