---------------------------- MODULE MCStructures ----------------------------
(* What a program keeps in its own memory: the deque, the state machine    *)
(* and the binary tree, and what it makes of its command line, ini files,  *)
(* settings, urls, streams and paths.  These components                    *)
(* share nothing, so a behaviour is about one of them (the subject) and    *)
(* the others rest in a fixed initial state: the state spaces add up and   *)
(* do not multiply.                                                        *)
EXTENDS Dqacc, StateMachine, BinTree,
        CmdArgs, IniFile, SysConfig, UrlCoder, Crc16, PathInfo

CONSTANT Subjects
VARIABLE subject

-----------------------------------------------------------------------------
(* Dqacc and BinTree *)
MCCapacities == 0 .. 3
MCKeyOf == [n \in TNodes |-> (n + 1) \div 2]

(* StateMachine: tables an application registers, from nothing to two      *)
(* states with a transition each.                                          *)
T1 == sm_register_stock_defs(EmptyTable).table
T2 == sm_register_action(sm_register_action_list(sm_register_event(T1, "e").table, "l").table, "l", "a").table
T3 == sm_register_state(sm_register_state(sm_register_action(T2, "l", "b").table, "s1").table, "s2").table
T4 == sm_register_transition(sm_register_transition(T3, "s1", "s2", "e", "l").table, "s2", "s1", "e", "l").table
MCTables == {EmptyTable, T2, T3, sm_set_definition_complete(T4).table}

(* CmdArgs: options with and without a long name, of each mode, at the top *)
(* and below another.                                                      *)
Opt(n, v, m, p) == [name |-> n, vname |-> v, mode |-> m, default |-> "dflt", parent |-> p]
MCOptions == {Opt("a", "", m, NoValue) : m \in {"SWITCH", "OPTIONAL_ARG"}}
             \cup {Opt("b", "beta", m, p) : m \in Modes, p \in {NoValue, "a"}}
MCArguments == {[dash |-> TRUE, text |-> t] : t \in {"a", "b", "beta", "", "z"}}
               \cup {[dash |-> FALSE, text |-> t] : t \in {"x", "y"}}

(* IniFile: good sections, the same name twice, and lines with an error.   *)
Lx(k, t) == [k |-> k, t |-> t]
Hd(s) == <<Lx("[", "["), Lx("word", s), Lx("]", "]")>>
As(n, x) == <<Lx("word", n), Lx("=", "="), x>>
Port80 == As("port", Lx("num", "80"))
PortHttp == As("port", Lx("word", "http"))
BadLines == {<<Lx("word", "port"), Lx("=", "=")>>,
             <<Lx("letter", "p"), Lx("=", "="), Lx("num", "80")>>,
             <<Lx("word", "port"), Lx("=", "="), Lx("word", "two"), Lx("word", "words")>>}
MCTexts ==
    {<<Hd("env"), a, b>> : a, b \in {Port80, PortHttp, Hd("net")}}
    \cup {<<Hd("env"), Port80, Hd("net"), PortHttp, Hd("env"), PortHttp>>, <<>>, <<Port80>>}
    \cup {<<Hd("env"), a, Hd("net"), Port80>> : a \in BadLines}
    \cup {<<Hd("env"), a>> : a \in BadLines}

(* SysConfig: shells that set some of the variables, files that set some   *)
(* of the elements, in some of the places that are looked at.              *)
Env(changes) == [v \in Variables |-> IF v \in DOMAIN changes THEN changes[v] ELSE Unset]
MCShells == {Env(<<>>), Env([MMDQ_DIR_PATH |-> "shell", SYSCONFIG_DATA_DIR |-> "shell",
                             SYSCONFIG_CORE_DIR |-> "long", MMPOOL_ENV_DATA_DIR |-> "shell"]),
             Env([SYSCONFIG_ETC |-> "cfg", SYSCONFIG_APPNAME |-> "", SYSCONFIG_LOG_DIR |-> "shell"])}
Str(x) == <<"STRING", x>>
MCTruncated == [x \in {"long"} |-> "lon"]
MCSections == {[data_dir |-> Str("ini")],
               [mmdq_dir |-> Str("long"), core_dir |-> Str("ini"), mmpool_env_data_dir |-> Str("ini")],
               [log_dir |-> Str("ini"), core_dir |-> <<"NUMBER", "5">>]}
Here  == <<".", "app.ini">>
There == {<<"cfg", "app.ini">>, <<"/etc", "ulppkapp.ini">>}
(* No file, one in any of three places, or two that differ. *)
MCDisks == UNION {{d \in [P -> MCSections] : IsInjective(d)} :
                     P \in {{}, {Here}, There} \cup {{p} : p \in There}}

(* UrlCoder *)
MCArgNames == {<<"n">>, <<"a", "b">>}
MCArgValues == {<<>>, <<"v">>, <<" ">>, <<"&">>, <<"v", "=">>, <<"+", "v">>, <<"%", "a", "b">>}

(* Crc16 and PathInfo *)
MCBytes == {{}, {0}, {7}, {0, 3, 6}, 0..7}
MCPathNames == UNION {[1..n -> {"/", ".", "a"}] : n \in 0..5}
MCKinds == {<<"dir">>, <<"reg">>, <<"link", "dir">>, <<"absent">>}

-----------------------------------------------------------------------------
AShell == CHOOSE s \in Shells : TRUE
MCInit == /\ subject \in Subjects
          /\ BTInit /\ IniInit /\ UrlInit /\ CrcInit
          /\ Init /\ (subject # "deque" => memmapped /\ dq.dqslots = 0)
          /\ SMInit /\ (subject # "machine" => table = EmptyTable)
          /\ ArgInit /\ (subject # "arguments" => argv = <<>>)
          /\ SysInit /\ (subject # "settings" => shell = AShell /\ DOMAIN disk = {})
          /\ PathInit /\ (subject # "path" => pathname = <<>> /\ kind = <<"dir">>)

Others(s) ==
    /\ s # "deque" => UNCHANGED vars
    /\ s # "machine" => UNCHANGED smvars
    /\ s # "tree" => UNCHANGED btvars
    /\ s # "arguments" => UNCHANGED argvars
    /\ s # "ini" => UNCHANGED fvars
    /\ s # "settings" => UNCHANGED svars
    /\ s # "url" => UNCHANGED uvars
    /\ s # "crc" => UNCHANGED cvars
    /\ s # "path" => UNCHANGED pvars

MCNext ==
    /\ UNCHANGED subject /\ Others(subject)
    /\ \/ subject = "deque" /\ Next
       \/ subject = "machine" /\ SMNext
       \/ subject = "tree" /\ BTNext
       \/ subject = "arguments" /\ ArgNext
       \/ subject = "ini" /\ IniNext
       \/ subject = "settings" /\ SysNext
       \/ subject = "url" /\ UrlNext
       \/ subject = "crc" /\ CrcNext
       \/ subject = "path" /\ PathNext

MCVars == <<subject, vars, smvars, btvars, argvars, fvars, svars, uvars, cvars, pvars>>

(* What the byte codings compute, of any sequence of calls: the strings    *)
(* that were encoded, the pairs that the scanner can take, and the         *)
(* remainder of all bytes.                                                 *)
CodingInv == UrlInv /\ CrcInv

(* The caller of sm_transition and the one of if_parse_inifile run on.     *)
MCSpec == /\ MCInit /\ [][MCNext]_MCVars
          /\ WF_smvars(Run) /\ WF_fvars(IniRun)
=============================================================================
