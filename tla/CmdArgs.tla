------------------------------ MODULE CmdArgs ------------------------------
(***************************************************************************)
(* cmdargs.c: options are registered below the program name or below       *)
(* another option, then the arguments are parsed one by one.               *)
(*                                                                         *)
(* opts is the tree: option i's record names its parent by index, Root is  *)
(* the program, and the children of a node are in the order in which they  *)
(* were registered.  An argument is a record: whether it begins with a     *)
(* dash, and the text behind the dashes.  Descriptions and the printing    *)
(* and help functions, which only read, are left out.                      *)
(***************************************************************************)
EXTENDS Integers, Sequences, FiniteSets, SequencesExt, FiniteSetsExt

CONSTANTS Options,   \* the calls of cmdarg_register_option: [name, vname, mode, default, parent]
          Arguments, \* what may stand in argv
          MaxOptions, MaxArgs \* bounds: options registered, arguments

CONSTANT NoValue     \* the NULL pointer, of a value or of a parent's name
Root    == 0
None    == -1
Modes   == {"SWITCH", "DEFAULT_ARG", "REQUIRED_ARG", "OPTIONAL_ARG"}

ASSUME CmdArgsAssumption == /\ \A o \in Options : o.mode \in Modes
                            /\ MaxOptions \in Nat /\ MaxArgs \in Nat

VARIABLES argv, opts, register_error, parsing_complete, \* argv without the program name
          iarg, parse_error,   \* the locals of cmdarg_parse
          cpc,                 \* "ready", "parse", or "exit": the program has aborted
          returned             \* history: the values cmdarg_parse returned

argvars == <<argv, opts, register_error, parsing_complete, iarg, parse_error, cpc, returned>>

-----------------------------------------------------------------------------
Children(p)  == {i \in DOMAIN opts : opts[i].parent = p}
NameOf(i)    == IF i = Root THEN {"@", "prog"} ELSE {opts[i].name, opts[i].vname}
test_option(i, n) == n \in NameOf(i)

(* The depth first order in which find_option compares the nodes: an       *)
(* option and all below it before the next option of its parent.           *)
Ancestry(i)    == LET up[j \in {Root} \cup DOMAIN opts] ==
                     IF j = Root THEN <<>> ELSE Append(up[opts[j].parent], j)
               IN  up[i]
Precedes(i, j) == \/ IsStrictPrefix(Ancestry(i), Ancestry(j))
                  \/ \E k \in 1..Min({Len(Ancestry(i)), Len(Ancestry(j))}) :
                       /\ Ancestry(i)[k] < Ancestry(j)[k]
                       /\ \A m \in 1..(k - 1) : Ancestry(i)[m] = Ancestry(j)[m]
find_option(n) == LET match == {i \in {Root} \cup DOMAIN opts : test_option(i, n)}
                  IN  IF match = {} THEN None
                      ELSE CHOOSE i \in match : \A j \in match \ {i} : Precedes(i, j)

add_option(p, o) == opts' = Append(opts, [name |-> o.name, vname |-> o.vname, mode |-> o.mode,
                                          default |-> o.default, parent |-> p, value |-> NoValue,
                                          provided |-> FALSE, enabled |-> FALSE])

(* An option whose short name is known, or whose parent is not, is refused *)
(* and spoils the parse.                                                   *)
cmdarg_register_option(o) ==
  LET p == IF o.parent = NoValue THEN Root ELSE find_option(o.parent)
  IN  /\ cpc = "ready" /\ Len(opts) < MaxOptions
      /\ IF find_option(o.name) # None \/ p = None
         THEN register_error' = TRUE /\ UNCHANGED opts
         ELSE add_option(p, o) /\ UNCHANGED register_error
      /\ UNCHANGED <<argv, parsing_complete, iarg, parse_error, cpc, returned>>

mark_child_options(os, p) == [i \in DOMAIN os |-> IF os[i].parent = p
                                                  THEN [os[i] EXCEPT !.enabled = TRUE] ELSE os[i]]

(* cmdarg_parse up to its loop. *)
cmdarg_parse ==
  /\ cpc = "ready"
  /\ IF parsing_complete
     THEN returned' = Append(returned, 0) /\ UNCHANGED <<opts, iarg, parse_error, cpc>>
     ELSE IF register_error THEN cpc' = "exit" /\ UNCHANGED <<opts, iarg, parse_error, returned>>
     ELSE /\ opts' = mark_child_options(opts, Root)
          /\ iarg' = 1 /\ parse_error' = FALSE /\ cpc' = "parse" /\ UNCHANGED returned
  /\ Len(returned) < 2
  /\ UNCHANGED <<argv, register_error, parsing_complete>>

valid_option(a) == a.dash
(* Faulty: the next option is taken for a value. *)
HasValue_Any(i) == i + 1 <= Len(argv)

HasValue(i)     == i + 1 <= Len(argv) /\ ~valid_option(argv[i + 1])

(* One argument: text that no option takes is passed over. *)
ParseArgument ==
  LET a == argv[iarg]
      o == find_option(a.text)
      takes == o \notin {None, Root} /\ opts[o].mode # "SWITCH"
      given == IF o \in {None, Root} \/ (takes /\ ~HasValue(iarg)) THEN opts
               ELSE [opts EXCEPT ![o].provided = TRUE,
                                 ![o].value = IF takes THEN argv[iarg + 1].text ELSE @]
  IN  /\ cpc = "parse" /\ iarg <= Len(argv) /\ ~parse_error
      /\ IF ~valid_option(a) THEN iarg' = iarg + 1 /\ UNCHANGED <<opts, parse_error>>
         ELSE /\ parse_error' = (o = None \/ (takes /\ ~HasValue(iarg)))
              /\ opts' = IF o = None THEN opts ELSE mark_child_options(given, o)
              /\ iarg' = iarg + (IF takes /\ HasValue(iarg) THEN 2 ELSE 1)
      /\ UNCHANGED <<argv, register_error, parsing_complete, cpc, returned>>

(* verify_required_args looks below a node only at the children that were  *)
(* provided, a required one as any other.                                  *)
required_status_ok(i) == i # Root /\ opts[i].mode = "REQUIRED_ARG" /\ opts[i].enabled
                         => opts[i].provided
Visited == {i \in {Root} \cup DOMAIN opts :
              \A j \in ToSet(Ancestry(i)) : opts[j].enabled /\ opts[j].provided}
verify_required_args == \A i \in Visited : required_status_ok(i)

ParseEnd == /\ cpc = "parse" /\ (iarg > Len(argv) \/ parse_error)
            /\ IF verify_required_args
               THEN /\ parsing_complete' = TRUE
                    /\ returned' = Append(returned, IF parse_error THEN 1 ELSE 0)
               ELSE returned' = Append(returned, 1) /\ UNCHANGED parsing_complete
            /\ cpc' = "ready"
            /\ UNCHANGED <<argv, opts, register_error, iarg, parse_error>>

cmdarg_fetch_switch(n) == find_option(n) \notin {None, Root} /\ opts[find_option(n)].provided
cmdarg_fetch_string(n) == LET o == find_option(n)
                          IN  IF o \in {None, Root} THEN NoValue
                              ELSE IF opts[o].value = NoValue /\ opts[o].mode = "DEFAULT_ARG"
                              THEN opts[o].default ELSE opts[o].value

ArgInit == /\ argv \in BoundedSeq(Arguments, MaxArgs)
           /\ opts = <<>> /\ register_error = FALSE /\ parsing_complete = FALSE
           /\ iarg = 1 /\ parse_error = FALSE /\ cpc = "ready" /\ returned = <<>>
ArgNext == \/ \E o \in Options : returned = <<>> /\ cmdarg_register_option(o)
           \/ cmdarg_parse \/ ParseArgument \/ ParseEnd
ArgSpec == ArgInit /\ [][ArgNext]_argvars

-----------------------------------------------------------------------------
(* What the first n arguments give, said of argv as a whole: which of them *)
(* are values, where an option is given, and with what value last.         *)
Takes(a)    == a.dash /\ find_option(a.text) \notin {None, Root}
               /\ opts[find_option(a.text)].mode # "SWITCH"
ValueAt     == LET is[i \in 0..Len(argv)] ==
                     i > 1 /\ ~argv[i].dash /\ LET before == is[i - 1]
                                               IN  ~before /\ Takes(argv[i - 1])
               IN  is
GivenAt(o, n) == {i \in 1..(n - 1) : /\ argv[i].dash /\ find_option(argv[i].text) = o
                                     /\ opts[o].mode # "SWITCH" => HasValue(i)}
(* While the arguments are parsed and afterwards, each option is provided  *)
(* exactly if an argument before this one gave it, with the value that was *)
(* given last, or its default if none was; and an option below another is  *)
(* enabled if and only if that one was named.                              *)
ArgsInv ==
  cpc = "parse" \/ returned # <<>> =>
    \A o \in DOMAIN opts :
      LET at == GivenAt(o, iarg) IN
      /\ opts[o].provided = (at # {})
      /\ cmdarg_fetch_switch(opts[o].name) = opts[o].provided
      /\ cmdarg_fetch_string(opts[o].name) =
           CASE at = {} \/ opts[o].mode = "SWITCH" ->
                  IF opts[o].mode = "DEFAULT_ARG" THEN opts[o].default ELSE NoValue
             [] OTHER -> argv[Max(at) + 1].text
      /\ opts[o].enabled = \/ opts[o].parent = Root
                           \/ \E i \in 1..(iarg - 1) :
                                argv[i].dash /\ find_option(argv[i].text) = opts[o].parent
      /\ \A i \in at : ~ValueAt[i] /\ (opts[o].mode # "SWITCH" => ValueAt[i + 1])

(* "This allows required options of "submenus" to be enforced ONLY when    *)
(* the parent option has been provided" (cmdargs.c:236-238): a parse that  *)
(* returns 0 has found each required option that is enabled.               *)
RequiredEnforced ==
  returned # <<>> /\ returned[1] = 0 =>
    \A o \in DOMAIN opts : opts[o].mode = "REQUIRED_ARG" /\ opts[o].enabled => opts[o].provided
=============================================================================
