----------------------------- MODULE SysConfig -----------------------------
(***************************************************************************)
(* The settings of a process: the registry of environment variables        *)
(* (appenv.c), the start-up that fills it from the shell, the defaults and *)
(* the [environment] section of an .ini file (sysconfig.c), the typed      *)
(* reads of .ini elements and the change of user.                          *)
(*                                                                         *)
(* The same setting lives in up to four places: the file, the environment  *)
(* of the process, the registry and the default in the code.  The module   *)
(* is about which of them wins and which of them a reader then sees.       *)
(***************************************************************************)
EXTENDS Naturals, Sequences, Functions

CONSTANTS
    Shells,     \* the environments a process may be started with
    Disks,      \* what [environment] sections there are: <<dir, name>> -> elements
    Apps,       \* application names a program passes, NullPtr for none
    Settings,   \* values a program gives to a variable itself
    Unset,      \* a variable the environment does not have
    NullPtr,
    Truncated,  \* the values too long for a node -> the part that fits
    MaxCalls    \* bound: calls of the program

VARIABLES
    shell,      \* history: the environment the process was started with
    disk,       \* the .ini files that exist
    env,        \* the environment of the process: getenv, setenv
    vartree,    \* the registry: variable -> value
    env_registered,
    ini,        \* the elements of the file that was parsed
    garbage,    \* history: a read took the address of a string for a number
    creds,      \* the user and group the process runs as
    sphase,     \* "running", or how the process ended
    told,       \* history: variables the program set or registered itself
    calls       \* history: number of calls

svars == <<shell, disk, env, vartree, env_registered, ini, garbage, creds, sphase, told, calls>>

Default == [SYSCONFIG_APPNAME |-> "ulppk_app", SYSCONFIG_CORE_DIR |-> "/var/ulppk",
            SYSCONFIG_DATA_DIR |-> "/var/ulppk", SYSCONFIG_ETC |-> "/usr/local/etc",
            SYSCONFIG_INI_FILE_NAME |-> "ulppkapp.ini", MMDQ_DIR_PATH |-> "/var/ulppk",
            MMPOOL_ENV_DATA_DIR |-> "/var/ulppk"]

StartVariables == DOMAIN Default
Variables == StartVariables \cup {"SYSCONFIG_LOG_DIR", "LD_LIBRARY_PATH"}

(* An environment has an entry for each variable; what a read of the wrong *)
(* type gives (see below) is not what a file has.                          *)
ASSUME SysConfigAssumption ==
    /\ \A s \in Shells : s = [v \in Variables |-> s[v]]
    /\ \A d \in Disks : \A p \in DOMAIN d : \A e \in DOMAIN d[p] :
          d[p][e][2] \notin {"garbage", "fault"}
    /\ \A x \in DOMAIN Truncated : Truncated[x] \notin DOMAIN Truncated

----------------------------------------------------------------------------
(* The registry.  Its state and the environment are passed as one record.  *)

\* The nodes of g put into the tree: a variable it has gets the new value.
PutAll(f, g) == [v \in DOMAIN f \cup DOMAIN g |-> IF v \in DOMAIN g THEN g[v] ELSE f[v]]
Node(v, x)   == [u \in {v} |-> x]

\* What a node keeps of a value: strncpy copies sizeof(value) - 1 bytes.
Fits(x) == IF x \in DOMAIN Truncated THEN Truncated[x] ELSE x

FromEnvironment(s, v, default) == IF s.env[v] = Unset THEN default ELSE s.env[v]

\* appenv_register_env_var: what fits of the value the environment has, or of
\* the default; the environment keeps the whole of it.  Registering again reads
\* the environment again.
appenv_register_env_var(s, v, default) ==
    [s EXCEPT !.vartree = PutAll(@, Node(v, Fits(FromEnvironment(s, v, default))))]

(* Faulty: the value is not written to the environment. *)
appenv_set_env_var_NoSetenv(s, v, x) ==
    [s EXCEPT !.vartree = PutAll(@, Node(v, Fits(x)))]

\* appenv_set_env_var: over whatever there was, and from the node into the
\* environment.
appenv_set_env_var(s, v, x) ==
    [s EXCEPT !.vartree = PutAll(@, Node(v, Fits(x))), !.env[v] = Fits(x)]

\* appenv_read_env_var: NullPtr when nobody registered or set the variable,
\* whether the environment has it or not.
appenv_read_env_var(s, v) == IF v \in DOMAIN s.vartree THEN s.vartree[v] ELSE NullPtr

\* sysconfig_register_env: each of them; the order does not matter, the names
\* differ and the environment stays as it is.
sysconfig_register_env(s) ==
    [s EXCEPT !.vartree =
        PutAll(@, [v \in StartVariables |-> Fits(FromEnvironment(s, v, Default[v]))])]

----------------------------------------------------------------------------
(* The start-up.                                                           *)

\* find_inifile: <appname>.ini in the four directories, then the name that
\* SYSCONFIG_INI_FILE_NAME gives in the same ones; <<>> when there is none.
\* A path is a directory and a name.
find_inifile(app, etcdir, ininame) ==
    LET searchdirs == <<".", etcdir, "/usr/local/etc", "/etc">>
        paths == [i \in 1..8 |-> IF i <= 4 THEN <<searchdirs[i], app \o ".ini">>
                                 ELSE <<searchdirs[i - 4], ininame>>]
        hits == {i \in 1..8 : paths[i] \in DOMAIN disk}
    IN IF hits = {} THEN <<>> ELSE paths[CHOOSE i \in hits : \A j \in hits : i <= j]

\* Which element is stored in which variable, in the order of the code.
Overrides == << <<"data_dir", "MMDQ_DIR_PATH">>,
                <<"log_dir", "SYSCONFIG_LOG_DIR">>,
                <<"core_dir", "SYSCONFIG_CORE_DIR">>,
                <<"mmdq_dir", "MMDQ_DIR_PATH">>,
                <<"mmpool_env_data_dir", "MMPOOL_ENV_DATA_DIR">>,
                <<"ld_library_path", "LD_LIBRARY_PATH">> >>

\* One override.  The value is read as a string whatever its type: the number
\* of a numeric element is taken for an address, and the process dies of it.
Override(s, elements, o) ==
    IF o[1] \notin DOMAIN elements \/ ~s.alive THEN s
    ELSE IF elements[o[1]][1] # "STRING" THEN [s EXCEPT !.alive = FALSE]
    ELSE appenv_set_env_var(s, o[2], elements[o[1]][2])

\* All of them, in their order.
StoreElements(s, elements) ==
    LET after[i \in 0..Len(Overrides)] ==
            IF i = 0 THEN s ELSE LET t == after[i - 1] IN Override(t, elements, Overrides[i])
    IN after[Len(Overrides)]

Environment == [env |-> env, vartree |-> vartree, alive |-> TRUE]

Store(s) ==
    /\ env' = s.env /\ vartree' = s.vartree
    /\ sphase' = IF s.alive THEN "running" ELSE "crashed"

\* sysconfig_parse_inifile.  A second call returns the tree it has; a process
\* without an .ini file, or with one that it cannot open or parse, ends itself
\* with SIGQUIT.
sysconfig_parse_inifile(arg) ==
    /\ UNCHANGED <<shell, disk, garbage, creds, told>>
    /\ \/ env_registered /\ UNCHANGED <<env, vartree, env_registered, ini, sphase>>
       \/ /\ ~env_registered
          /\ env_registered' = TRUE
          /\ LET given == IF arg # NullPtr THEN arg ELSE env["SYSCONFIG_APPNAME"]
                 app == IF given \in {Unset, ""} THEN Default["SYSCONFIG_APPNAME"] ELSE given
                 s == appenv_set_env_var(sysconfig_register_env(Environment),
                                         "SYSCONFIG_APPNAME", app)
                 found == find_inifile(app, appenv_read_env_var(s, "SYSCONFIG_ETC"),
                                       appenv_read_env_var(s, "SYSCONFIG_INI_FILE_NAME"))
             IN \/ /\ env' = s.env /\ vartree' = s.vartree
                   /\ sphase' = "quit" /\ UNCHANGED ini
                \/ /\ found # <<>> /\ ini' = disk[found]
                   /\ Store(StoreElements(s, disk[found]))

----------------------------------------------------------------------------
(* Typed reads of an element: the value and the number share their memory, *)
(* and the type of the element is not looked at.                           *)

if_get_intval(x) == IF x[1] = "NUMBER" THEN x[2] ELSE "garbage"
if_get_strval(x) == IF x[1] = "STRING" THEN x[2] ELSE "fault"

sysconfig_read_inifile_int(elements, name, default) ==
    IF name \notin DOMAIN elements THEN default ELSE if_get_intval(elements[name])

sysconfig_read_inifile_string(elements, name, default) ==
    IF name \notin DOMAIN elements THEN default ELSE if_get_strval(elements[name])

\* The program reads an element as a number or as a string; the copy that is
\* made of a string follows a number into nowhere.
ReadElement(name) ==
    /\ env_registered
    /\ \/ /\ garbage' = (garbage \/ sysconfig_read_inifile_int(ini, name, "0") = "garbage")
          /\ UNCHANGED sphase
       \/ /\ sysconfig_read_inifile_string(ini, name, "") = "fault"
          /\ sphase' = "crashed" /\ UNCHANGED garbage
    /\ UNCHANGED <<shell, disk, env, vartree, env_registered, ini, creds, told>>

----------------------------------------------------------------------------
(* The change of user.                                                     *)

\* sysconfig_set_user: the user or the group may be unknown, setgid or setuid
\* may be refused; the group is changed first and stays changed when setuid
\* is refused.
sysconfig_set_user ==
    /\ \/ UNCHANGED creds
       \/ creds' = [creds EXCEPT !.gid = "user"]
       \/ creds' = [uid |-> "user", gid |-> "user"]
    /\ UNCHANGED <<shell, disk, env, vartree, env_registered, ini, garbage, sphase, told>>

----------------------------------------------------------------------------

\* The program registers or sets a variable of its own accord.
Program(v, s) ==
    /\ Store(s) /\ told' = told \cup {v}
    /\ UNCHANGED <<shell, disk, env_registered, ini, garbage, creds>>

SysInit ==
    /\ shell \in Shells /\ disk \in Disks /\ env = shell
    /\ vartree = [v \in {} |-> ""] /\ env_registered = FALSE
    /\ ini = [e \in {} |-> <<>>] /\ garbage = FALSE
    /\ creds = [uid |-> "root", gid |-> "root"]
    /\ sphase = "running" /\ told = {} /\ calls = 0

SysNext ==
    /\ sphase = "running" /\ calls < MaxCalls /\ calls' = calls + 1
    /\ \/ \E a \in Apps : sysconfig_parse_inifile(a)
       \/ \E v \in Variables, x \in Settings :
             Program(v, appenv_set_env_var(Environment, v, x))
       \/ \E v \in Variables, x \in Settings :
             Program(v, appenv_register_env_var(Environment, v, x))
       \/ \E e \in {o[1] : o \in Range(Overrides)} : ReadElement(e)
       \/ sysconfig_set_user

SysSpec == SysInit /\ [][SysNext]_svars

----------------------------------------------------------------------------
(* What the settings promise.                                              *)

\* The element that names a variable's value in the [environment] section.
ElementOf(v) == CASE v = "SYSCONFIG_CORE_DIR"  -> "core_dir"
                  [] v = "SYSCONFIG_LOG_DIR"   -> "log_dir"
                  [] v = "SYSCONFIG_DATA_DIR"  -> "data_dir"
                  [] v = "MMDQ_DIR_PATH"       -> "mmdq_dir"
                  [] v = "MMPOOL_ENV_DATA_DIR" -> "mmpool_env_data_dir"
                  [] OTHER                     -> ""

\* "Set the buffer pool and deque data directories to the ulppk_data directory."
FollowDataDir == {"MMDQ_DIR_PATH", "MMPOOL_ENV_DATA_DIR"}

\* What the comments of sysconfig.c have a variable be after the start-up.
Expected(v) ==
    IF ElementOf(v) \in DOMAIN ini \ {""} THEN ini[ElementOf(v)][2]
    ELSE IF v \in FollowDataDir /\ "data_dir" \in DOMAIN ini THEN ini["data_dir"][2]
    ELSE IF shell[v] # Unset THEN shell[v] ELSE Default[v]

Started == env_registered /\ sphase = "running"

\* The buffer pool directory that data_dir should give, which the code leaves
\* as it was: see PoolDirFromIni.
PoolDirLeft(v) == /\ v = "MMPOOL_ENV_DATA_DIR"
                  /\ "data_dir" \in DOMAIN ini /\ ElementOf(v) \notin DOMAIN ini

\* What a process reads from the registry is what its children inherit, as far
\* as a node holds it, unless they inherit nothing; and after the start-up the
\* registry holds, for the variables the program left alone, the .ini value
\* before that of the shell before the default.  (The data directory and the
\* buffer pool directory are exceptions: see DataDirFromIni, PoolDirFromIni.)
\* A process dies of its settings only by reading a number as a string, and it
\* never runs under the new user with the old group.
ConfigInv ==
    /\ \A v \in DOMAIN vartree : env[v] # Unset => vartree[v] = Fits(env[v])
    /\ Started => \A v \in StartVariables \ (told \cup {"SYSCONFIG_DATA_DIR", "SYSCONFIG_APPNAME"}) :
          ~PoolDirLeft(v) => vartree[v] = Fits(Expected(v))
    /\ sphase = "crashed" => \E e \in DOMAIN ini : ini[e][1] # "STRING"
    /\ garbage => \E e \in DOMAIN ini : ini[e][1] # "NUMBER"
    /\ creds.uid = "user" => creds.gid = "user"

\* "(.ini settings have precedence over environment settings)", for the data
\* directory as well.  Violated: the code stores data_dir in MMDQ_DIR_PATH.
DataDirFromIni ==
    Started /\ "SYSCONFIG_DATA_DIR" \notin told =>
        vartree["SYSCONFIG_DATA_DIR"] = Fits(Expected("SYSCONFIG_DATA_DIR"))

\* "Set the buffer pool and deque data directories to the ulppk_data directory"
\* (sysconfig.c:301-302), for the pools.  Violated: data_dir is stored for the
\* deques only.
PoolDirFromIni ==
    Started /\ "MMPOOL_ENV_DATA_DIR" \notin told =>
        vartree["MMPOOL_ENV_DATA_DIR"] = Fits(Expected("MMPOOL_ENV_DATA_DIR"))

\* "do a getenv and store the value in the node" (appenv.c:107-110), the whole
\* of it.  Violated: a node cuts the values that are too long for it.
WholeValue == \A v \in DOMAIN vartree : env[v] # Unset => vartree[v] = env[v]
=============================================================================
