------------------------------ MODULE MmAtom ------------------------------
(***************************************************************************)
(* Memory mapped atoms (mmatom.c) and the files below them (mmapfile.c):   *)
(* creating, opening, locking and closing, one system call at a time, with *)
(* the failures each of them may have, in several processes.               *)
(*                                                                         *)
(* A length is a number of cells, PageSize cells make a page.  What is in  *)
(* the cells is the deques' affair; here it matters which cells exist.     *)
(***************************************************************************)
EXTENDS Naturals, FiniteSets

CONSTANTS
    AProcs,         \* processes, each running as a user of its own
    AFiles,
    Lens,           \* lengths a program asks for
    AccessModes,          \* access modes: subsets of {"read", "write"}
    Keys,           \* "user group other" keys: subsets of {"u", "g", "o"}
    PageSize,
    MaxAtomCalls    \* bound: calls of mmapfile_create and mmapfile_open, all told

ASSUME AtomAssumption == PageSize \in Nat \ {0} /\ Lens \subseteq Nat /\ MaxAtomCalls \in Nat

VARIABLES
    file,       \* file -> [len, owner, perms, set_gid], or NoFile
    fds,        \* process -> its open descriptors, a set of <<number, file>>
    maps,       \* process -> its mappings, a set of [pa, file, len, stale]
    handle,     \* process -> its open handles, a set of [fd, file, pa, len]
    flock,      \* the kernel's locks: file -> process -> "none", "read" or "write"
    acall,      \* process -> the call it is in, or NoCall
    mma_error,  \* process -> the error its last failed call left
    leaked,     \* history: process -> descriptors failed calls left open
    believed,   \* history: process -> file -> the lock it took and did not give back
    dropped,    \* history: <<process, file>>: it closed a descriptor while it had the lock
    begun_calls

avars == <<file, fds, maps, handle, flock, acall, mma_error, leaked, believed, dropped, begun_calls>>
osvars == <<file, fds, maps, flock, dropped>>

NoFile == [len |-> 0, owner |-> "nobody", perms |-> {}, set_gid |-> FALSE]
NoCall   == [at |-> "idle"]

----------------------------------------------------------------------------
(* Translations.                                                           *)

\* mma_file_mode: the permissions a key and a mode stand for.  (Without a mode
\* the user may read and the others may nothing.)
mma_file_mode(mode, ugokey) ==
    {<<k, a>> : k \in ugokey, a \in mode}
        \cup {<<k, "read">> : k \in IF mode = {} THEN ugokey \cap {"u"} ELSE {}}

\* Faulty: the length is rounded down.
Pages_Down(len) == (len \div PageSize) * PageSize

\* The whole pages that hold len cells.
Pages(len) == (len \div PageSize + IF len % PageSize # 0 THEN 1 ELSE 0) * PageSize

May(p, f) == LET who == IF file[f].owner = p THEN "u" ELSE "o"
             IN {<<who, "read">>, <<who, "write">>} \subseteq file[f].perms

Lowest(used) == CHOOSE n \in 0..Cardinality(used) : n \notin used /\ \A i \in 0..n - 1 : i \in used

----------------------------------------------------------------------------
(* The steps of a call.                                                    *)

Fails(p, error) == /\ acall' = [acall EXCEPT ![p] = NoCall]
                   /\ mma_error' = [mma_error EXCEPT ![p] = error]

\* A failure after which the descriptor stays open and nobody knows it.
FailsOpen(p, error) == /\ Fails(p, error)
                       /\ leaked' = [leaked EXCEPT ![p] = @ \cup {acall[p].fd}]

Goes(p, c) == acall' = [acall EXCEPT ![p] = c] /\ UNCHANGED mma_error

\* open: the lowest free number.
OsOpen(p, f) == LET n == Lowest({d[1] : d \in fds[p]})
                IN fds' = [fds EXCEPT ![p] = @ \cup {<<n, f>>}]

NewFd(p) == Lowest({d[1] : d \in fds[p]})

\* close: every lock the process has on the file is gone with any one of its
\* descriptors.
OsClose(p, n, f) ==
    /\ fds' = [fds EXCEPT ![p] = @ \ {<<n, f>>}]
    /\ flock' = [flock EXCEPT ![f][p] = "none"]
    /\ dropped' = IF flock[f][p] = "none" THEN dropped ELSE dropped \cup {<<p, f>>}

\* mmapfile_create up to the first open, which empties a file that is there
\* for whoever has mapped it.
mmapfile_create(p, f, len, mode, permissions) ==
    /\ acall[p].at = "idle" /\ begun_calls < MaxAtomCalls /\ begun_calls' = begun_calls + 1
    /\ \/ Fails(p, "FILE_OPEN") /\ UNCHANGED <<file, fds, maps>>
       \/ /\ file[f] = NoFile \/ May(p, f)
          /\ OsOpen(p, f)
          /\ file' = [file EXCEPT ![f] = IF @ = NoFile
                        THEN [len |-> 0, owner |-> p, perms |-> permissions, set_gid |-> FALSE]
                        ELSE [@ EXCEPT !.len = 0]]
          /\ maps' = [q \in AProcs |-> {[m EXCEPT !.stale = @ \/ m.file = f] : m \in maps[q]}]
          /\ Goes(p, [at |-> "extend", f |-> f, fd |-> NewFd(p), len |-> len,
                      dlen |-> Pages(len)])
    /\ UNCHANGED <<handle, flock, leaked, believed, dropped>>

\* lseek to the last cell and write of one: the length 0 has no last cell.
Extend(p) ==
    LET c == acall[p] IN
    /\ c.at = "extend"
    /\ \/ FailsOpen(p, "SET_SIZE") /\ UNCHANGED file
       \/ /\ c.dlen > 0
          /\ file' = [file EXCEPT ![c.f].len = IF c.dlen > @ THEN c.dlen ELSE @]
          /\ Goes(p, [c EXCEPT !.at = "close"]) /\ UNCHANGED leaked
    /\ UNCHANGED <<fds, maps, handle, flock, believed, dropped, begun_calls>>

\* The descriptor is closed and the file opened again without O_CREAT; what
\* the reopening gives is looked at by set_mandatory_locking only.
Reopen(p) ==
    LET c == acall[p] IN
    /\ \/ /\ c.at = "close" /\ OsClose(p, c.fd, c.f)
          /\ Goes(p, [c EXCEPT !.at = "reopen"])
       \/ /\ c.at = "reopen" /\ UNCHANGED <<flock, dropped>>
          /\ \/ UNCHANGED fds /\ Fails(p, "FILE_STATUS")
             \/ May(p, c.f) /\ OsOpen(p, c.f) /\ Goes(p, [c EXCEPT !.at = "chmod", !.fd = NewFd(p)])
    /\ UNCHANGED <<file, maps, handle, leaked, believed, begun_calls>>

\* set_mandatory_locking: fchmod is for the owner.  Its failure closes the
\* descriptor.
set_mandatory_locking(p) ==
    LET c == acall[p] IN
    /\ c.at = "chmod"
    /\ \/ /\ file[c.f].owner = p
          /\ file' = [file EXCEPT ![c.f].set_gid = TRUE]
          /\ Goes(p, [c EXCEPT !.at = "map"]) /\ UNCHANGED <<fds, flock, dropped>>
       \/ /\ OsClose(p, c.fd, c.f) /\ UNCHANGED file
          /\ Fails(p, IF file[c.f].owner = p THEN "FILE_STATUS" ELSE "MANDATORY_LOCK")
    /\ UNCHANGED <<maps, handle, leaked, believed, begun_calls>>

\* mmapfile_open: the open, whatever the mode, is for reading and writing;
\* then the length the file has.
mmapfile_open(p, f, mode) ==
    /\ acall[p].at = "idle" /\ begun_calls < MaxAtomCalls /\ begun_calls' = begun_calls + 1
    /\ \/ Fails(p, "FILE_OPEN") /\ UNCHANGED fds
       \/ /\ file[f] # NoFile /\ May(p, f) /\ OsOpen(p, f)
          /\ Goes(p, [at |-> "stat", f |-> f, fd |-> NewFd(p)])
    /\ UNCHANGED <<file, maps, handle, flock, leaked, believed, dropped>>

Stat(p) ==
    LET c == acall[p] IN
    /\ c.at = "stat"
    /\ \/ FailsOpen(p, "FILE_STATUS")
       \/ /\ Goes(p, [at |-> "map", f |-> c.f, fd |-> c.fd,
                      len |-> file[c.f].len, dlen |-> file[c.f].len])
          /\ UNCHANGED leaked
    /\ UNCHANGED <<osvars, handle, believed, begun_calls>>

\* mma_create and create_atom: no more than the file was made or found to
\* have; mmap refuses the length 0 and may refuse any other.
mma_create(p) ==
    LET c == acall[p]
        pa == Lowest({m.pa : m \in maps[p]})
    IN /\ c.at = "map"
       /\ \/ c.len > c.dlen /\ FailsOpen(p, "MAP_SIZE") /\ UNCHANGED <<maps, handle>>
          \/ c.len <= c.dlen /\ FailsOpen(p, "MAP_FAILED") /\ UNCHANGED <<maps, handle>>
          \/ /\ 0 < c.len /\ c.len <= c.dlen
             /\ maps' = [maps EXCEPT ![p] = @ \cup
                   {[pa |-> pa, file |-> c.f, len |-> c.len, stale |-> c.len > file[c.f].len]}]
             /\ handle' = [handle EXCEPT ![p] = @ \cup
                   {[fd |-> c.fd, file |-> c.f, pa |-> pa, len |-> c.len]}]
             /\ Goes(p, NoCall) /\ UNCHANGED leaked
       /\ UNCHANGED <<file, fds, flock, believed, dropped, begun_calls>>

\* mma_destroy_atom, by mmapfile_close: the descriptor is closed and address
\* 0 is unmapped, which is what create_atom asked mmap for and not what it
\* got.  Nothing is mapped there and the call succeeds.
mma_destroy_atom(p, h) ==
    /\ acall[p].at = "idle" /\ h \in handle[p]
    /\ OsClose(p, h.fd, h.file)
    /\ handle' = [handle EXCEPT ![p] = @ \ {h}]
    /\ UNCHANGED <<file, maps, acall, mma_error, leaked, believed, begun_calls>>

\* lock_cntrl: the whole file, by process.  A lock waits for the locks of the
\* others that exclude it.
lock_cntrl(p, h, type) ==
    /\ acall[p].at = "idle" /\ h \in handle[p]
    /\ \A q \in AProcs \ {p} : flock[h.file][q] # "none" =>
          type = "none" \/ (type = "read" /\ flock[h.file][q] = "read")
    /\ flock' = [flock EXCEPT ![h.file][p] = type]
    /\ believed' = [believed EXCEPT ![p][h.file] = type]
    /\ dropped' = dropped \ {<<p, h.file>>}
    /\ UNCHANGED <<file, fds, maps, handle, acall, mma_error, leaked, begun_calls>>

mma_lock_atom_read(p, h)  == lock_cntrl(p, h, "read")
mma_lock_atom_write(p, h) == lock_cntrl(p, h, "write")
mma_unlock_atom(p, h)     == lock_cntrl(p, h, "none")

\* mma_get_disk_file_path: a file as long as the descriptor is open on it.
mma_get_disk_file_path(p, h) == <<h.fd, h.file>> \in fds[p]

----------------------------------------------------------------------------

AtomInit ==
    /\ file = [f \in AFiles |-> NoFile]
    /\ fds = [p \in AProcs |-> {}] /\ maps = [p \in AProcs |-> {}]
    /\ handle = [p \in AProcs |-> {}]
    /\ flock = [f \in AFiles |-> [p \in AProcs |-> "none"]]
    /\ acall = [p \in AProcs |-> NoCall] /\ mma_error = [p \in AProcs |-> "none"]
    /\ leaked = [p \in AProcs |-> {}]
    /\ believed = [p \in AProcs |-> [f \in AFiles |-> "none"]]
    /\ dropped = {} /\ begun_calls = 0

AtomNext ==
    \E p \in AProcs :
        \/ \E f \in AFiles, mode \in AccessModes :
              \/ \E len \in Lens, key \in Keys :
                    mmapfile_create(p, f, len, mode, mma_file_mode(mode, key))
              \/ mmapfile_open(p, f, mode)
        \/ Extend(p) \/ Reopen(p) \/ set_mandatory_locking(p) \/ Stat(p) \/ mma_create(p)
        \/ \E h \in handle[p] : \/ mma_destroy_atom(p, h)
                                \/ mma_lock_atom_read(p, h)
                                \/ mma_lock_atom_write(p, h)
                                \/ mma_unlock_atom(p, h)

AtomSpec == AtomInit /\ [][AtomNext]_avars

----------------------------------------------------------------------------
\* A process's descriptors are those of its handles, those of a call under way
\* and those that failed calls have lost; a handle's descriptor is open on its
\* own file, and no two share one.  What a handle maps is in its file unless
\* somebody created the file anew.  No call fails over a length its own
\* rounding chose.  A lock a process holds by its own account is one the kernel
\* holds for it, unless the process has closed another descriptor of the file.
AtomInv ==
    /\ \A p \in AProcs :
          /\ {d[1] : d \in fds[p]} =
                {h.fd : h \in handle[p]} \cup leaked[p]
                    \cup (IF acall[p].at \in {"idle", "reopen"} THEN {} ELSE {acall[p].fd})
          /\ \A h \in handle[p] : mma_get_disk_file_path(p, h)
          /\ \A h, g \in handle[p] : h # g => h.fd # g.fd /\ h.pa # g.pa
          /\ \A m \in maps[p] : m.stale \/ m.len <= file[m.file].len
          /\ mma_error[p] # "MAP_SIZE"
    /\ \A p \in AProcs, f \in AFiles :
          believed[p][f] # flock[f][p] => flock[f][p] = "none" /\ <<p, f>> \in dropped

\* "Note also this unmaps the memory mapped atom's address range"
\* (mmapfile_close): every mapping belongs to an open handle.  Violated by the
\* first close.
CloseUnmaps ==
    \A p \in AProcs : {m.pa : m \in maps[p]} \subseteq {h.pa : h \in handle[p]}
=============================================================================
