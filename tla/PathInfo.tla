----------------------------- MODULE PathInfo -----------------------------
(***************************************************************************)
(* Path names taken apart (pathinfo.c): the directory part is collected in *)
(* a character deque, the file name is split at its dots.                  *)
(*                                                                         *)
(* A path is a sequence of "/", "." and other characters; a part that the  *)
(* code leaves NULL is <<>>.                                               *)
(***************************************************************************)
EXTENDS Naturals, Sequences, SequencesExt

CONSTANTS
    PathNames,      \* path names
    Kinds       \* what is there: "dir", "reg", ..., <<"link", what>>, "absent"

VARIABLES
    pathname, kind,     \* the path parsed and what is there
    info,               \* <<PATHINFO_STRUCT>>, or <<>>
    overrun             \* a string was written past the end of its buffer

pvars == <<pathname, kind, info, overrun>>

\* strtok's tokens: what is between the delimiters and not empty.
Tokens(str, delim) ==
    SelectSeq(FoldLeft(LAMBDA ts, c : IF c = delim THEN Append(ts, <<>>)
                                      ELSE [ts EXCEPT ![Len(ts)] = Append(@, c)],
                       << <<>> >>, str),
              LAMBDA t : t # <<>>)

Join(ts, delim) ==
    FlattenSeq([i \in DOMAIN ts |-> IF i = 1 THEN ts[i] ELSE <<delim>> \o ts[i]])

\* pathinfo_get_mode: stat looks at what a link leads to.
pathinfo_get_mode(k) == IF Len(k) = 2 /\ k[1] = "link" THEN k[2] ELSE k[1]
pathinfo_is(k, type) == pathinfo_get_mode(k) = type

NoName == [filename |-> <<>>, basename |-> <<>>, extension |-> <<>>, over |-> FALSE]

\* parse_filename and findext: the last of two or more tokens is the
\* extension, the others are the base.  The base is put together in a buffer
\* as long as the name, with no room for a terminator, and the base of a hidden
\* file in one for its first token.
parse_filename(filename) ==
    LET parts == Tokens(filename, ".")
        base == Join(IF Len(parts) > 1 THEN Front(parts) ELSE parts, ".")
        hidden == filename[1] = "."
    IN IF parts = <<>>
       THEN NoName
       ELSE [filename  |-> filename,
             basename  |-> IF hidden THEN <<".">> \o base ELSE base,
             extension |-> IF Len(parts) > 1 THEN Last(parts) ELSE <<>>,
             over      |-> Len(base) + 1 > Len(filename)
                              \/ (hidden /\ Len(base) + 2 > Len(parts[1]) + 2)]

\* Faulty: the last token of a directory is taken for a file name, too.
DirTokens_Front(tokens, isdir) == Front(tokens)

\* push_token: the tokens that go into the deque.
DirTokens(tokens, isdir) == IF isdir THEN tokens ELSE Front(tokens)

\* pathinfo_parse_filepath and set_dirpath.
pathinfo_parse_filepath ==
    /\ info = <<>>
    /\ LET tokens == Tokens(pathname, "/")
           isdir == pathinfo_is(kind, "dir")
           dirs == IF tokens = <<>> THEN <<>> ELSE DirTokens(tokens, isdir)
           chars == (IF pathname # <<>> /\ pathname[1] = "/" THEN <<"/">> ELSE <<>>)
                        \o Join(dirs, "/")
                        \o (IF Len(dirs) < Len(tokens) /\ dirs # <<>> THEN <<"/">> ELSE <<>>)
           name == IF tokens = <<>> \/ isdir THEN NoName ELSE parse_filename(Last(tokens))
       IN /\ info' = <<[fullpath |-> pathname, isdir |-> isdir, dirpath |-> chars,
                       filename |-> name.filename, basename |-> name.basename,
                       extension |-> name.extension]>>
          /\ overrun' = (overrun \/ name.over)
    /\ UNCHANGED <<pathname, kind>>

pathinfo_release ==
    /\ info # <<>> /\ info' = <<>> /\ UNCHANGED <<pathname, kind, overrun>>

\* pathinfo_append2path; a first element that is empty is read at -1.
pathinfo_append2path(pelement1, pelement2) ==
    IF Last(pelement1) = "/" THEN pelement1 \o pelement2
    ELSE pelement1 \o <<"/">> \o pelement2

PathInit == pathname \in PathNames /\ kind \in Kinds /\ info = <<>> /\ overrun = FALSE
PathNext == pathinfo_parse_filepath \/ pathinfo_release
PathSpec == PathInit /\ [][PathNext]_pvars

----------------------------------------------------------------------------
\* A path or name in which the delimiter neither ends it nor is doubled; a name
\* may begin with one.
Plain(str, delim) ==
    /\ str # <<>> => Last(str) # delim
    /\ \A i \in 1..Len(str) - 1 : ~(str[i] = delim /\ str[i + 1] = delim)

\* The parts of a plain path put together again are the path: of a directory
\* the directory part is all of it, of anything else the directory part, the
\* base, the dot and the extension.  A buffer is overrun only by a name without
\* a dot, or by a hidden one that has two more.
PathInv ==
    /\ info # <<>> /\ Plain(pathname, "/") /\ pathname # <<>> =>
          LET got == info[1]
              t == Last(Tokens(pathname, "/"))
          IN IF got.isdir THEN got.dirpath = pathname
             ELSE Tokens(t, ".") # <<>> =>
                  /\ got.dirpath \o got.filename = pathname
                  /\ got.dirpath # <<>> => pathinfo_append2path(got.dirpath, got.filename) = pathname
                  /\ Plain(t, ".") =>
                        got.filename = got.basename \o
                           (IF got.extension = <<>> THEN <<>> ELSE <<".">> \o got.extension)
    /\ overrun =>
          LET t == Last(Tokens(pathname, "/"))
          IN (\A i \in DOMAIN t : t[i] # ".") \/ (t[1] = "." /\ Len(Tokens(t, ".")) > 2)
=============================================================================
