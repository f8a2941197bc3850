------------------------------- MODULE LsLine -------------------------------
(***************************************************************************)
(* How src/src/parse.rs reads the lines of `ls -l -a`, and how escape.rs   *)
(* quotes a path for the device's shell.                                   *)
(*                                                                         *)
(* A text is a sequence of pieces: a word, a number, a date, a mode string *)
(* or one of the marks the parser looks for.  A number of the clock is two *)
(* characters, a mark one.                                                 *)
(***************************************************************************)
EXTENDS Integers, SequencesExt

CONSTANTS
  Accounts,  \* owners and groups the host can resolve
  Zone,      \* minutes that the host's local time is ahead of UTC
  Hour       \* bound: the minutes of an hour, and the hours of a day

ASSUME ClocksTick == Hour \in Nat \ {0} /\ Zone \in Int

Word(x) == <<"word", x>>
Num(n) == <<"num", n>>
Date(d) == <<"date", d>>
ModeStr(s) == <<"mode", s>>
Err(e) == <<"err", e>>           \* the strerror text of an error
Mark(m) == <<"mark", m>>

Space == <<"space">>
Quote == Mark("'")
Backslash == Mark("\\")
Slash == Mark("/")
Comma == Mark(",")
Arrow == <<Space, Mark("->"), Space>>

None == <<"none">>
Panic == <<"panic">>
NoText == <<None>>

Position(text, part) ==
  LET hits == {k \in 1..Len(text) + 1 - Len(part) : SubSeq(text, k, k + Len(part) - 1) = part}
  IN IF hits = {} THEN 0 ELSE Min(hits)

\* What is left of a sequence without the elements of a set.
Without(seq, set) ==
  FoldLeft(LAMBDA kept, x : IF x \in set THEN kept ELSE Append(kept, x), <<>>, seq)

------------------------------------------------------------------------------
\* Bug: a backslash before the quote, as outside of quotes.
EscapeByBackslash(path) ==
  FlattenSeq([k \in 1..Len(path) |->
    IF path[k] = Quote THEN <<Backslash, Quote>> ELSE <<path[k]>>])

\* `'` becomes `'\''`; everything else is literal between single quotes.
shell_escape_path(path) ==
  FlattenSeq([k \in 1..Len(path) |->
    IF path[k] = Quote THEN <<Quote, Backslash, Quote, Quote>> ELSE <<path[k]>>])

\* The device's shell reads a piece: what it has of the word, and where it is.
ShellRead(s, p) ==
  CASE s.at = "escape" -> [at |-> "plain", word |-> Append(s.word, p)]
    [] s.at = "quoted" /\ p = Quote -> [s EXCEPT !.at = "plain"]
    [] s.at = "plain" /\ p = Quote -> [s EXCEPT !.at = "quoted"]
    [] s.at = "plain" /\ p = Backslash -> [s EXCEPT !.at = "escape"]
    [] s.at = "plain" /\ p = Space -> [s EXCEPT !.at = "split"]
    [] OTHER -> [s EXCEPT !.word = Append(@, p)]

\* The word the device's shell makes of a text, NoText if it makes several.
ShellWord(text) ==
  LET end == FoldLeft(ShellRead, [at |-> "plain", word |-> <<>>], text)
  IN IF end.at = "plain" THEN end.word ELSE NoText

\* The path a command is about, once the device's shell has read it.
Argument(path) == ShellWord(<<Quote>> \o shell_escape_path(path) \o <<Quote>>)

------------------------------------------------------------------------------
(***************************************************************************)
(* Mode strings.  A permission is a pair of a class, 1 to 3, and r, w, x   *)
(* or s, which is setuid, setgid or sticky.                                *)
(***************************************************************************)
Types == {"s", "l", "-", "d", "b", "c", "p"}

Special(class) == IF class = 3 THEN <<"t", "T">> ELSE <<"s", "S">>

Triplet(t, class) ==
  LET lower == Special(class)[1]
      upper == Special(class)[2]
  IN {class} \X (({t[1]} \cap {"r"}) \cup ({t[2]} \cap {"w"})
       \cup (IF t[3] \in {"x", lower} THEN {"x"} ELSE {})
       \cup (IF t[3] \in {lower, upper} THEN {"s"} ELSE {}))

parse_mode_string(s) ==
  IF Len(s) < 10 THEN [type |-> "", perms |-> {}]
  ELSE [type |-> IF s[1] \in Types THEN s[1] ELSE "",
        perms |-> UNION {Triplet(SubSeq(s, 3 * c - 1, 3 * c + 1), c) : c \in 1..3}]

\* What the device prints.
ModeString(type, perms) ==
  <<type>> \o FlattenSeq([c \in 1..3 |->
    <<IF <<c, "r">> \in perms THEN "r" ELSE "-",
      IF <<c, "w">> \in perms THEN "w" ELSE "-",
      IF <<c, "s">> \in perms THEN Special(c)[IF <<c, "x">> \in perms THEN 1 ELSE 2]
      ELSE IF <<c, "x">> \in perms THEN "x" ELSE "-">>])

------------------------------------------------------------------------------
(***************************************************************************)
(* Lines.  The device prints a file f under a name, with or without the    *)
(* number of links and the size of what is no regular file.                *)
(***************************************************************************)
IsDevice(type) == type \in {"b", "c"}

Clock(m) == <<Num((m \div Hour) % Hour), Mark(":"), Num(m % Hour)>>

\* A column of ls is some text without a space.
IsColumn(text) == text \in Seq(ToSet(text) \ {Space}) \ {<<>>}

\* A file's time is in minutes of the device's local time.
IsFile(f) ==
  /\ f \in [type : Types, perms : SUBSET ((1..3) \X {"r", "w", "x", "s"}), nlink : Nat \ {0},
            owner : {f.owner}, group : {f.group}, size : Nat, major : Nat, minor : Nat,
            time : Int, target : {f.target}, denied : BOOLEAN]
  /\ IsColumn(f.owner) /\ IsColumn(f.group) /\ f.target \in Seq(ToSet(f.target))

Columns(f, ls) ==
  <<(<<ModeStr(ModeString(f.type, f.perms))>>)>>
    \o (IF ls.nlink THEN <<(<<Num(f.nlink)>>)>> ELSE <<>>)
    \o <<f.owner, f.group>>
    \o (IF IsDevice(f.type) THEN <<(<<Num(f.major), Comma>>), <<Num(f.minor)>> >>
        ELSE IF f.type = "-" \/ ls.sizes THEN <<(<<Num(f.size)>>)>> ELSE <<>>)
    \o <<(<<Date(f.time \div (Hour * Hour))>>), Clock(f.time)>>

LsLine(f, name, ls) ==
  FlattenSeq([k \in 1..Len(Columns(f, ls)) |-> Append(Columns(f, ls)[k], Space)])
    \o name \o (IF f.type = "l" THEN Arrow \o f.target ELSE <<>>)

\* A line of an error message does not begin like a mode string.
is_valid_ls_output(text) ==
  /\ text # <<>>
  /\ text[1][1] = "mode" /\ text[1][2][2] \in {"r", "-"}

\* A space begins a field.
FieldRead(fields, p) ==
  IF p = Space THEN Append(fields, <<>>)
  ELSE [fields EXCEPT ![Len(fields)] = Append(@, p)]

split_fields(line) == Without(FoldLeft(FieldRead, <<(<<>>)>>, line), {<<>>})

IsNum(field) == Len(field) = 1 /\ field[1][1] = "num"

\* parse().unwrap_or(0).
Number(field) == IF IsNum(field) THEN field[1][2] ELSE 0

\* resolve_uid and resolve_gid fall back to 98.
Resolve(field) == IF field \in Accounts THEN field ELSE <<Num(98)>>

\* mktime reads local time.  A time before 1970 is negative, and cast to u64
\* too large to be added to UNIX_EPOCH.
parse_datetime(date, time) ==
  IF Len(date) # 1 \/ Len(time) < 3 \/ date[1][1] # "date" \/ time[2] # Mark(":") THEN None
  ELSE LET t == date[1][2] * Hour * Hour + time[1][2] * Hour + time[3][2] - Zone
       IN IF t < 0 THEN Panic ELSE <<"time", t>>

\* The nlink column moves the others; a date always has a dash, a size never.
parse_ls_line(line) ==
  LET f == split_fields(line)
      mode == parse_mode_string(f[1][1][2])
      off == IF Number(f[2]) > 0 THEN 1 ELSE 0
      size == off + 4
      date == IF IsDevice(mode.type) THEN size + 2
              ELSE IF mode.type = "-" \/ f[size][1][1] # "date" THEN size + 1 ELSE size
      t == parse_datetime(f[date], f[date + 1])
  IN IF Len(f) < 6 \/ ~is_valid_ls_output(f[1]) \/ date + 1 > Len(f) THEN None
     ELSE IF t \in {None, Panic} THEN t
     ELSE <<"meta",
            [type |-> mode.type, perms |-> mode.perms,
             nlink |-> IF off = 1 THEN Number(f[2]) ELSE 1,
             uid |-> Resolve(f[off + 2]), gid |-> Resolve(f[off + 3]),
             size |-> IF mode.type = "-" THEN Number(f[size]) ELSE 0,
             rdev |-> IF ~IsDevice(mode.type) THEN 0
                      ELSE Number(Without(f[size], {Comma})) * 256
                             + Number(f[size + 1]),
             mtime |-> t[2]]>>

\* The name begins four characters after the first colon, and ends at an arrow.
extract_filename(line) ==
  LET rest == SubSeq(line, Position(line, <<Mark(":")>>) + 3, Len(line))
      arrow == Position(rest, Arrow)
      name == IF arrow = 0 THEN rest ELSE SubSeq(rest, 1, arrow - 1)
  IN IF Position(line, <<Mark(":")>>) = 0 \/ name = <<>> THEN NoText ELSE name

\* Bug: one up for each slash of the path.
AllSlashes(slashes) == slashes

\* saturating_sub(1).
Depth(slashes) == IF slashes = 0 THEN 0 ELSE slashes - 1

\* An absolute target is made relative to a link as deep as the path says.
parse_symlink_target(line, slashes) ==
  LET target == SubSeq(line, Position(line, Arrow) + 3, Len(line))
      first == SelectInSeq(target, LAMBDA p : p # Slash)
  IN IF Position(line, Arrow) = 0 \/ target = <<>> THEN NoText
     ELSE IF target[1] # Slash THEN target
     ELSE FlattenSeq([k \in 1..Depth(slashes) |-> <<Mark(".."), Slash>>])
            \o SubSeq(target, IF first = 0 THEN Len(target) + 1 ELSE first, Len(target))

=============================================================================
