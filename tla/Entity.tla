------------------------------- MODULE Entity -------------------------------
(***************************************************************************)
(* The Command entity of src/src/command.cpp and its persistence through  *)
(* DBObject::quote and DBObject::get_sql (src/src/database.cpp): an       *)
(* interactive shell runs commands, and after each one the prompt hook    *)
(* runs `_ash_log -c <command> -e <rval>`, which builds a Command from the *)
(* environment and inserts the INSERT text that get_sql renders.          *)
(*                                                                         *)
(* Text is a sequence of character classes: "a" a printable character,    *)
(* "q" the single quote, "t" and "n" tab and newline, "c" a byte isprint   *)
(* rejects; a command word, a directory or a tty name is one printable    *)
(* token.  SQL text is a sequence of tokens.  The engine that executes    *)
(* the INSERT is modelled by an SQL lexer written from the SQL literal    *)
(* rules, independently of the code: it is the reference the rendering is *)
(* checked against.                                                       *)
(***************************************************************************)
EXTENDS Integers, Sequences, SequencesExt, FiniteSets

CONSTANTS
    Words,        \* command words the shell may run
    CdPrefixed,   \* the words whose text begins with the letters "cd"
    Chars,        \* character classes of the rest of a command line
    Dirs,         \* directories
    NoValue,      \* an unset environment variable / a NULL char *
    HasTty,       \* whether ttyname(0) names a terminal in this shell
    MaxArgLen,    \* characters after the command word
    MaxCommands   \* commands run in one behaviour

ASSUME /\ CdPrefixed \subseteq Words
       /\ "cd" \in Words
       /\ HasTty \in BOOLEAN
       /\ MaxArgLen \in Nat /\ MaxCommands \in Nat

Whitespace == {"t", "n"}
Unprintable == {"c"}
Numerals == {"0", "1"}

\* Util::to_string of the exit codes the model uses.
IntToString(n) == IF n = 0 THEN "0" ELSE "1"

\* Mutant: `case '\\'':` ends with a break instead of falling through.
QuoteCharNoDouble(c) ==
    IF c \in Whitespace THEN <<c>>
    ELSE IF c \notin Unprintable THEN <<c>> ELSE <<>>

\* DBObject::quote(const string &): one character of the switch.
QuoteChar(c) ==
    IF c \in Whitespace THEN <<c>>
    ELSE (IF c = "q" THEN <<c>> ELSE <<>>)
         \o (IF c \notin Unprintable THEN <<c>> ELSE <<>>)

\* DBObject::quote(const string &): empty -> null, else '...'.
Quote(s) ==
    IF s = <<>> THEN <<"NULL">>
    ELSE <<"q">> \o FlattenSeq([i \in DOMAIN s |-> QuoteChar(s[i])]) \o <<"q">>

\* DBObject::quote(const char *): a NULL pointer is null.
QuoteC(v) == IF v = NoValue THEN <<"NULL">> ELSE Quote(<<v>>)

\* unix::tty: ttyname(0) quoted, with the leading /dev/ stripped.
Tty == IF HasTty THEN <<"q", "pts", "q">> ELSE <<"NULL">>

\* Mutant: the `rval == 0` test of the cwd choice dropped.
CommandValuesAnyRval(text, rval, pwd, oldpwd) ==
    [command    |-> Quote(text),
     cwd        |-> IF text[1] \in CdPrefixed
                    THEN QuoteC(oldpwd) ELSE QuoteC(pwd),
     rval       |-> <<IntToString(rval)>>,
     session_id |-> <<"1">>,
     tty        |-> Tty]

\* The values map of Command::Command, the columns the properties tell
\* apart.  cwd is OLDPWD when the command exited 0 and its text begins
\* with "cd", the current directory otherwise.
CommandValues(text, rval, pwd, oldpwd) ==
    [command    |-> Quote(text),
     cwd        |-> IF rval = 0 /\ text[1] \in CdPrefixed
                    THEN QuoteC(oldpwd) ELSE QuoteC(pwd),
     rval       |-> <<IntToString(rval)>>,
     session_id |-> <<"1">>,
     tty        |-> Tty]

\* The iteration order of map<string, string>: sorted column names.
Columns == <<"command", "cwd", "rval", "session_id", "tty">>

\* The two loops of get_sql: an item, then ", " unless it was the last.
RECURSIVE JoinList(_)
JoinList(s) ==
    IF Len(s) <= 1 THEN FlattenSeq(s)
    ELSE Head(s) \o <<",">> \o JoinList(Tail(s))

\* DBObject::get_sql.
GetSql(name, values) ==
    <<"INSERT", "INTO", name, "(">>
    \o JoinList([i \in DOMAIN Columns |-> <<Columns[i]>>])
    \o <<")", "VALUES", "(">>
    \o JoinList([i \in DOMAIN Columns |-> values[Columns[i]]])
    \o <<")", ";">>

-----------------------------------------------------------------------------
(* The engine: an SQL lexer for the INSERT, not code of this repository.  *)

SqlNull == [isnull |-> TRUE, text |-> <<>>]
SqlText(s) == [isnull |-> FALSE, text |-> s]
Fail == [ok |-> FALSE, vals |-> <<>>, rest |-> <<>>]

\* A quoted literal after its opening quote: '' stands for one quote.
RECURSIVE ScanLiteral(_, _)
ScanLiteral(t, acc) ==
    IF t = <<>> THEN [ok |-> FALSE, val |-> SqlText(acc), rest |-> t]
    ELSE IF Head(t) = "q"
         THEN IF Len(t) > 1 /\ t[2] = "q"
              THEN ScanLiteral(Tail(Tail(t)), Append(acc, "q"))
              ELSE [ok |-> TRUE, val |-> SqlText(acc), rest |-> Tail(t)]
         ELSE ScanLiteral(Tail(t), Append(acc, Head(t)))

LexValue(t) ==
    IF t = <<>> THEN [ok |-> FALSE, val |-> SqlNull, rest |-> t]
    ELSE IF Head(t) = "NULL" THEN [ok |-> TRUE, val |-> SqlNull, rest |-> Tail(t)]
    ELSE IF Head(t) \in Numerals
         THEN [ok |-> TRUE, val |-> SqlText(<<Head(t)>>), rest |-> Tail(t)]
    ELSE IF Head(t) = "q" THEN ScanLiteral(Tail(t), <<>>)
    ELSE [ok |-> FALSE, val |-> SqlNull, rest |-> t]

\* A comma separated list closed by ")", of values or of column names.
LexListStep(v, acc) ==
    IF ~v.ok \/ v.rest = <<>> THEN Fail
    ELSE IF Head(v.rest) = ")"
         THEN [ok |-> TRUE, vals |-> Append(acc, v.val), rest |-> Tail(v.rest)]
    ELSE IF Head(v.rest) = "," THEN [ok |-> TRUE, vals |-> Append(acc, v.val),
                                     rest |-> <<",">> \o Tail(v.rest)]
    ELSE Fail

LexName(t) ==
    IF t # <<>> /\ Head(t) \in ToSet(Columns)
    THEN [ok |-> TRUE, val |-> Head(t), rest |-> Tail(t)]
    ELSE [ok |-> FALSE, val |-> "", rest |-> t]

RECURSIVE LexValues(_, _)
LexValues(t, acc) ==
    LET r == LexListStep(LexValue(t), acc) IN
    IF r.ok /\ r.rest # <<>> /\ Head(r.rest) = ","
    THEN LexValues(Tail(r.rest), r.vals) ELSE r

RECURSIVE LexNames(_, _)
LexNames(t, acc) ==
    LET r == LexListStep(LexName(t), acc) IN
    IF r.ok /\ r.rest # <<>> /\ Head(r.rest) = ","
    THEN LexNames(Tail(r.rest), r.vals) ELSE r

\* The row an INSERT INTO name (...) VALUES (...); statement stores, or
\* ok = FALSE when the engine rejects its text.
ParseInsert(name, t) ==
    LET head  == <<"INSERT", "INTO", name, "(">>
        names == LexNames(SubSeq(t, 5, Len(t)), <<>>)
        vals  == LexValues(SubSeq(names.rest, 3, Len(names.rest)), <<>>)
    IN  IF /\ Len(t) > 4 /\ SubSeq(t, 1, 4) = head
           /\ names.ok /\ Len(names.rest) > 2
           /\ SubSeq(names.rest, 1, 2) = <<"VALUES", "(">>
           /\ vals.ok /\ vals.rest = <<";">>
           /\ Len(names.vals) = Len(vals.vals)
           /\ Cardinality(ToSet(names.vals)) = Len(names.vals)
        THEN [ok |-> TRUE,
              row |-> [c \in ToSet(names.vals) |->
                        vals.vals[CHOOSE i \in DOMAIN names.vals : names.vals[i] = c]]]
        ELSE [ok |-> FALSE, row |-> <<>>]

\* The NOT NULL columns of the commands table (Command::register_table).
NotNull == {"command", "cwd", "rval", "session_id", "tty"}

-----------------------------------------------------------------------------

VARIABLES
    pwd,       \* the shell's PWD
    oldpwd,    \* the shell's OLDPWD, NoValue when unset
    hook,      \* the command whose prompt hook has not run yet, or NoValue
    history    \* the commands run: text, rval, start dir, what was stored

vars == <<pwd, oldpwd, hook, history>>

Texts == {<<w>> \o a : w \in Words, a \in BoundedSeq(Chars, MaxArgLen)}

Init ==
    /\ pwd \in Dirs
    /\ oldpwd \in Dirs \cup {NoValue}
    /\ hook = NoValue
    /\ history = <<>>

\* The shell runs a command (environment, not code): a "cd" that succeeds
\* moves PWD to OLDPWD and changes directory; a failing "cd" and any
\* other word leave both alone.
RunCommand ==
    /\ hook = NoValue
    /\ Len(history) < MaxCommands
    /\ \E text \in Texts, rval \in {0, 1}, d \in Dirs :
         /\ hook' = [text |-> text, rval |-> rval, dir |-> pwd]
         /\ IF text[1] = "cd" /\ rval = 0
            THEN pwd' = d /\ oldpwd' = pwd
            ELSE UNCHANGED <<pwd, oldpwd>>
    /\ UNCHANGED history

\* The command branch of _ash_log main: Command com(...); db.insert(&com).
\* The engine stores the row the INSERT text says, drops it on a NOT NULL
\* violation (exec returns no result), and rejects text it cannot lex
\* (prepare_stmt: LOG(FATAL)).
LogCommand ==
    /\ hook # NoValue
    /\ LET sql == GetSql("commands",
                         CommandValues(hook.text, hook.rval, pwd, oldpwd))
           p   == ParseInsert("commands", sql)
           outcome ==
             IF ~p.ok THEN "rejected"
             ELSE IF \E c \in NotNull : p.row[c].isnull THEN "dropped"
             ELSE "stored"
       IN  history' = Append(history, hook @@ [status |-> outcome, row |-> p.row])
    /\ hook' = NoValue
    /\ UNCHANGED <<pwd, oldpwd>>

Next == RunCommand \/ LogCommand

Spec == Init /\ [][Next]_vars

-----------------------------------------------------------------------------
(* Properties *)

\* What the command text reads as after quoting: the characters isprint
\* rejects are gone, tab, newline and quotes are kept.
Stripped(s) == SelectSeq(s, LAMBDA c : c \notin Unprintable)

\* Spec 8: the row an insert stores reads back as the entity's original
\* field values.  quote must double every quote and keep the literal
\* closed, and get_sql must line the names up with the values, for the
\* lexer to give back the command text, the exit code and the tty.
InsertRoundTrip ==
    \A i \in DOMAIN history :
       /\ history[i].status # "rejected"
       /\ history[i].status = "stored" =>
            /\ history[i].row.command = SqlText(Stripped(history[i].text))
            /\ history[i].row.rval = SqlText(<<IntToString(history[i].rval)>>)
            /\ history[i].row.tty = SqlText(<<"pts">>)

\* The cwd column of a stored command is the directory the command was
\* started in: OLDPWD after a "cd" that changed directory, the current
\* directory after any other command.
CwdIsWhereItRan ==
    \A i \in DOMAIN history :
       history[i].status = "stored" =>
          history[i].row.cwd = SqlText(<<history[i].dir>>)

====
