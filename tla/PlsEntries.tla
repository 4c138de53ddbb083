----------------------------- MODULE PlsEntries -----------------------------
(***************************************************************************)
(* How idol_pl_parser_add_pls_with_contents() finds the entries of a PLS:  *)
(* its lines go into a hash table, the keys that begin with "file" are     *)
(* counted, and then file1, file2, ... are looked up until as many entries *)
(* have been found.  An entry whose length is negative is a stream and is  *)
(* reported as it is; PlParse has what is done with the others.            *)
(***************************************************************************)
EXTENDS Durations, FiniteSets

CONSTANTS
  UINT_MAX,  \* the greatest guint
  Numbers,   \* the numbers used in keys, as guints: see Line
  Lengths,   \* the values of the lengths
  Contents   \* the files: sequences of lines

ASSUME UintAssumption   == UINT_MAX \in Nat \ {0}
ASSUME NumberAssumption == Numbers \subseteq 0 .. UINT_MAX
ASSUME LengthAssumption == Lengths \subseteq Seq(Token)

\* A line Key=value.  The number of a key is the guint that the code prints, with
\* "%d", as what the key has behind "file", "title" or "length": of a guint above
\* G_MAXINT that is negative, so num is UINT_MAX in file-1.  "named" is a key like
\* Filename, File01 or file4294967295, that begins with "file" but is none of the
\* keys that are looked up; "other" is anything else.
Line ==
  [key : {"file", "title"}, num : Numbers, value : {<<>>}]
    \cup [key : {"length"}, num : Numbers, value : Lengths]
    \cup [key : {"named", "other"}, num : {0}, value : {<<>>}]

ASSUME ContentsAssumption == Contents \subseteq Seq(Line)

VARIABLES
  lines,        \* the lines of the file
  pc,           \* load, find or done
  at,           \* the line that is loaded next
  num_entries,  \* how many keys began with "file"
  entries,      \* the hash table: the line that gave each key its value
  i,            \* the number that is looked up next
  found,        \* found_entries
  reported      \* the entries: the lines of their location and of their title,
                \* their length_num, and whether they are taken for streams

vars == <<lines, pc, at, num_entries, entries, i, found, reported>>

Absent == 0
Lookup(key, n) == IF <<key, n>> \in DOMAIN entries THEN entries[<<key, n>>] ELSE Absent

\* g_hash_table_insert: the last line with a key wins.
Insert(key, n, line) ==
  [k \in DOMAIN entries \cup {<<key, n>>} |-> IF k = <<key, n>> THEN line ELSE entries[k]]

-----------------------------------------------------------------------------
\* Mutant: the first line with a key wins.
LoadFirst ==
  /\ pc = "load" /\ at <= Len(lines)
  /\ LET l == lines[at]
     IN  /\ entries' = IF Lookup(l.key, l.num) = Absent THEN Insert(l.key, l.num, at)
                                                         ELSE entries
         /\ num_entries' = num_entries + (IF l.key \in {"file", "named"} THEN 1 ELSE 0)
  /\ at' = at + 1
  /\ UNCHANGED <<lines, pc, i, found, reported>>

Load ==
  /\ pc = "load" /\ at <= Len(lines)
  /\ LET l == lines[at]
     IN  /\ entries' = Insert(l.key, l.num, at)
         /\ num_entries' = num_entries + (IF l.key \in {"file", "named"} THEN 1 ELSE 0)
  /\ at' = at + 1
  /\ UNCHANGED <<lines, pc, i, found, reported>>

Loaded ==
  /\ pc = "load" /\ at > Len(lines)
  /\ pc' = "find"
  /\ i' = 1
  /\ UNCHANGED <<lines, at, num_entries, entries, found, reported>>

\* No length is a length of 0.
LengthNum(n) ==
  IF Lookup("length", n) = Absent THEN 0 ELSE ParseDuration(lines[Lookup("length", n)].value)

Entry(n) ==
  [num |-> n, file |-> Lookup("file", n), title |-> Lookup("title", n),
   length |-> LengthNum(n), stream |-> LengthNum(n) < 0]

\* Mutant: the counter is not taken to wrap.
FindWide ==
  /\ pc = "find" /\ found < num_entries
  /\ IF Lookup("file", i) # Absent
     THEN /\ found' = found + 1
          /\ reported' = Append(reported, Entry(i))
     ELSE UNCHANGED <<found, reported>>
  /\ i' = IF i <= UINT_MAX THEN i + 1 ELSE i
  /\ UNCHANGED <<lines, pc, at, num_entries, entries>>

\* One turn of the loop: a number that is missing is passed over.
Find ==
  /\ pc = "find" /\ found < num_entries
  /\ IF Lookup("file", i) # Absent
     THEN /\ found' = found + 1
          /\ reported' = Append(reported, Entry(i))
     ELSE UNCHANGED <<found, reported>>
  /\ i' = (i + 1) % (UINT_MAX + 1)
  /\ UNCHANGED <<lines, pc, at, num_entries, entries>>

Finished ==
  /\ pc = "find" /\ found = num_entries
  /\ pc' = "done"
  /\ UNCHANGED <<lines, at, num_entries, entries, i, found, reported>>

Terminated == pc = "done" /\ UNCHANGED vars

Init ==
  /\ lines \in Contents
  /\ pc = "load" /\ at = 1 /\ num_entries = 0 /\ entries = [k \in {} |-> Absent]
  /\ i = 0 /\ found = 0 /\ reported = <<>>

Next == Load \/ Loaded \/ Find \/ Finished \/ Terminated

\* The loop runs in one thread and calls nothing that waits.
Spec == Init /\ [][Next]_vars /\ WF_vars(Next)

-----------------------------------------------------------------------------
Keys == {"file", "title", "length", "named", "other"} \X (0 .. UINT_MAX)

EntryType ==
  [num : 0 .. UINT_MAX, file : Nat \ {Absent}, title : Nat, length : Ints, stream : BOOLEAN]

TypeOK ==
  /\ lines \in Seq(Line)
  /\ pc \in {"load", "find", "done"}
  /\ at \in 1 .. Len(lines) + 1
  /\ num_entries \in 0 .. Len(lines)
  /\ i \in 0 .. UINT_MAX
  /\ reported \in Seq(EntryType) /\ found = Len(reported) /\ found <= num_entries
  /\ DOMAIN entries \subseteq Keys /\ \A k \in DOMAIN entries : entries[k] \in DOMAIN lines

\* The last line with this key and number, if there is one.
LastLine(key, n) ==
  LET those == {l \in DOMAIN lines : lines[l].key = key /\ lines[l].num = n}
  IN  IF those = {} THEN Absent ELSE CHOOSE l \in those : \A m \in those : m <= l

\* The numbers that have a location, and those of them that are looked up before n:
\* the order is 1, 2, ..., UINT_MAX, 0, or as the keys have them, 1, 2, ..., G_MAXINT,
\* the negative numbers upwards, 0.
FileNumbers == {n \in 0 .. UINT_MAX : LastLine("file", n) # Absent}
Position(n) == IF n = 0 THEN UINT_MAX + 1 ELSE n
Earlier(n) == {m \in FileNumbers : Position(m) < Position(n)}

\* Every key that is counted is one that will be found, and no other line has it.
Countable ==
  /\ \A l \in DOMAIN lines : lines[l].key # "named"
  /\ \A l, m \in DOMAIN lines :
       (lines[l].key = "file" /\ lines[l] = lines[m]) => l = m

\* The seconds a text stands for: up to three numbers to the base 60 between
\* colons, or two around a point or an m; -1 when it is none of these.
Clock(text, n) ==
  LET clock[m \in 0 .. 3] == IF m = 0 THEN 0 ELSE 60 * clock[m - 1] + text[2 * m - 1][2]
  IN  clock[n]

Parts(text) ==
  LET IsClock(n) == /\ 2 * n - 1 <= Len(text)
                    /\ \A m \in 1 .. 2 * n - 1 : text[m][1] = IF m % 2 = 1 THEN "%d" ELSE ":"
      fields == {n \in 1 .. 3 : IsClock(n)}
  IN  IF fields = {} THEN 0 ELSE CHOOSE n \in fields : \A m \in fields : m <= n

Seconds(text) ==
  LET parts  == Parts(text)
      clock  == Clock(text, parts)
      behind == IF Len(text) > 2 * parts /\ text[2 * parts + 1][1] = "%d"
                THEN <<text[2 * parts][1], text[2 * parts + 1][2]>> ELSE <<"", 0>>
  IN  IF parts = 0 THEN -1
      ELSE IF parts = 1 THEN IF behind[1] \in {".", "m"} THEN 60 * clock + behind[2] ELSE clock
      ELSE IF clock = 0 /\ behind[1] = "." /\ behind[2] > 0 THEN 1 ELSE clock

LengthOf(n) == IF LastLine("length", n) = Absent THEN 0 ELSE Seconds(lines[LastLine("length", n)].value)

\* When the loop is over, every number that has a location was reported, in the
\* order they are looked up, gaps and the order of the lines notwithstanding, with the
\* location, the title and the length that were given last, and as a stream if and
\* only if that length is below zero (unless an int cannot hold it); and if more
\* keys were counted than there are, the counter wrapped around and they were
\* reported again: for the files that count a key too many, and for no others.
EntriesReported ==
  pc = "done" =>
    /\ Cardinality(FileNumbers) <= num_entries
    /\ Len(reported) = num_entries
    /\ \A n \in DOMAIN reported :
         LET r == reported[n]
         IN  /\ r.num \in FileNumbers
             /\ Cardinality(Earlier(r.num)) = (n - 1) % Cardinality(FileNumbers)
             /\ r.file = LastLine("file", r.num) /\ r.title = LastLine("title", r.num)
             /\ LengthOf(r.num) \in Ints =>
                  r.length = LengthOf(r.num) /\ (r.stream <=> LengthOf(r.num) < 0)
    /\ Countable <=> \A m, n \in DOMAIN reported :
                       reported[m].num = reported[n].num => m = n

\* A key that is counted is one that will be found, or none is.
Findable ==
  \/ \E l \in DOMAIN lines : lines[l].key = "file"
  \/ \A l \in DOMAIN lines : lines[l].key # "named"

\* The loop ends for these files and for no others: when all that was counted are
\* keys that merely begin with "file", it looks for them for ever.
EndsIfFindable == (Findable ~> pc = "done") /\ [](pc = "done" => Findable)

=============================================================================
