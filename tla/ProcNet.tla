------------------------------ MODULE ProcNet ------------------------------
(***************************************************************************)
(* The reader of /proc/net/{tcp,udp,tcp6,udp6} (src/proc_net.c) and the    *)
(* way main shares its array of entries out among the four files.          *)
(*                                                                         *)
(* A line is the sequence of its lexemes, a format the sequence of its     *)
(* directives.  What a number is does not matter, only whether sscanf gets *)
(* as far as assigning it.                                                 *)
(***************************************************************************)
EXTENDS Integers, Sequences, FiniteSets

\* A line as the kernel prints it, "0: 0100007F:0050 00000000:0000 0A ...":
\* the slot, two addresses with ports, the state, the queues, the timer, the
\* retransmits, then uid, timeout and inode.  No blank precedes a colon.
SocketLine ==
    <<"dec", ":", "hex", ":", "hex", "hex", ":", "hex", "hex",
      "hex", ":", "hex", "hex", ":", "hex", "hex", "dec", "dec", "dec">>

\* " %*d %x:%x %x:%x %x %x:%x %*x:%x %*x %*d %*d %u %u"
Format ==
    <<"*d", "x", ":", "x", "x", ":", "x", "x",
      "x", ":", "x", "*x", ":", "x", "*x", "*d", "*d", "u", "u">>

\* sscanf: a conversion skips blanks and takes one number, a literal has to
\* be there.
Accepts(directive, lexeme) ==
    CASE directive = ":"           -> lexeme = ":"
      [] directive \in {"x", "*x"} -> lexeme \in {"dec", "hex"}
      [] OTHER                     -> lexeme = "dec"

\* The value of sscanf: the conversions assigned before the first mismatch.
Scan(format, line) ==
    Cardinality({i \in DOMAIN format :
       /\ format[i] \in {"x", "u"}
       /\ \A j \in 1 .. i : j <= Len(line) /\ Accepts(format[j], line[j])})

\* The number of entries parse_proc_net_file stores for the lines behind the
\* heading: a line with fewer than five values is passed over.
parse_proc_net_file(lines, max_entries) ==
    LET good == {i \in DOMAIN lines : Scan(Format, lines[i]) >= 5} IN
    IF Cardinality(good) <= max_entries THEN Cardinality(good) ELSE max_entries

Files == {"tcp", "udp", "tcp6", "udp6"}

\* main's four reads, with the lines each file shows: a protocol family
\* shares one quarter of the array.
ReadAll(shown, quarter) ==
    LET Read(file, max) ==
            parse_proc_net_file([i \in 1 .. shown[file] |-> SocketLine], max)
        tcp4 == Read("tcp", quarter)
        udp4 == Read("udp", quarter - tcp4)
        tcp6 == Read("tcp6", quarter)
        udp6 == Read("udp6", quarter - tcp6)
    IN  tcp4 + udp4 + tcp6 + udp6
=============================================================================
