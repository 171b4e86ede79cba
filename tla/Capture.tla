------------------------------ MODULE Capture ------------------------------
(***************************************************************************)
(* The process and the capture file it writes: the options, the two files, *)
(* the writes of the maintainer.  The loops of the two threads never end,  *)
(* so a run ends when it is killed, or when a write fails, and the next    *)
(* one opens the same file.                                                *)
(*                                                                         *)
(* The file is a sequence of blocks.  A header is one block, a packet is   *)
(* some.                                                                   *)
(***************************************************************************)
EXTENDS Integers, Sequences, SequencesExt

CONSTANTS
  Sizes,      \* of packets, in blocks
  MaxPackets, \* bound on the packets of a run
  MaxRuns     \* bound on the runs

\* A packet is not empty, it has at least its headers.
ASSUME SizesAssumption == Sizes \subseteq Nat \ {0}

VARIABLES
  status,  \* what the process is about to do, or "ended"
  writefd, \* -1, or where the next write goes
  file,    \* the content of the capture file
  run,     \* the number of runs so far
  asked,   \* the packets this run was asked to write, by size
  flawed   \* history: a write of this run did not write all it was given

vars == <<status, writefd, file, run, asked, flawed>>

PcapHdr == [kind |-> "file"]

\* Mutant: the length is that of the whole buffer, the part before offset included.
RecHdr_Whole(n) == [kind |-> "record", incl_len |-> n + 1]

RecHdr(n) == [kind |-> "record", incl_len |-> n]

\* The blocks of the i-th packet of the run.
Packet(i, n) == [b \in 1..n |-> [kind |-> "data", run |-> run, of |-> i, block |-> b]]

Init ==
  /\ status = "options" /\ writefd = -1 /\ file = <<>>
  /\ run = 1 /\ asked = <<>> /\ flawed = FALSE

End == status' = "ended" /\ writefd' = -1

\* parse_options: usage and an option that is missing end the process.
ParseOptions ==
  /\ status = "options"
  /\ \/ status' = "input" /\ UNCHANGED writefd
     \/ End
  /\ UNCHANGED <<file, run, asked, flawed>>

\* pcap_open_offline
OpenInput ==
  /\ status = "input"
  /\ \/ status' = "output" /\ UNCHANGED writefd
     \/ End
  /\ UNCHANGED <<file, run, asked, flawed>>

\* Mutant: the file is positioned at its end.
Opened_AtEnd == Len(file)

\* open without O_TRUNC: what the file holds stays.
Opened == 0

\* pcap_handle_open, the open.  When it fails the process goes on without a file.
OpenOutput ==
  /\ status = "output"
  /\ \/ status' = "header" /\ writefd' = Opened
     \/ status' = "idle" /\ UNCHANGED writefd
  /\ UNCHANGED <<file, run, asked, flawed>>

\* The file after the blocks c have been written at the position of writefd.
Overwritten(c) ==
  [i \in 1..(IF writefd + Len(c) > Len(file) THEN writefd + Len(c) ELSE Len(file)) |->
     IF i \in writefd + 1 .. writefd + Len(c) THEN c[i - writefd] ELSE file[i]]

\* write: all of c, the first n blocks of it, or an error, which is -1.
Write(c, ret) ==
  /\ ret \in -1..Len(c) /\ (writefd = -1 => ret = -1)
  /\ IF ret = -1 THEN UNCHANGED file ELSE file' = Overwritten(SubSeq(c, 1, ret))
  /\ flawed' = (flawed \/ ret # Len(c))

Advanced(ret) == IF ret = -1 THEN writefd ELSE writefd + ret

\* pcap_handle_open, the file header.  Nobody looks at what write returns.
WriteFileHeader ==
  /\ status = "header"
  /\ \E ret \in {-1, 0, 1} : Write(<<PcapHdr>>, ret) /\ writefd' = Advanced(ret)
  /\ status' = "idle" /\ UNCHANGED <<run, asked>>

\* The maintainer has a packet for pcap_handle_write.
HandPacket ==
  /\ status = "idle" /\ Len(asked) < MaxPackets
  /\ \E n \in Sizes : asked' = Append(asked, n)
  /\ status' = "record"
  /\ UNCHANGED <<writefd, file, run, flawed>>

Size == asked[Len(asked)]

\* The record header, again without a look at the result.
WriteRecHdr ==
  /\ status = "record"
  /\ \E ret \in {-1, 0, 1} : Write(<<RecHdr(Size)>>, ret) /\ writefd' = Advanced(ret)
  /\ status' = "packet" /\ UNCHANGED <<run, asked>>

\* A write that wrote less than it should is no failure.
Fails(ret) == ret < 0

\* The packet.  If that fails the process exits.
WritePacket ==
  /\ status = "packet"
  /\ \E ret \in -1..Size :
       /\ Write(Packet(Len(asked), Size), ret)
       /\ IF Fails(ret) THEN End ELSE status' = "idle" /\ writefd' = Advanced(ret)
  /\ UNCHANGED <<run, asked>>

\* A signal, at any moment: the only end of a run that has no failure.
Kill ==
  /\ status # "ended" /\ End
  /\ UNCHANGED <<file, run, asked, flawed>>

\* The program is started again with the same file and mtu.
Rerun ==
  /\ status = "ended" /\ run < MaxRuns
  /\ status' = "options" /\ run' = run + 1 /\ asked' = <<>> /\ flawed' = FALSE
  /\ UNCHANGED <<writefd, file>>

Process ==
  ParseOptions \/ OpenInput \/ OpenOutput \/ WriteFileHeader \/ WriteRecHdr \/ WritePacket

Next == Process \/ HandPacket \/ Kill \/ Rerun

Spec == Init /\ [][Next]_vars

-----------------------------------------------------------------------------
\* The packets that whoever opens the file finds in it, one incl_len after the other.
Recovered ==
  LET From[p \in 1..Len(file) + 1] ==
        IF p > Len(file) THEN <<>>
        ELSE IF file[p].kind # "record" \/ p + file[p].incl_len > Len(file) THEN <<>>
        ELSE <<SubSeq(file, p + 1, p + file[p].incl_len)>> \o From[p + file[p].incl_len + 1]
  IN IF file = <<>> THEN <<>> ELSE From[2]

AskedPackets == [i \in 1..Len(asked) |-> Packet(i, asked[i])]

\* A run that is killed at any moment leaves a file from which all its packets are read
\* back, in order, but at most the last.  So it is for the first run, as long as no
\* write fell short.
KillLosesOnePacket ==
  run = 1 /\ ~flawed =>
    /\ IsPrefix(Recovered, AskedPackets)
    /\ Len(Recovered) >= Len(asked) - 1

\* A later run writes over what the earlier ones left, from the start: its packets come
\* first, though what follows them is the end of an older and longer file.
RerunStartsOver ==
  ~flawed /\ status = "idle" /\ writefd # -1 => IsPrefix(AskedPackets, Recovered)

\* main.c:108, "number of octets of packet saved in file": incl_len of the record the
\* run has just written is what the file has of the packet.
SavedOctets ==
  run = 1 /\ status = "idle" /\ Len(asked) = 1 =>
    \A i \in 1..Len(file) : file[i].kind = "record" => i + file[i].incl_len = Len(file)
=============================================================================
