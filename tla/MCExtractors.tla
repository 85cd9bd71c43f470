---------------------------- MODULE MCExtractors ----------------------------
(* The packets of the runs: well formed ones, but for a class of SCCP, a   *)
(* length of a chunk and a length of IP that the code refuses.  The SCCP   *)
(* messages are laid out as the tables of Q.713 in ExtractorSccp.h say.    *)
EXTENDS PacketLayout, SequencesExt

P(kind, size, says, len) == [kind |-> kind, size |-> size, says |-> says, len |-> len]

------------------------------------------------------------------------------
(* Ethernet and IP: chains of headers, each saying which one follows.      *)
Sizes == [Eth |-> {14}, Vlan |-> {4}, Mpls |-> {4}, Ip4 |-> {20, 24}, Tcp |-> {20}, Udp |-> {8}]
Below == [Eth |-> {"Vlan", "Mpls", "Ip4"}, Vlan |-> {"Vlan", "Mpls", "Ip4"},
          Mpls |-> {"Mpls", "Ip4"}, Ip4 |-> {"Ip4", "Tcp", "Udp"}, Tcp |-> {}, Udp |-> {}]
Chain[n \in 1 .. 7] ==
    IF n = 1 THEN {<<"Eth">>}
    ELSE Chain[n - 1] \cup UNION {{Append(c, k) : k \in Below[Last(c)]} : c \in {d \in Chain[n - 1] : Len(d) = n - 1}}
Labels(c) == Cardinality({i \in DOMAIN c : c[i] = "Mpls"})
Tunnel == {<<"Eth", "Mpls", "Mpls", "Mpls", "Eth", "Ip4", "Udp">>}

Says(c, i) == IF i = Len(c) THEN "Other"
              ELSE IF c[i] = "Mpls" /\ c[i + 1] = "Ip4" THEN "Last" ELSE c[i + 1]
Frame(c, options) == [i \in DOMAIN c |->
    P(c[i], IF c[i] = "Ip4" THEN options ELSE Max(Sizes[c[i]]), Says(c, i),
      IF c[i] = "Ip4" THEN 60 ELSE 0)]
Frames == {Frame(c, options) : c \in {d \in Chain[7] : Labels(d) <= 3 /\ Last(d) # "Mpls"} \cup Tunnel,
                               options \in {20, 24}}
          \cup {<<P("Eth", 14, "Ip4", 0), P("Ip4", 24, "Tcp", 20)>>}

------------------------------------------------------------------------------
(* SCCP.                                                                   *)
Mt(name) == P("Mt", 1, name, 0)
Skip(n)  == P("Fixed", n, "", 0)
Class(c) == P("Class", 1, "", c)
Ptr(n)   == P("Ptr", 1, "", n)
Length(n) == P("Length", 1, "", n)
Data(n)  == P("Data", n, "", 0)

Party == {<<P("Ai", 1, "None", 0), P("Gt", 3, "", 0)>>,
          <<P("Ai", 1, "Ssn", 0), P("Ssn", 1, "", 6), P("Gt", 2, "", 0)>>,
          <<P("Ai", 1, "PcSsn", 0), P("Pc", 2, "", 0), P("Ssn", 1, "", 6)>>,
          <<P("Ai", 1, "PcSsn", 0), P("Pc", 2, "", 0), P("Ssn", 1, "", 0)>>}
OneParty == <<P("Ai", 1, "Ssn", 0), P("Ssn", 1, "", 8)>>
Parameter(ps) == <<Length(Bytes(ps))>> \o ps

Optional == {<< >>,
             <<P("Name", 1, "CREDIT", 0), Length(1), Data(1), P("Name", 1, "END", 0)>>,
             <<P("Name", 1, "DATA", 0), Length(3), Data(3), P("Name", 1, "IMP", 0), Length(1),
               Data(1), P("Name", 1, "END", 0)>>}
OptionalPtr(o) == Ptr(IF o = << >> THEN 0 ELSE 1)

Connection ==
    UNION {{<<Mt("CR"), Skip(3), Class(2), Ptr(2), OptionalPtr(o)>> \o Parameter(OneParty) \o o,
            <<Mt("CR"), Skip(3), Class(0), Ptr(2), OptionalPtr(o)>> \o Parameter(OneParty) \o o,
            <<Mt("CC"), Skip(6), Class(3), OptionalPtr(o)>> \o o,
            <<Mt("CREF"), Skip(4), OptionalPtr(o)>> \o o,
            <<Mt("RLSD"), Skip(7), OptionalPtr(o)>> \o o} : o \in Optional}
    \cup {<<Mt("DT1"), Skip(4), Ptr(1)>> \o Parameter(<<Data(2)>>), <<Mt("RLC"), Skip(6)>>,
          <<Mt("IT"), Skip(11)>>, <<Mt("LUDT"), Skip(20)>>}
Connectionless ==
    UNION {{<<Mt("UDT"), Skip(1), Ptr(3), Ptr(5), Ptr(9)>> \o Parameter(OneParty) \o Parameter(q)
                \o Parameter(<<Data(5)>>),
            <<Mt("UDTS"), Skip(1), Ptr(3), Ptr(5), Ptr(9)>> \o Parameter(q) \o Parameter(q)
                \o Parameter(<<Data(5)>>)} : q \in Party}
    \cup UNION {{<<Mt(t), Skip(2), Ptr(4), Ptr(6), Ptr(10), OptionalPtr(o)>> \o Parameter(p)
                   \o Parameter(q) \o Parameter(<<Data(5)>>) \o o} :
                t \in {"XUDT", "XUDTS"}, p \in {OneParty, CHOOSE p \in Party : Len(p) = 2},
                q \in Party, o \in Optional}
SccpPackets == Connection \cup Connectionless

------------------------------------------------------------------------------
(* The layers below SCCP.                                                  *)
IsupPayload == <<P("Isup", 2, "", 0)>>
Mtp3Packets == {<<P("Mtp3", 5, "Sccp", 0)>> \o s : s \in SccpPackets}
        \cup {<<P("Mtp3", 5, "Isup", 0)>> \o IsupPayload, <<P("Mtp3", 5, "Other", 0)>>}
MtpPackets  == {<<P("Mtp", 8, "Isup", 0)>> \o IsupPayload, <<P("Mtp", 8, "Sccp", 0), Mt("RLC"), Skip(6)>>,
         <<P("Mtp", 8, "Other", 0)>>, <<P("Hdlc", 2, "", 0)>>}
Before == {<< >>, <<P("Param", 8, "NoData", 8)>>,
           <<P("Param", 8, "NoData", 8), P("Param", 12, "NoData", 12)>>}
M3uaOf(ps) == <<P("M3ua", 8, "", 8 + Bytes(ps))>> \o ps
M3uaPackets == {M3uaOf(b \o <<P("Param", 16, "Sccp", 16 + Bytes(s))>> \o s) : b \in Before, s \in SccpPackets}
        \cup {M3uaOf(b \o <<P("Param", 16, u, 16)>>) : b \in Before, u \in {"Isup", "Tup"}}
        \cup {M3uaOf(<< >>)}
Some(S) == {s \in S : \E i \in DOMAIN s : s[i].says \in {"UDT", "CC", "Isup"}} \cup {M3uaOf(<< >>)}

ChunkOf(says, s) == <<P("Sctp", 12, "", 0), P("Chunk", 16, says, 16 + Bytes(s))>> \o s
Signalling == {ChunkOf("M2ua", <<P("M2ua", 12, "", 0)>> \o m) : m \in Mtp3Packets}
              \cup {ChunkOf("M3ua", m) : m \in M3uaPackets}
              \cup {ChunkOf("Other", IsupPayload), ChunkOf("Control", << >>),
                    <<P("Sctp", 12, "", 0), P("Chunk", 16, "M3ua", 90)>>}
Bundled == {ChunkOf("M3ua", M3uaOf(b)) \o <<P("Chunk", 16, "M3ua", 16 + Bytes(m))>> \o m :
               b \in Before \ {<< >>}, m \in Some(M3uaPackets)}
OverIp == {<<P("Eth", 14, "Ip4", 0), P("Ip4", 24, "Sctp", 24 + Bytes(s))>> \o s : s \in {ChunkOf("M3ua", m) : m \in Some(M3uaPackets)}}

AllPackets == Frames \cup Signalling \cup Bundled \cup OverIp \cup MtpPackets
ASSUME AllWellFormed ==
    \A p \in AllPackets : WellFormed(p) /\ Open(p) /\ NamesApart(p) /\ NamesOpen(p) /\ PartiesOpen(p)

NoData == {M3uaOf(b) : b \in Before \ {<< >>}}
Padded == {M3uaOf(<<P("Param", 8, "NoData", 7), P("Param", 16, "Sccp", 26)>> \o s) : s \in Connection}
Noise == {[says |-> s, len |-> n] : s \in {"Ip4", "Tcp", "Mpls", "NoData", "Sccp", "UDT", "END", "IMP", "Ssn"},
                                   n \in {0, 1, 9}}
==============================================================================
