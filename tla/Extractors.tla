----------------------------- MODULE Extractors -----------------------------
(***************************************************************************)
(* lib/libstack/Extractor*.h with the headers they are instantiated for:   *)
(* how a packet is taken apart from header to header.  An extractor reads  *)
(* the type or the length of a header, computes where the next one lies    *)
(* and hands the packet, its window moved there, to its PARENT.            *)
(*                                                                         *)
(* A packet is the sequence of the pieces that lie in it end to end, each  *)
(* [kind, size, says, len]: a header, a field of an SCCP message or the    *)
(* content of one, its bytes, what it says comes next (or its value) and   *)
(* its length field.  The code sees none of the pieces' borders: it reads  *)
(* at the offsets it computes.                                             *)
(*                                                                         *)
(* The PARENT, a class that the library leaves to its user, is external:   *)
(* it takes each layer it gets apart in turn and may stop at any tag.      *)
(***************************************************************************)
EXTENDS Integers, Sequences, FiniteSets

CONSTANTS Packets,      \* the packets that arrive
          Anything      \* [says, len] of what is read as a header where none lies

VARIABLES packet,   \* the packet
          at,       \* the kind of header or field that is read next, or how it ended
          base,     \* the window: Ptr::getOffset()
          off,      \* fullSize() of the headers before, or the local `offset'
          tags,     \* how many tags of the kind in `at' there are, that one included
          field,    \* which field of the SCCP message that is: the first is 1
          opt,      \* oParameterPtr is not zero
          ssn,      \* the calling party's subsystem number is not zero
          opc,      \* where PacketDetails was told the point codes are
          walked    \* the names of the optional parameters passed

vars == <<packet, at, base, off, tags, field, opt, ssn, opc, walked>>

------------------------------------------------------------------------------
(* Where the piece i of the packet p begins, and how long the packet is.   *)
StartIn(p, i) == LET sum[k \in 0 .. Len(p)] == IF k = 0 THEN 0 ELSE sum[k - 1] + p[k].size
                 IN  sum[i - 1]
Bytes(p) == StartIn(p, Len(p) + 1)

Start(i) == StartIn(packet, i)
Total == Bytes(packet)

(* What is read at offset o as a header or field of some kind: the piece   *)
(* that begins there, if one of that kind does, else anything; but a data  *)
(* chunk read as a parameter is one with the tag 3 and the chunk's length. *)
PiecesAt(o, kind) == {packet[i] : i \in {j \in DOMAIN packet : Start(j) = o /\ packet[j].kind = kind}}
Read(o, kind) ==
    CASE PiecesAt(o, kind) # {} -> PiecesAt(o, kind)
      [] PiecesAt(o, kind) = {} /\ kind = "Param" /\ PiecesAt(o, "Chunk") # {} ->
            {[c EXCEPT !.says = "NoData"] : c \in PiecesAt(o, "Chunk")}
      [] OTHER -> {[kind |-> kind, size |-> 20, says |-> a.says, len |-> a.len] : a \in Anything}

(* The headers: their size, and what they can say that follows.            *)
Eth  == [size |-> 14, makes |-> {"Ip4", "Vlan", "Mpls"}]
Vlan == [size |-> 4, makes |-> {"Ip4", "Vlan", "Mpls"}]
Mpls == [size |-> 4, makes |-> {"Ip4", "Mpls", "Eth"}]
Ip4  == [makes |-> {"Ip4", "Tcp", "Udp", "Sctp"}]   \* size() is header_len << 2
Sctp == [size |-> 12]
ChunkData == [size |-> 16, makes |-> {"M2ua", "M3ua"}]
M2ua == [size |-> 12]
Mtp  == [size |-> 8]
Mtp3 == [size |-> 5, makes |-> {"Isup", "Sccp"}]
M3ua == [size |-> 8]
ProtocolData == [size |-> 16, opc |-> 4]

Here == base + off
None == -1
Ends == {"returned", "dropped", "asserted", "Tcp", "Udp", "Isup", "Tcap"}

(* make<Header>(): the next header lies behind this one, of n bytes, in    *)
(* the same window.                                                        *)
Make(kind, n) == /\ at' = kind
                 /\ off' = (off + n) % 65536
                 /\ UNCHANGED <<packet, base, field, opt, ssn, opc, walked>>

(* make<Header>().rebase(): the window moves to the next header.           *)
Rebased(kind, n) == /\ at' = kind
                    /\ base' = (base + off + n) % 65536
                    /\ off' = 0
                    /\ tags' = 0

Got(kind, n) == Rebased(kind, n) /\ UNCHANGED <<packet, field, opt, ssn, opc, walked>>

(* return move(header) (returned) or return PktOffset() (dropped)          *)
End(how) == at' = how /\ UNCHANGED <<packet, base, off, tags, field, opt, ssn, opc, walked>>

------------------------------------------------------------------------------
Init == /\ packet \in Packets
        /\ at = packet[1].kind
        /\ base = 0 /\ off = 0 /\ tags = 0
        /\ field = 0
        /\ opt = FALSE /\ ssn = FALSE
        /\ opc = None
        /\ walked = << >>

extractEth == \E h \in Read(Here, "Eth") :
    /\ at = "Eth"
    /\ \/ h.says = "Ip4" /\ Got("Ip4", Eth.size)
       \/ h.says \in Eth.makes \ {"Ip4"} /\ Make(h.says, Eth.size) /\ tags' = 1
       \/ h.says \notin Eth.makes /\ End("returned")

(* Up to two VLAN tags, which the parent may refuse to skip.               *)
extractVlan == \E h \in Read(Here, "Vlan"), skip \in BOOLEAN :
    /\ at = "Vlan"
    /\ \/ skip /\ h.says = "Ip4" /\ Got("Ip4", Vlan.size)
       \/ skip /\ h.says = "Mpls" /\ Make("Mpls", Vlan.size) /\ tags' = 1
       \/ skip /\ h.says = "Vlan" /\ tags < 2 /\ Make("Vlan", Vlan.size) /\ tags' = tags + 1
       \/ skip /\ h.says = "Vlan" /\ tags = 2 /\ End("returned")
       \/ skip /\ h.says \notin Vlan.makes /\ End("returned")
       \/ ~skip /\ End("returned")

(* Up to three labels; what follows the last of the stack is IP, what      *)
(* follows a third that is not the last is taken for Ethernet.             *)
extractMpls == \E h \in Read(Here, "Mpls"), skip \in BOOLEAN :
    /\ at = "Mpls"
    /\ \/ skip /\ h.says = "Last" /\ Got("Ip4", Mpls.size)
       \/ skip /\ h.says # "Last" /\ tags < 3 /\ Make("Mpls", Mpls.size) /\ tags' = tags + 1
       \/ skip /\ h.says # "Last" /\ tags = 3 /\ Got("Eth", Mpls.size)
       \/ ~skip /\ End("returned")

(* Mutant: a header without options.                                       *)
extractIp4Fixed == \E h \in Read(Here, "Ip4") :
    /\ at = "Ip4"
    /\ \/ h.says \in Ip4.makes /\ Got(h.says, 20)
       \/ h.says \notin Ip4.makes /\ End("returned")

(* Ip4::getLength() is total_length.                                       *)
extractIp4 == \E h \in Read(Here, "Ip4") :
    /\ at = "Ip4"
    /\ \/ h.len >= h.size /\ h.says \in Ip4.makes /\ Got(h.says, h.size)
       \/ h.len < h.size /\ End("returned")
       \/ h.says \notin Ip4.makes /\ End("returned")

(* The parent's gotSctp and gotM2ua.                                       *)
gotSctp == at = "Sctp" /\ Got("Chunk", Sctp.size)
gotM2ua == at = "M2ua" /\ Got("Mtp3", M2ua.size)

(* SctpChunkData is made of the chunk's own sublayer, so it lies over the  *)
(* chunk's header, not behind it.                                          *)
extractSctpChunk == \E h \in Read(Here, "Chunk") :
    /\ at = "Chunk"
    /\ \/ Total - Here < h.len /\ End("returned")
       \/ Total - Here >= h.len /\ h.says = "Control" /\ End("dropped")
       \/ Total - Here >= h.len /\ h.says \in ChunkData.makes /\ Got(h.says, ChunkData.size)
       \/ Total - Here >= h.len /\ h.says \notin ChunkData.makes \cup {"Control"} /\ End("returned")

extractHdlc == at = "Hdlc" /\ End("returned")

(* makeSccp() here is returned without a call of gotSccp.                  *)
extractMtp == \E h \in Read(Here, "Mtp") :
    /\ at = "Mtp"
    /\ \/ h.says = "Isup" /\ Got("Isup", Mtp.size)
       \/ h.says # "Isup" /\ End("returned")

extractMtp3 == \E h \in Read(Here, "Mtp3") :
    /\ at = "Mtp3"
    /\ \/ h.says = "Isup" /\ Got("Isup", Mtp3.size)
       \/ h.says = "Sccp" /\ Got("Mt", Mtp3.size)
       \/ h.says \notin Mtp3.makes /\ End("returned")

------------------------------------------------------------------------------
(* extractM3ua.  len is what M3ua::size() returns, the length field.       *)
extractM3ua == \E h \in Read(base, "M3ua") :
    /\ at = "M3ua"
    /\ \/ h.len > M3ua.size /\ at' = "Param" /\ off' = M3ua.size
       \/ h.len <= M3ua.size /\ at' = "returned" /\ UNCHANGED off
    /\ UNCHANGED <<packet, base, tags, field, opt, ssn, opc, walked>>

(* The loop's condition, with which it reads once more at the very end.    *)
InMessage == \E h \in Read(base, "M3ua") : off <= h.len

(* Mutants: point codes looked for at the parameter's tag; another         *)
(* parameter does not move the offset.                                     *)
gotProtocolDataAtTag == \E p \in Read(Here, "Param") :
    /\ at = "Param" /\ InMessage
    /\ p.says # "NoData"
    /\ opc' = Here
    /\ \/ p.says = "Sccp" /\ Rebased("Mt", ProtocolData.size)
       \/ p.says # "Sccp" /\ at' = "dropped" /\ UNCHANGED <<base, off, tags>>
    /\ UNCHANGED <<packet, field, opt, ssn, walked>>
otherParameterStays == \E p \in Read(Here, "Param") :
    /\ at = "Param" /\ InMessage
    /\ p.says = "NoData"
    /\ UNCHANGED vars

(* The protocol data: its point codes are four bytes behind its tag, its   *)
(* payload sixteen.  Only SCCP is handed on.                               *)
gotProtocolData == \E p \in Read(Here, "Param") :
    /\ at = "Param" /\ InMessage
    /\ p.says # "NoData"
    /\ opc' = Here + ProtocolData.opc
    /\ \/ p.says = "Sccp" /\ Rebased("Mt", ProtocolData.size)
       \/ p.says # "Sccp" /\ at' = "dropped" /\ UNCHANGED <<base, off, tags>>
    /\ UNCHANGED <<packet, field, opt, ssn, walked>>

(* Any other parameter is passed over, by its length without padding.      *)
otherParameter == \E p \in Read(Here, "Param") :
    /\ at = "Param" /\ InMessage
    /\ p.says = "NoData"
    /\ off' = (off + p.len) % 65536
    /\ UNCHANGED <<packet, at, base, tags, field, opt, ssn, opc, walked>>

noMoreParameters == at = "Param" /\ ~InMessage /\ End("returned")

------------------------------------------------------------------------------
(* extractSccp: the messages, each with the bytes of its fixed part that   *)
(* are not read, type included, and the fields that are then read one      *)
(* after the other.                                                        *)
ConnectionRequest == [fixed |-> 4, parts |-> <<"Class", "VPtr", "OPtr", "Called">>]
ConnectionConfirm == [fixed |-> 7, parts |-> <<"Class", "OPtr">>]
ConnectionRefused == [fixed |-> 5, parts |-> <<"OPtr">>]
Released          == [fixed |-> 8, parts |-> <<"OPtr">>]
DataForm1         == [fixed |-> 5, parts |-> <<"VPtr", "Called">>]
UnitData          == [fixed |-> 2, parts |-> <<"VPtr", "VPtr", "VPtr", "Called", "Calling", "Content">>]
ExtendedUnitData  ==
    [fixed |-> 3, parts |-> <<"VPtr", "VPtr", "VPtr", "OPtr", "Called", "Calling", "Content">>]

Layouts == [CR |-> ConnectionRequest, CC |-> ConnectionConfirm, CREF |-> ConnectionRefused,
          RLSD |-> Released, DT1 |-> DataForm1, UDT |-> UnitData, UDTS |-> UnitData,
          XUDT |-> ExtendedUnitData, XUDTS |-> ExtendedUnitData]
Walked == {"CR", "CC", "CREF", "RLSD", "XUDT", "XUDTS"}     \* have optional parameters
Broken == {"CR", "UDT", "UDTS", "XUDT", "XUDTS"}            \* whose case ends in a break

(* The kind of piece that is read where the code is at a state of its own. *)
Lengths == {"Called", "Calling", "Content", "OLength"}
KindAt == IF at \in Lengths THEN "Length"
          ELSE IF at = "OPtr" \/ at = "VPtr" THEN "Ptr"
          ELSE IF at = "Tcap" THEN "Data" ELSE at

messageType == \E m \in Read(Here, "Mt") :
    /\ at = "Mt"
    /\ \/ /\ m.says \in DOMAIN Layouts
          /\ at' = Layouts[m.says].parts[1]
          /\ field' = 1
          /\ off' = Layouts[m.says].fixed
       \/ /\ m.says \notin DOMAIN Layouts
          /\ at' = "dropped"
          /\ UNCHANGED <<field, off>>
    /\ UNCHANGED <<packet, base, tags, opt, ssn, opc, walked>>

Message == CHOOSE m \in Read(base, "Mt") : TRUE

(* Past a field of n bytes.  After the last one: on to the optional        *)
(* parameters, if there are any, or out.                                   *)
Outcome == IF Message.says \in Broken THEN "returned" ELSE "dropped"
Parts == Layouts[Message.says].parts
Past(n, optional) ==
    /\ off' = (off + n) % 65536
    /\ field' = field + 1
    /\ at' = IF field < Len(Parts) THEN Parts[field + 1]
             ELSE IF optional /\ Message.says \in Walked THEN "Name" ELSE Outcome
    /\ UNCHANGED <<packet, base, tags, opc, walked>>

(* LS_ASSERT(protocolClass == 2 || protocolClass == 3)                     *)
protocolClass == \E c \in Read(Here, "Class") :
    /\ at = "Class"
    /\ \/ c.len \in {2, 3} /\ Past(1, opt) /\ UNCHANGED <<opt, ssn>>
       \/ c.len \notin {2, 3} /\ End("asserted")

(* LS_ASSERT(vParameterPtr)                                                *)
vParameterPtr == \E p \in Read(Here, "Ptr") :
    /\ at = "VPtr"
    /\ \/ p.len # 0 /\ Past(1, opt) /\ UNCHANGED <<opt, ssn>>
       \/ p.len = 0 /\ End("asserted")

oParameterPtr == \E p \in Read(Here, "Ptr") :
    /\ at = "OPtr"
    /\ opt' = (p.len # 0)
    /\ Past(1, p.len # 0)
    /\ UNCHANGED ssn

vParameter == \E l \in Read(Here, "Length") :
    /\ at = "Called"
    /\ Past(1 + l.len, opt)
    /\ UNCHANGED <<opt, ssn>>

(* Mutant: getSsn does not skip the point code.                            *)
getSsnNoPointCode(o) ==
    UNION {IF a.says \in {"Ssn", "PcSsn"} THEN {s.len # 0 : s \in Read(o + 1, "Ssn")}
           ELSE {FALSE} : a \in Read(o, "Ai")}

(* getSsn of the address at o: its indicator, a point code if that says    *)
(* so, then the subsystem number.                                          *)
getSsn(o) ==
    UNION {CASE a.says = "PcSsn" -> {s.len # 0 : s \in Read(o + 3, "Ssn")}
             [] a.says = "Ssn"   -> {s.len # 0 : s \in Read(o + 1, "Ssn")}
             [] OTHER            -> {FALSE} : a \in Read(o, "Ai")}

callingParty == \E l \in Read(Here, "Length") :
    /\ at = "Calling"
    /\ ssn' \in getSsn(Here + 1)
    /\ Past(1 + l.len, opt)
    /\ UNCHANGED opt

(* The third parameter of the unitdata messages is TCAP if the calling     *)
(* party has a subsystem number.                                           *)
content == \E l \in Read(Here, "Length") :
    /\ at = "Content"
    /\ \/ ssn /\ Got("Tcap", 1)
       \/ ~ssn /\ Past(1 + l.len, opt) /\ UNCHANGED <<opt, ssn>>

(* Mutant: the length is not counted itself.                               *)
optionalLengthShort == \E l \in Read(Here, "Length") :
    /\ at = "OLength"
    /\ at' = "Name" /\ off' = (off + l.len) % 65536
    /\ UNCHANGED <<packet, base, tags, field, opt, ssn, opc, walked>>

(* gotOptionalParameter: names and lengths, up to the name P_END.          *)
optionalName == \E n \in Read(Here, "Name") :
    /\ at = "Name"
    /\ \/ n.says = "END" /\ at' = "dropped" /\ UNCHANGED <<off, walked>>
       \/ /\ n.says # "END"
          /\ at' = "OLength"
          /\ off' = (off + 1) % 65536
          /\ walked' = Append(walked, n.says)
    /\ UNCHANGED <<packet, base, tags, field, opt, ssn, opc>>
optionalLength == \E l \in Read(Here, "Length") :
    /\ at = "OLength"
    /\ at' = "Name" /\ off' = (off + 1 + l.len) % 65536
    /\ UNCHANGED <<packet, base, tags, field, opt, ssn, opc, walked>>

------------------------------------------------------------------------------
Step == \/ extractEth \/ extractVlan \/ extractMpls \/ extractIp4
        \/ gotSctp \/ extractSctpChunk \/ gotM2ua \/ extractHdlc \/ extractMtp \/ extractMtp3
        \/ extractM3ua \/ gotProtocolData \/ otherParameter \/ noMoreParameters
        \/ messageType \/ protocolClass \/ vParameterPtr \/ oParameterPtr
        \/ vParameter \/ callingParty \/ content \/ optionalName \/ optionalLength

Ended == at \in Ends /\ UNCHANGED vars

Next == Step \/ Ended

(* An extractor runs to its return.                                        *)
Spec == Init /\ [][Next]_vars /\ WF_vars(Step)

------------------------------------------------------------------------------
(* The pieces before a second chunk, which is another extraction's.        *)
TakenOf(p) == {i \in DOMAIN p : \A j, k \in 1 .. i : p[j].kind = "Chunk" /\ p[k].kind = "Chunk" => j = k}
Taken == TakenOf(packet)

(* What is read as a header or field of some kind is one: the offsets the  *)
(* code adds up are those of the packet, through tags, options, chunks and *)
(* parameters; so is the payload that is handed on.  The exception is      *)
(* the parameter that the M3UA loop reads behind the end of a message.     *)
(* Only a class that Q.713 does not allow lets an assertion fail.          *)
BehindTheEnd == at = "Param" /\ \E h \in Read(base, "M3ua") : off >= h.len
InStep == /\ \/ at \notin {"returned", "dropped", "asserted"} /\ PiecesAt(Here, KindAt) # {}
             \/ at \in {"returned", "dropped", "asserted"}
             \/ BehindTheEnd
          /\ at = "asserted" => \E i \in Taken : packet[i].kind = "Class" /\ packet[i].len \notin {2, 3}

(* The point codes that PacketDetails keeps of an M3UA message are those   *)
(* of its protocol data, whatever parameters come before it; they are kept *)
(* of every message that has such data and of no other.                    *)
DataPlaces == {Start(i) + 4 : i \in {j \in Taken : packet[j].kind = "Param" /\ packet[j].says # "NoData"}}
OpcOfData == at \in Ends => IF DataPlaces = {} THEN opc = None ELSE opc \in DataPlaces

(* TCAP is handed on exactly when the calling party of a unitdata message, *)
(* the second address in it, has a subsystem number.                       *)
AddressesIn(p) == {i \in TakenOf(p) : p[i].kind = "Ai"}
Addresses == AddressesIn(packet)
CallingParty == CHOOSE i \in Addresses : \E j \in Addresses : j < i
CallingSsn == \E i \in Taken : i > CallingParty /\ packet[i].kind = "Ssn" /\ packet[i].len # 0
TcapIsData == at \in Ends /\ Cardinality(Addresses) = 2 => (at = "Tcap" <=> CallingSsn)

(* Every optional parameter is passed, in order, and nothing else, unless  *)
(* TCAP was found first.                                                   *)
Named(p, i) == p[i].kind = "Name" /\ p[i].says # "END" /\ i \in TakenOf(p)
NamesTo(p, n) == LET names[k \in 0 .. Len(p)] ==
                         IF k = 0 THEN << >>
                         ELSE IF Named(p, k) THEN Append(names[k - 1], p[k].says) ELSE names[k - 1]
                 IN  names[n]
WalkIsParameters == at \in {"dropped", "returned"} => walked = NamesTo(packet, Len(packet))

(* Every extraction returns.                                               *)
Returns == <>(at \in Ends)
==============================================================================
