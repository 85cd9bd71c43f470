---------------------------- MODULE PacketLayout ----------------------------
(***************************************************************************)
(* What a packet is when it is well formed: every header is as long as its *)
(* type, and what it says comes next does; the parameters of an M3UA       *)
(* message fill it, each as long as it says; the fields of an SCCP message *)
(* lie end to end.  Nothing is asked of a header whose word the code does  *)
(* not take: another type, a length that IP or a chunk refuses, a class.   *)
(* The theorems about the extractors are for packets like these.           *)
(***************************************************************************)
EXTENDS Extractors

FirstKinds == {"Eth", "Ip4", "Sctp", "Chunk", "M2ua", "Mtp", "Mtp3", "M3ua", "Hdlc", "Mt"}

(* The packet is made of pieces, and its length fits in a header's.        *)
Pieces == [kind : STRING, size : Nat \ {0}, says : STRING, len : Nat]
Whole(p) == /\ p \in Seq(Pieces)
            /\ p # << >> /\ p[1].kind \in FirstKinds
            /\ Bytes(p) < 65536

Followed(p, i, kind) == i + 1 \in DOMAIN p /\ p[i + 1].kind = kind

(* A piece of some kind lies at the offset o of the packet p.              *)
Lies(p, o, kind) == \E i \in DOMAIN p : StartIn(p, i) = o /\ p[i].kind = kind

Complete(p, i) == Bytes(p) - StartIn(p, i) >= p[i].len

------------------------------------------------------------------------------
(* Ethernet, tags and labels.  Behind two labels and a third that is not   *)
(* the last of its stack lies Ethernet again.                              *)
Label(p, i) == i \in DOMAIN p /\ p[i].kind = "Mpls"
AfterLabel(p, i) == IF p[i].says = "Last" THEN "Ip4"
                    ELSE IF Label(p, i - 1) /\ Label(p, i - 2) THEN "Eth" ELSE "Mpls"

EthLinks(p, i) ==
    p[i].kind = "Eth" => /\ p[i].size = Eth.size
                         /\ p[i].says \in Eth.makes => Followed(p, i, p[i].says)
VlanLinks(p, i) ==
    p[i].kind = "Vlan" => /\ p[i].size = Vlan.size
                          /\ p[i].says \in Vlan.makes => Followed(p, i, p[i].says)
MplsLinks(p, i) ==
    p[i].kind = "Mpls" => p[i].size = Mpls.size /\ Followed(p, i, AfterLabel(p, i))

(* IP, whose size may be any, SCTP and its chunks.                         *)
Ip4Links(p, i) ==
    p[i].kind = "Ip4" /\ p[i].len >= p[i].size /\ p[i].says \in Ip4.makes => Followed(p, i, p[i].says)
SctpLinks(p, i) == p[i].kind = "Sctp" => p[i].size = Sctp.size /\ Followed(p, i, "Chunk")
ChunkLinks(p, i) ==
    p[i].kind = "Chunk" /\ Complete(p, i) =>
        /\ p[i].size = ChunkData.size /\ p[i].len >= ChunkData.size
        /\ p[i].says \in ChunkData.makes => Followed(p, i, p[i].says)

(* MTP and M2UA.                                                           *)
M2uaLinks(p, i) == p[i].kind = "M2ua" => p[i].size = M2ua.size /\ Followed(p, i, "Mtp3")
MtpLinks(p, i) ==
    p[i].kind = "Mtp" /\ p[i].says = "Isup" => p[i].size = Mtp.size /\ Followed(p, i, "Isup")
Mtp3Links(p, i) ==
    p[i].kind = "Mtp3" /\ p[i].says \in Mtp3.makes =>
        p[i].size = Mtp3.size /\ Followed(p, i, IF p[i].says = "Isup" THEN "Isup" ELSE "Mt")

------------------------------------------------------------------------------
(* M3UA.  Behind the parameters from m + 1 to i, none of them data, comes  *)
(* another one while the message lasts, and another chunk at its end.      *)
M3uaLinks(p, m) ==
    p[m].kind = "M3ua" => /\ p[m].size = M3ua.size
                          /\ p[m].len > M3ua.size => Followed(p, m, "Param")
NoDataParam(p, i) == p[i].kind = "Param" /\ p[i].says = "NoData"
ParamLinks(p, i) ==
    p[i].kind = "Param" =>
        /\ p[i].says = "Sccp" => p[i].size = ProtocolData.size /\ Followed(p, i, "Mt")
        /\ p[i].says = "NoData" => p[i].size = p[i].len
NextParam(p, m, i) ==
    p[m].kind = "M3ua" /\ m < i /\ (\A j \in m + 1 .. i : NoDataParam(p, j)) =>
        LET passed == StartIn(p, i + 1) - StartIn(p, m)
        IN  /\ passed < p[m].len => Followed(p, i, "Param")
            /\ passed = p[m].len => Followed(p, i, "Chunk") /\ Complete(p, i + 1)

------------------------------------------------------------------------------
(* SCCP.  The field k of the message m begins at Place(p, m, k), behind    *)
(* the field before: a byte, or a length and as many bytes.                *)
Lengthy == {"Called", "Calling", "Content"}
PartKind(part) == IF part \in Lengthy THEN "Length"
                  ELSE IF part \in {"OPtr", "VPtr"} THEN "Ptr" ELSE part
PartBytes(p, o, part) ==
    IF part \in Lengthy
    THEN 1 + p[CHOOSE i \in DOMAIN p : StartIn(p, i) = o /\ p[i].kind = "Length"].len ELSE 1
Place(p, m, k) ==
    LET message == Layouts[p[m].says]
        place[j \in 1 .. Len(message.parts) + 1] ==
            IF j = 1 THEN StartIn(p, m) + message.fixed
            ELSE place[j - 1] + PartBytes(p, place[j - 1], message.parts[j - 1])
    IN  place[k]

HasFields(p, m) == p[m].kind = "Mt" /\ p[m].says \in DOMAIN Layouts
FieldLies(p, m, k) ==
    LET part == Layouts[p[m].says].parts[k]
        o    == Place(p, m, k)
    IN  /\ Lies(p, o, PartKind(part))
        /\ part = "VPtr" => \A i \in DOMAIN p : StartIn(p, i) = o => p[i].len # 0
        /\ part = "Content" => Lies(p, o + 1, "Data")
PointsTo(p, m, k) == /\ Layouts[p[m].says].parts[k] = "OPtr"
                     /\ \E i \in DOMAIN p : StartIn(p, i) = Place(p, m, k) /\ p[i].len # 0
FieldLinks(p, m) ==
    HasFields(p, m) =>
        LET n == Len(Layouts[p[m].says].parts)
        IN  /\ \A k \in 1 .. n : FieldLies(p, m, k)
            /\ (\E k \in 1 .. n : PointsTo(p, m, k)) => Lies(p, Place(p, m, n + 1), "Name")
            /\ \A i \in DOMAIN p : m < i /\ StartIn(p, i) <= Place(p, m, 1) => p[i].kind # "Chunk"

(* The optional parameters: a name, a length, and as many bytes.           *)
NameLinks(p, i) ==
    p[i].kind = "Name" /\ p[i].says # "END" =>
        p[i].size = 1 /\ Followed(p, i, "Length")
        /\ Lies(p, StartIn(p, i + 1) + 1 + p[i + 1].len, "Name")

------------------------------------------------------------------------------
(* The protocol data of M3UA, and the messages of SCCP, in the packet's    *)
(* first chunk, lie open if no header before hands the packet elsewhere or *)
(* is refused, none is a tag or a label, which the parent may refuse, and  *)
(* the M3UA message is so long.                                            *)
DataIn(p, j) == p[j].kind = "Param" /\ p[j].says # "NoData" /\ j \in TakenOf(p)
MessageIn(p, j) == HasFields(p, j) /\ j \in TakenOf(p)
LeadsOn(p, i) == CASE p[i].kind = "Eth" -> p[i].says \in Eth.makes
                   [] p[i].kind = "Ip4" -> p[i].len >= p[i].size /\ p[i].says \in Ip4.makes
                   [] p[i].kind \in {"Sctp", "M2ua", "M3ua"} -> TRUE
                   [] p[i].kind = "Chunk" -> Complete(p, i) /\ p[i].says \in ChunkData.makes
                   [] p[i].kind = "Mtp3" -> p[i].says = "Sccp"
                   [] p[i].kind = "Param" -> p[i].says \in {"NoData", "Sccp"}
                   [] OTHER -> FALSE
LiesOpen(p, j) ==
    \A i \in 1 .. j - 1 :
        /\ LeadsOn(p, i)
        /\ p[i].kind = "M3ua" => StartIn(p, j) - StartIn(p, i) < p[i].len
Open(p) == (\E j \in DOMAIN p : DataIn(p, j)) => \E j \in DOMAIN p : DataIn(p, j) /\ LiesOpen(p, j)

------------------------------------------------------------------------------
(* Optional parameters are those of one message, which lies open and       *)
(* points to them: none lies before the end of its fields, within the      *)
(* value of another, nor behind the one named END.                         *)
FieldsEnd(p, m) == Place(p, m, Len(Layouts[p[m].says].parts) + 1)
ValueEnd(p, i) == StartIn(p, i + 1) + 1 + p[i + 1].len

NamesApart(p) ==
    \A i \in TakenOf(p), j \in DOMAIN p :
        /\ HasFields(p, i) /\ StartIn(p, j) < FieldsEnd(p, i) =>
              p[j].kind # "Name" /\ (i < j => p[j].kind # "Chunk")
        /\ Named(p, i) /\ i < j /\ StartIn(p, j) < ValueEnd(p, i) => p[j].kind \notin {"Name", "Chunk"}
        /\ p[i].kind = "Name" /\ p[i].says = "END" /\ i < j => ~Named(p, j)
HasNames(p, m) == p[m].says \in Walked /\ \E k \in DOMAIN Layouts[p[m].says].parts : PointsTo(p, m, k)
NamesOpen(p) ==
    (\E i \in DOMAIN p : Named(p, i)) =>
        \E m \in DOMAIN p : MessageIn(p, m) /\ LiesOpen(p, m) /\ HasNames(p, m)

(* Two addresses are the parties of a unitdata message that lies open.     *)
(* The second, b, is the calling party; if its indicator says so, it has a *)
(* subsystem number, perhaps behind a point code, and nothing behind it    *)
(* has another.                                                            *)
NumberPlace(p, b) == StartIn(p, b) + IF p[b].says = "PcSsn" THEN 3 ELSE 1
NumbersBehind(p, b) == {s \in TakenOf(p) : b < s /\ p[s].kind = "Ssn"}
Numbered(p, b) ==
    IF p[b].says \in {"Ssn", "PcSsn"}
    THEN \E s \in NumbersBehind(p, b) : StartIn(p, s) = NumberPlace(p, b) /\ NumbersBehind(p, b) = {s}
    ELSE NumbersBehind(p, b) = {}
Parties(p, m) ==
    \E c \in DOMAIN Layouts[p[m].says].parts, a, b \in AddressesIn(p) :
        /\ Layouts[p[m].says].parts[c] = "Calling"
        /\ AddressesIn(p) = {a, b} /\ a < b
        /\ StartIn(p, b) = Place(p, m, c) + 1
        /\ Numbered(p, b)
PartiesOpen(p) ==
    Cardinality(AddressesIn(p)) = 2 =>
        \E m \in DOMAIN p : MessageIn(p, m) /\ LiesOpen(p, m) /\ Parties(p, m)

------------------------------------------------------------------------------
WellFormed(p) ==
    /\ Whole(p)
    /\ \A i \in DOMAIN p :
        /\ EthLinks(p, i) /\ VlanLinks(p, i) /\ MplsLinks(p, i) /\ Ip4Links(p, i)
        /\ SctpLinks(p, i) /\ ChunkLinks(p, i) /\ M2uaLinks(p, i) /\ MtpLinks(p, i) /\ Mtp3Links(p, i)
        /\ M3uaLinks(p, i) /\ ParamLinks(p, i) /\ \A j \in DOMAIN p : NextParam(p, i, j)
        /\ FieldLinks(p, i) /\ NameLinks(p, i)
==============================================================================
