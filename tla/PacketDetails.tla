---------------------------- MODULE PacketDetails ----------------------------
(***************************************************************************)
(* src/core/PacketDetails.h: what a packet remembers of its headers while  *)
(* they are parsed from the outside in, and the key and the hash by which  *)
(* both directions of a flow are recognised.                               *)
(*                                                                         *)
(* A header is [type, off, src, dst, next]: where it lies in the packet,   *)
(* its two addresses (of a tag: its two bytes; of ISUP: the low and the    *)
(* high part of its circuit) and what lies in memory behind the first one, *)
(* which is the second one except in Ethernet, where the type and the      *)
(* payload follow the source address.  Addresses are small numbers: the    *)
(* code only orders, compares and adds them.                               *)
(*                                                                         *)
(* A layer's `hdr' is not in the code: the header that the layer is for.   *)
(***************************************************************************)
EXTENDS Integers, Sequences, FiniteSets, FiniteSetsExt

CONSTANTS Builds,       \* ways to configure the program, each with packets it meets:
                        \* [types, first, layersMax, flowAddrSize, values, maxHeaders]
          Follows,      \* <<s, t>>: a header of kind t may follow one of kind s
          Gaps,         \* how far behind a header of each kind the next may lie
          UnmixedTags   \* are headers of layer 2 pushed unmixed?

VARIABLES build,    \* one of Builds
          hdrs,     \* the headers of the packet so far
          layers,   \* layers[]: <<type, offset, mix>> of the headers kept
          cnt,      \* layers2Cnt, layers3Cnt, layers4Cnt
          more,     \* more2Layers, more3Layers, more4Layers
          last,     \* lastIpLayer, lastMtpLayer, lastM3uaLayer
          hashed    \* the headers whose addresses are in flowHash

vars == <<build, hdrs, layers, cnt, more, last, hashed>>

------------------------------------------------------------------------------
Types == build.types                    \* the kinds of headers that occur
First == build.first                    \* the kinds a packet may begin with
LayersMax == build.layersMax            \* layers2Max, layers3Max and layers4Max
FlowAddrSize == build.flowAddrSize      \* CONFIG_FLOWADDR_SIZE
Values == build.values                  \* the addresses
MaxHeaders == build.maxHeaders          \* bound: headers of a packet

Tags == {"Vlan", "Mpls"}                \* up to _Bidir in enum Type
TypeLength == [Vlan |-> 2, Mpls |-> 2, Eth |-> 12, Ip4 |-> 8, Tcp |-> 4, Udp |-> 4,
               Mtp |-> 4, Mtp3 |-> 4, Isup |-> 1, Sctp |-> 4,
               SctpChunk |-> 0, M2ua |-> 0, M3ua |-> 0]
None == 255                             \* 0xFF
Kinds == DOMAIN TypeLength

(* What the extractors of lib/libstack find behind a header; behind M2UA   *)
(* and SCTP it is their user who looks.                                    *)
EthStack  == {<<"Eth", "Vlan">>, <<"Eth", "Mpls">>, <<"Eth", "Ip4">>, <<"Vlan", "Vlan">>,
              <<"Vlan", "Mpls">>, <<"Vlan", "Ip4">>, <<"Mpls", "Mpls">>, <<"Mpls", "Ip4">>,
              <<"Mpls", "Eth">>}
Ip4Stack  == {<<"Ip4", "Ip4">>, <<"Ip4", "Tcp">>, <<"Ip4", "Udp">>, <<"Ip4", "Sctp">>}
SctpStack == {<<"Sctp", "SctpChunk">>, <<"SctpChunk", "M2ua">>, <<"SctpChunk", "M3ua">>}
MtpStack  == {<<"M2ua", "Mtp3">>, <<"Mtp", "Isup">>, <<"Mtp3", "Isup">>, <<"M3ua", "Isup">>}

(* layersCnt is a uint8_t, and 255 of its values is taken.                 *)
ASSUME BuildsAssumption == \A b \in Builds : /\ b.types \subseteq Kinds /\ b.first \subseteq Kinds
                                             /\ b.layersMax \in [2 .. 4 -> Nat]
                                             /\ b.layersMax[3] > 0 /\ b.layersMax[4] > 0
                                             /\ b.flowAddrSize \in Nat \ {0}
                                             /\ b.values \subseteq Nat
                                             /\ b.maxHeaders \in 0 .. None
ASSUME FollowsAssumption == Follows \subseteq EthStack \cup Ip4Stack \cup SctpStack \cup MtpStack
ASSUME GapsAssumption == Gaps \in [Kinds -> SUBSET Nat]
ASSUME TagsAssumption == UnmixedTags \in BOOLEAN

(* AddrOffset::set: sixteen bits, of which the type and the mix take five. *)
Layer(i, h, mix) == [hdr |-> i, type |-> h.type, off |-> h.off % 2048, mix |-> mix]

(* The addresses a header of kind t may have: <<src, dst, next>>.          *)
AddressesOf(t) == {a \in Values \X Values \X Values :
                      /\ t # "Eth" => a[3] = a[2]
                      /\ t \in {"SctpChunk", "M2ua"} => a = <<0, 0, 0>>}

NextOff == IF hdrs = << >> THEN {0} ELSE {hdrs[Len(hdrs)].off + g : g \in Gaps[hdrs[Len(hdrs)].type]}
NextTypes == IF hdrs = << >> THEN First
             ELSE {t \in Types : <<hdrs[Len(hdrs)].type, t>> \in Follows}
NewHeaders(kinds) ==
    IF Len(hdrs) = MaxHeaders THEN {}
    ELSE UNION {{[type |-> t, off |-> o, src |-> a[1], dst |-> a[2], next |-> a[3]] :
                    a \in AddressesOf(t), o \in NextOff} : t \in NextTypes \cap kinds}

------------------------------------------------------------------------------
Init == /\ build \in Builds
        /\ hdrs = << >>
        /\ layers = << >>
        /\ cnt = [l \in 2 .. 4 |-> 0]
        /\ more = [l \in 2 .. 4 |-> FALSE]
        /\ last = [k \in {"Ip", "Mtp", "M3ua"} |-> None]
        /\ hashed = {}

New == Len(hdrs) + 1

(* Mutant: the outermost layer gives way.                                  *)
OverwrittenFirst(h, l) == /\ layers' = [layers EXCEPT ![1] = Layer(New, h, FALSE)]
                          /\ more' = [more EXCEPT ![l] = TRUE]
                          /\ UNCHANGED cnt

Room(l) == cnt[l] # LayersMax[l]

Kept(h, mix) == layers' = Append(layers, Layer(New, h, mix))
Counted(l) == cnt' = [cnt EXCEPT ![l] = @ + 1] /\ UNCHANGED more
(* No room: the layer that was pushed last gives way.                      *)
Overwritten(h, l) == /\ layers' = [layers EXCEPT ![Len(layers)] = Layer(New, h, FALSE)]
                     /\ more' = [more EXCEPT ![l] = TRUE]
                     /\ UNCHANGED cnt

(* Mutants: a mixed header is added to the hash; the newest IP header is   *)
(* dropped instead of the one before it.                                   *)
HashUnlessMixedAlways(mix) == hashed' = hashed \cup {New}
PushIp4OverDropped(h) ==
    /\ ~Room(3)
    /\ more' = [more EXCEPT ![3] = TRUE]
    /\ hashed' = hashed \cup {New}
    /\ UNCHANGED <<cnt, last, layers>>

HashUnlessMixed(mix) == hashed' = IF mix THEN hashed ELSE hashed \cup {New}

(* pushEth, pushVlan, pushMpls                                             *)
PushTag(h, mix) == /\ Room(2)
                   /\ Kept(h, mix)
                   /\ Counted(2)
                   /\ HashUnlessMixed(mix)
                   /\ UNCHANGED last
PushTagOver == /\ ~Room(2)
               /\ more' = [more EXCEPT ![2] = TRUE]
               /\ UNCHANGED <<layers, cnt, last, hashed>>

PushIp4(h, mix) == /\ Room(3)
                   /\ last' = [last EXCEPT !["Ip"] = Len(layers)]
                   /\ Kept(h, mix)
                   /\ Counted(3)
                   /\ HashUnlessMixed(mix)
PushIp4Over(h) == /\ ~Room(3)
                  /\ Overwritten(h, 3)
                  /\ hashed' = hashed \cup {New}
                  /\ UNCHANGED last

(* pushMtp, pushMtp3                                                       *)
PushMtp(h) == /\ last' = [last EXCEPT !["Mtp"] = Len(layers)]
              /\ hashed' = hashed \cup {New}
              /\ \/ Room(3) /\ Kept(h, FALSE) /\ Counted(3)
                 \/ ~Room(3) /\ Overwritten(h, 3)

(* pushTcp, pushUdp, pushSctp, pushIsup                                    *)
PushPorts(h) == /\ hashed' = hashed \cup {New}
                /\ \/ Room(4) /\ Kept(h, FALSE) /\ Counted(4)
                   \/ ~Room(4) /\ Overwritten(h, 4)
                /\ UNCHANGED last

(* pushSctpChunk, pushM2ua: kept, but counted in none of the counters      *)
PushUncounted(h) == /\ \/ Room(4) /\ Kept(h, FALSE)
                       \/ ~Room(4) /\ UNCHANGED layers
                    /\ UNCHANGED <<cnt, more, last, hashed>>

PushM3ua(h, opc) == /\ last' = [last EXCEPT !["M3ua"] = Len(layers)]
                    /\ hashed' = IF opc THEN hashed \cup {New} ELSE hashed
                    /\ \/ Room(4) /\ Kept(h, FALSE) /\ Counted(4)
                       \/ ~Room(4) /\ UNCHANGED <<layers, cnt, more>>

(* getLayersCnt, which every lookup calls: the last IP layer counts, mixed *)
(* or not, from then on.                                                   *)
LookUp == /\ last["Ip"] # None
          /\ layers' = [layers EXCEPT ![last["Ip"] + 1].mix = FALSE]
          /\ UNCHANGED <<build, hdrs, cnt, more, last, hashed>>

Parsed(h) == hdrs' = Append(hdrs, h) /\ UNCHANGED build

Next == \/ \E h \in NewHeaders(Tags \cup {"Eth"}) :
              Parsed(h) /\ (PushTag(h, ~UnmixedTags) \/ PushTagOver)
        \/ \E h \in NewHeaders({"Ip4"}), mix \in BOOLEAN : Parsed(h) /\ PushIp4(h, mix)
        \/ \E h \in NewHeaders({"Ip4"}) : Parsed(h) /\ PushIp4Over(h)
        \/ \E h \in NewHeaders({"Mtp", "Mtp3"}) : Parsed(h) /\ PushMtp(h)
        \/ \E h \in NewHeaders({"Tcp", "Udp", "Sctp", "Isup"}) : Parsed(h) /\ PushPorts(h)
        \/ \E h \in NewHeaders({"SctpChunk", "M2ua"}) : Parsed(h) /\ PushUncounted(h)
        \/ \E h \in NewHeaders({"M3ua"}), opc \in BOOLEAN : Parsed(h) /\ PushM3ua(h, opc)
        \/ LookUp

Spec == Init /\ [][Next]_vars

------------------------------------------------------------------------------
(* f[1] + ... + f[n]                                                       *)
SumTo(f, n) == LET sum[k \in 0 .. n] == IF k = 0 THEN 0 ELSE sum[k - 1] + f[k]
               IN  sum[n]

(* The lookups.  They go through the layers from the innermost, skip those *)
(* that are mixed, and stop where CONFIG_FLOWADDR_SIZE is exceeded.        *)
LayersCnt == cnt[2] + cnt[3] + cnt[4]
Mixed(k) == layers[k].mix /\ k # last["Ip"] + 1
Bytes(K) == SumTo([k \in DOMAIN layers |-> IF k \in K THEN TypeLength[layers[k].type] ELSE 0],
                  Len(layers))
Within(K) == {k \in K : Bytes({j \in K : j >= k}) <= FlowAddrSize - 1}
InKey == Within({k \in 1 .. LayersCnt : ~Mixed(k)})

(* The layer that decides which side a packet b is from, if there is one.  *)
Differ(h) == TypeLength[h.type] > 1 /\ h.src # h.next
Deciding(b, K) == {k \in K : /\ Differ(b[layers[k].hdr])
                             /\ \A j \in K : j > k => ~Differ(b[layers[j].hdr])}

calcSide(b) == \E k \in Deciding(b, InKey) : b[layers[k].hdr].src > b[layers[k].hdr].next
isSrcLowerAddr(b) ==
    \E k \in Deciding(b, Within({j \in 1 .. LayersCnt : ~Mixed(j) /\ layers[j].type \notin Tags})) :
        b[layers[k].hdr].src < b[layers[k].hdr].next

(* Mutant of fillAddresses and cmpAddresses: ports are never swapped.      *)
AddressesPortsStay(h, side) ==
    IF side \/ TypeLength[h.type] = 4 THEN <<h.src, h.next>> ELSE <<h.next, h.src>>

(* What a header contributes to the key: nothing if its type has no length *)
(* there, one byte of a circuit, else both addresses, the side's first.    *)
Addresses(h, side) == CASE TypeLength[h.type] = 0 -> << >>
                        [] TypeLength[h.type] = 1 -> <<h.src>>
                        [] side /\ TypeLength[h.type] > 1 -> <<h.src, h.next>>
                        [] ~side /\ TypeLength[h.type] > 1 -> <<h.next, h.src>>

fillAddresses(b, side) == [k \in InKey |-> Addresses(b[layers[k].hdr], side)]
cmpAddresses(b, key, side) ==
    DOMAIN key = InKey /\ \A k \in InKey : key[k] = Addresses(b[layers[k].hdr], side)

flowHash(b) == SumTo([i \in DOMAIN hdrs |-> IF i \in hashed THEN b[i].src + b[i].dst ELSE 0],
                     Len(hdrs))

------------------------------------------------------------------------------
(* A header of a packet that goes the other way.                           *)
Back(h) == IF h.type \in Tags \cup {"Isup"} THEN h
           ELSE [h EXCEPT !.src = h.dst, !.dst = h.src,
                          !.next = IF h.type = "Eth" THEN h.next ELSE h.src]

(* The headers that identify the flow: those kept and not mixed, from the  *)
(* innermost, as far as there is room for their addresses.                 *)
Identifying == {layers[k].hdr : k \in Within({j \in DOMAIN layers : ~Mixed(j)})}

Agree(g, h) == g.src = h.src /\ g.dst = h.dst
SameFlow(a, b) == \/ \A i \in Identifying : Agree(a[i], b[i])
                  \/ \A i \in Identifying : Agree(a[i], Back(b[i]))

(* The packets made of the same kinds of headers as this one.              *)
Alike == {[i \in DOMAIN hdrs |-> [hdrs[i] EXCEPT !.src = v[i][1], !.dst = v[i][2], !.next = v[i][3]]] :
             v \in {f \in [DOMAIN hdrs -> Values \X Values \X Values] :
                       \A i \in DOMAIN hdrs : f[i] \in AddressesOf(hdrs[i].type)}}

(* The shape of the state.                                                 *)
TypeOK == /\ cnt \in [2 .. 4 -> Nat] /\ \A l \in 2 .. 4 : cnt[l] <= LayersMax[l]
          /\ more \in [2 .. 4 -> BOOLEAN]
          /\ last \in [{"Ip", "Mtp", "M3ua"} -> 0 .. None]
          /\ hashed \subseteq DOMAIN hdrs
          /\ \A k \in DOMAIN layers : /\ layers[k].hdr \in DOMAIN hdrs
                                      /\ layers[k].type = hdrs[layers[k].hdr].type

(* A packet is found under the key that fillAddresses made of another one  *)
(* exactly if both belong to one flow, in whichever direction, whether the *)
(* sides were told apart by calcSide or by isSrcLowerAddr.                 *)
FlowIdentity ==
    \A b \in Alike :
        /\ cmpAddresses(b, fillAddresses(hdrs, calcSide(hdrs)), calcSide(b)) <=> SameFlow(hdrs, b)
        /\ cmpAddresses(b, fillAddresses(hdrs, isSrcLowerAddr(hdrs)), isSrcLowerAddr(b))
              <=> SameFlow(hdrs, b)

(* FlowIdentity where every layer has addresses to put in the key, that is *)
(* in the stacks without SCTP chunks, M2UA and M3UA.                       *)
AllHaveAddresses == \A k \in DOMAIN layers : TypeLength[layers[k].type] > 0
FlowIdentityOfAddresses == AllHaveAddresses => FlowIdentity

(* The packets of a flow have one hash, so that a table keyed by flowHash  *)
(* finds it from either side, as long as no header had to give way (more   *)
(* does not tell: an M3UA header that finds no room does not set it).      *)
SameFlowSameHash ==
    (hashed \subseteq {layers[k].hdr : k \in DOMAIN layers} /\ Bytes({k \in DOMAIN layers : ~Mixed(k)}) < FlowAddrSize) =>
        \A b \in Alike : SameFlow(hdrs, b) => flowHash(b) = flowHash(hdrs)

(* "always use last IP header": lastIpLayer is the layer of the innermost  *)
(* IP header, however many there are.                                      *)
IpHeaders == {i \in DOMAIN hdrs : hdrs[i].type = "Ip4"}
LastIpKept == IpHeaders # {} => /\ last["Ip"] + 1 \in DOMAIN layers
                                /\ layers[last["Ip"] + 1].hdr = Max(IpHeaders)

(* Whatever gives way, the layers stay in the order of the headers and the *)
(* innermost header with addresses of its own is among them.               *)
Innermost == {i \in DOMAIN hdrs : hdrs[i].type \notin Tags \cup {"Eth", "SctpChunk", "M2ua", "M3ua"}}
InnermostKept == /\ \A j, k \in DOMAIN layers : j < k => layers[j].hdr < layers[k].hdr
                 /\ Innermost # {} => \E k \in DOMAIN layers : layers[k].hdr = Max(Innermost)

(* "src is lower": the side that calcSide returns and fillAddresses takes  *)
(* is set when the source address is the lower one.                        *)
SideMeansLower == \A k \in Deciding(hdrs, InKey) :
                     calcSide(hdrs) <=> hdrs[layers[k].hdr].src < hdrs[layers[k].hdr].next

(* RT_ASSERT(layer < layers2Cnt + layers3Cnt + layers4Cnt): the layers     *)
(* that getIpAddr, getRl and getPc ask for exist.                          *)
LastLayersExist == \A l \in {"Ip", "Mtp", "M3ua"} : last[l] # None => last[l] < LayersCnt

(* RT_ASSERT(offset <= 0x3FFF): an offset that passes it can be kept.      *)
OffsetsKept == \A k \in DOMAIN layers :
                  hdrs[layers[k].hdr].off <= 16383 => layers[k].off = hdrs[layers[k].hdr].off
==============================================================================
