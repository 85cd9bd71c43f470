------------------------- MODULE PacketDetailsProofs -------------------------
(***************************************************************************)
(* The layers of a packet, its key and its hash, for every configuration   *)
(* and every stack of headers that the extractors can find: the layers     *)
(* that stay describe the innermost headers, and both directions of a flow *)
(* share key and hash.                                                     *)
(*                                                                         *)
(* The argument follows the packet from the outside in.  Tags come first,  *)
(* IP headers next, the others last (Phase), so what gives way to an IP    *)
(* header is the IP layer before it, and a chunk is kept, but not counted, *)
(* only where no other header can push it out (Uncounted): without such a  *)
(* layer the lookups see all layers there are.  Mixed layers are in        *)
(* neither the hash nor the key (Mixes).                                   *)
(***************************************************************************)
EXTENDS PacketDetails, SequenceTheorems, WellFoundedInduction, TLAPS

HeaderType == [type : Kinds, off : Nat, src : Nat, dst : Nat, next : Nat]
LayerType == [hdr : Nat, type : Kinds, off : Nat, mix : BOOLEAN]

Lower == Tags \cup {"Eth"}                                       \* layer 2
Plain == {"Ip4", "Mtp", "Mtp3", "Tcp", "Udp", "Sctp", "Isup"}    \* have addresses of their own
Newest == hdrs[Len(hdrs)].type

Typed == /\ build \in Builds
         /\ hdrs \in Seq(HeaderType) /\ Len(hdrs) <= MaxHeaders
         /\ layers \in Seq(LayerType) /\ Len(layers) <= Len(hdrs)
         /\ cnt \in [2 .. 4 -> Nat] /\ \A l \in 2 .. 4 : cnt[l] <= LayersMax[l]
         /\ more \in [2 .. 4 -> BOOLEAN]
         /\ last \in [{"Ip", "Mtp", "M3ua"} -> 0 .. None]
         /\ hashed \subseteq 1 .. Len(hdrs)

(* The headers are some that the build may meet.                           *)
Addressed(h) == /\ h.src \in Values /\ h.dst \in Values /\ h.next \in Values
                /\ h.type # "Eth" => h.next = h.dst
                /\ h.type \in Types \cup First
Met == \A i \in 1 .. Len(hdrs) : Addressed(hdrs[i])

(* Each layer is for a header of its type, and they are in order.          *)
Sorted == /\ \A k \in 1 .. Len(layers) : /\ layers[k].hdr \in 1 .. Len(hdrs)
                                         /\ layers[k].type = hdrs[layers[k].hdr].type
          /\ \A j, k \in 1 .. Len(layers) : j < k => layers[j].hdr < layers[k].hdr

IsLast(i, I) == i \in I /\ \A j \in I : j <= i

Inner == Innermost # {} => \E k \in 1 .. Len(layers) : IsLast(layers[k].hdr, Innermost)

LastIp == /\ IpHeaders = {} => last["Ip"] = None
          /\ IpHeaders # {} => /\ last["Ip"] + 1 \in 1 .. Len(layers)
                               /\ IsLast(layers[last["Ip"] + 1].hdr, IpHeaders)

(* Layer 2 first, then IP, then the rest.                                  *)
Phase == /\ hdrs = << >> => layers = << >> /\ cnt[2] = 0 /\ cnt[3] = 0 /\ cnt[4] = 0
         /\ hdrs # << >> =>
               /\ Newest \in Lower => cnt[3] = 0 /\ cnt[4] = 0 /\ IpHeaders = {}
               /\ Newest = "Ip4" => cnt[4] = 0 /\ last["Ip"] + 1 = Len(layers)
               /\ Newest \notin Lower \cup {"Ip4"} => (IpHeaders # {} => last["Ip"] + 1 < Len(layers))

(* A layer without addresses among the first n.                            *)
Bare(n) == \E k \in 1 .. n : TypeLength[layers[k].type] = 0
AllCounted == Len(layers) = LayersCnt
Uncounted ==
    /\ LayersCnt <= Len(layers)
    /\ hdrs # << >> =>
          /\ Newest \in Lower \cup {"Ip4", "Tcp", "Udp", "Sctp", "Mtp"} => AllCounted
          /\ Newest = "SctpChunk" => IF Room(4) THEN Bare(Len(layers)) ELSE AllCounted
          /\ Newest = "M2ua" => \/ AllCounted
                                \/ Bare(Len(layers) - 1)
                                \/ cnt[3] = 0 /\ Bare(Len(layers))
          /\ Newest \in {"M3ua", "Mtp3", "Isup"} => AllCounted \/ Bare(Len(layers) - 1)

(* The mixed layers are those of layer 2, unless the program wants those   *)
(* unmixed, and some of IP; none of them is in the hash.                   *)
Mixes == /\ \A k \in 1 .. Len(layers) : layers[k].mix => layers[k].hdr \notin hashed
         /\ ~UnmixedTags => \A k \in 1 .. Len(layers) : layers[k].type \in Lower => layers[k].mix

IInv == /\ Typed /\ Met /\ Sorted /\ Inner
        /\ LastIp /\ Phase /\ Uncounted /\ Mixes

------------------------------------------------------------------------------
(* The kinds of headers, and what comes before which.                      *)

LEMMA KindsAre ==
    /\ Kinds = {"Vlan", "Mpls", "Eth", "Ip4", "Tcp", "Udp", "Mtp", "Mtp3", "Isup",
                "Sctp", "SctpChunk", "M2ua", "M3ua"}
    /\ \A t \in Kinds : TypeLength[t] \in Nat
    /\ \A t \in Kinds : t \in Plain <=> t \notin Tags \cup {"Eth", "SctpChunk", "M2ua", "M3ua"}
    /\ TypeLength["SctpChunk"] = 0 /\ TypeLength["M2ua"] = 0 /\ TypeLength["M3ua"] = 0
  BY DEF Kinds, TypeLength, Plain, Tags

(* s is the kind of the header before one of kind t.                       *)
Precedes(s, t) ==
    /\ t \in Lower => s \in Lower
    /\ t = "Ip4" => s \in Lower \cup {"Ip4"}
    /\ t \in {"Tcp", "Udp", "Sctp"} => s = "Ip4"
    /\ t = "SctpChunk" => s = "Sctp"
    /\ t \in {"M2ua", "M3ua"} => s = "SctpChunk"
    /\ t = "Mtp3" => s = "M2ua"
    /\ t = "Isup" => s \in {"Mtp", "Mtp3", "M3ua"}
    /\ t # "Mtp"

LEMMA StackPrecedes ==
    ASSUME NEW s, NEW t, <<s, t>> \in Follows
    PROVE  Precedes(s, t)
<1>1. <<s, t>> \in EthStack \cup Ip4Stack \cup SctpStack \cup MtpStack
  BY FollowsAssumption
<1>2. CASE <<s, t>> \in EthStack
  BY <1>2 DEF EthStack, Precedes, Lower, Tags
<1>3. CASE <<s, t>> \in Ip4Stack
  BY <1>3 DEF Ip4Stack, Precedes, Lower, Tags
<1>4. CASE <<s, t>> \in SctpStack
  BY <1>4 DEF SctpStack, Precedes, Lower, Tags
<1>5. CASE <<s, t>> \in MtpStack
  BY <1>5 DEF MtpStack, Precedes, Lower, Tags
<1>6. QED
  BY <1>1, <1>2, <1>3, <1>4, <1>5

(* The builds.                                                             *)
LEMMA BuildIs ==
    ASSUME Typed
    PROVE  /\ LayersMax \in [2 .. 4 -> Nat] /\ LayersMax[3] > 0 /\ LayersMax[4] > 0
           /\ FlowAddrSize \in Nat /\ Values \subseteq Nat /\ MaxHeaders \in 0 .. 255
           /\ Types \subseteq Kinds /\ First \subseteq Kinds
  BY BuildsAssumption DEF Typed, LayersMax, FlowAddrSize, Values, MaxHeaders, Types, First, None

(* A header that is parsed next.                                           *)
Arrives(h) == /\ h \in HeaderType /\ Addressed(h)
              /\ Len(hdrs) < MaxHeaders
              /\ hdrs # << >> => Precedes(Newest, h.type)

LEMMA NewHeaderArrives ==
    ASSUME Typed, NEW K, NEW h \in NewHeaders(K)
    PROVE  h.type \in K /\ Arrives(h)
<1>1. /\ Len(hdrs) # MaxHeaders
      /\ h \in UNION {{[type |-> t, off |-> o, src |-> a[1], dst |-> a[2], next |-> a[3]] :
                          a \in AddressesOf(t), o \in NextOff} : t \in NextTypes \cap K}
  BY DEF NewHeaders
<1>2. PICK t \in NextTypes \cap K :
         h \in {[type |-> t, off |-> o, src |-> a[1], dst |-> a[2], next |-> a[3]] :
                   a \in AddressesOf(t), o \in NextOff}
  BY <1>1
<1>3. PICK a \in AddressesOf(t), o \in NextOff :
         h = [type |-> t, off |-> o, src |-> a[1], dst |-> a[2], next |-> a[3]]
  BY <1>2
<1>4. /\ h.type = t /\ h.off = o /\ h.src = a[1] /\ h.dst = a[2] /\ h.next = a[3]
      /\ a[1] \in Values /\ a[2] \in Values /\ a[3] \in Values /\ (t # "Eth" => a[3] = a[2])
  BY <1>3 DEF AddressesOf
<1>5. Len(hdrs) \in Nat /\ (hdrs # << >> => Len(hdrs) \in 1 .. Len(hdrs))
  BY EmptySeq, LenProperties DEF Typed
<1>6. hdrs # << >> => hdrs[Len(hdrs)] \in HeaderType
  BY <1>5, ElementOfSeq DEF Typed
<1>7. o \in Nat
  <2>1. CASE hdrs = << >>
    BY <2>1 DEF NextOff
  <2>2. CASE hdrs # << >>
    <3>1. PICK g \in Gaps[hdrs[Len(hdrs)].type] : o = hdrs[Len(hdrs)].off + g
      BY <2>2 DEF NextOff
    <3>2. hdrs[Len(hdrs)].off \in Nat /\ hdrs[Len(hdrs)].type \in Kinds
      BY <1>6, <2>2 DEF HeaderType
    <3>3. g \in Nat
      BY <3>1, <3>2, GapsAssumption
    <3>4. QED
      BY <3>1, <3>2, <3>3
  <2>3. QED
    BY <2>1, <2>2
<1>8. t \in Types \cup First /\ (hdrs # << >> => <<Newest, t>> \in Follows)
  BY <1>2 DEF NextTypes, Newest
<1>9. t \in Kinds /\ a[1] \in Nat /\ a[2] \in Nat /\ a[3] \in Nat
  BY <1>4, <1>8, BuildIs
<1>10. h \in HeaderType
  BY <1>3, <1>7, <1>9 DEF HeaderType
<1>11. Len(hdrs) < MaxHeaders
  <2>1. PICK m \in Nat : m = MaxHeaders
    BY BuildIs
  <2>2. Len(hdrs) <= m
    BY <2>1 DEF Typed
  <2>3. QED
    BY <1>1, <1>5, <2>1, <2>2
<1>12. hdrs # << >> => Precedes(Newest, h.type)
  BY <1>4, <1>8, StackPrecedes
<1>13. QED
  BY <1>2, <1>4, <1>8, <1>10, <1>11, <1>12 DEF Arrives, Addressed

------------------------------------------------------------------------------
(* What a push does to the layers: one more, one for another, or none.     *)

Grown(h, mix) == layers' = Append(layers, Layer(New, h, mix))
Replaced(h) == layers # << >> /\ layers' = [layers EXCEPT ![Len(layers)] = Layer(New, h, FALSE)]

LevelOf(t) == IF t \in Lower THEN 2 ELSE IF t \in {"Ip4", "Mtp", "Mtp3"} THEN 3 ELSE 4
Loose == {"SctpChunk", "M2ua"}                                   \* kept, but not counted

Added(h, mix) == /\ Room(LevelOf(h.type)) /\ h.type \notin Loose
                 /\ Grown(h, mix)
                 /\ cnt' = [cnt EXCEPT ![LevelOf(h.type)] = @ + 1]
                 /\ mix => hashed' = hashed
                 /\ h.type \in Lower => mix = ~UnmixedTags
Over(h)       == /\ ~Room(LevelOf(h.type)) /\ h.type \in Plain
                 /\ Replaced(h)
                 /\ cnt' = cnt
Extra(h)      == /\ Room(4) /\ h.type \in Loose
                 /\ Grown(h, FALSE)
                 /\ cnt' = cnt
Ignored(h)    == /\ ~Room(LevelOf(h.type)) /\ h.type \notin Plain
                 /\ layers' = layers
                 /\ cnt' = cnt

Placed(h) == (\E mix \in BOOLEAN : Added(h, mix)) \/ Over(h) \/ Extra(h) \/ Ignored(h)

Noted(h) == /\ last' \in [{"Ip", "Mtp", "M3ua"} -> 0 .. None]
            /\ last'["Ip"] = IF h.type = "Ip4" /\ Room(3) THEN Len(layers) ELSE last["Ip"]

Pushed(h) == /\ Arrives(h)
             /\ hdrs' = Append(hdrs, h) /\ build' = build
             /\ Placed(h) /\ Noted(h)
             /\ hashed' \in {hashed, hashed \cup {New}}
             /\ more' \in [2 .. 4 -> BOOLEAN]

LEMMA HeadersNow ==
    ASSUME Typed, NEW h \in HeaderType, hdrs' = Append(hdrs, h)
    PROVE  /\ New \in Nat /\ New > 0 /\ Len(hdrs) \in Nat
           /\ hdrs' \in Seq(HeaderType) /\ Len(hdrs') = New /\ hdrs' # << >>
           /\ hdrs'[New] = h
           /\ \A i \in 1 .. Len(hdrs) : hdrs'[i] = hdrs[i]
           /\ DOMAIN hdrs = 1 .. Len(hdrs) /\ DOMAIN hdrs' = 1 .. New
<1>1. hdrs \in Seq(HeaderType)
  BY DEF Typed
<1>2. /\ Append(hdrs, h) \in Seq(HeaderType) /\ Len(Append(hdrs, h)) = Len(hdrs) + 1
      /\ Append(hdrs, h)[Len(hdrs) + 1] = h
      /\ \A i \in 1 .. Len(hdrs) : Append(hdrs, h)[i] = hdrs[i]
  BY <1>1, AppendProperties
<1>3. Len(hdrs) \in Nat /\ DOMAIN hdrs = 1 .. Len(hdrs)
  BY <1>1, LenProperties
<1>4. /\ hdrs' \in Seq(HeaderType) /\ Len(hdrs') = Len(hdrs) + 1
      /\ hdrs'[Len(hdrs) + 1] = h /\ \A i \in 1 .. Len(hdrs) : hdrs'[i] = hdrs[i]
  BY <1>2
<1>5. DOMAIN hdrs' = 1 .. Len(hdrs) + 1
  BY <1>4, LenProperties
<1>6. hdrs' # << >>
  BY <1>3, <1>4, EmptySeq
<1>7. QED
  BY <1>3, <1>4, <1>5, <1>6 DEF New

LEMMA LayerIs ==
    ASSUME NEW h \in HeaderType, NEW mix \in BOOLEAN, NEW i \in Nat
    PROVE  /\ Layer(i, h, mix) \in LayerType
           /\ Layer(i, h, mix).hdr = i /\ Layer(i, h, mix).type = h.type /\ Layer(i, h, mix).mix = mix
<1>1. h.type \in Kinds /\ h.off \in Nat
  BY DEF HeaderType
<1>2. h.off % 2048 \in Nat
  BY <1>1
<1>3. QED
  BY <1>1, <1>2 DEF Layer, LayerType

LEMMA LayersAre ==
    ASSUME Typed
    PROVE  /\ Len(layers) \in Nat /\ DOMAIN layers = 1 .. Len(layers)
           /\ \A k \in 1 .. Len(layers) : /\ layers[k] \in LayerType /\ layers[k].hdr \in Nat
                                          /\ layers[k].type \in Kinds /\ layers[k].mix \in BOOLEAN
<1>1. Len(layers) \in Nat /\ DOMAIN layers = 1 .. Len(layers)
  BY LenProperties DEF Typed
<1>2. \A k \in 1 .. Len(layers) : layers[k] \in LayerType
  BY ElementOfSeq DEF Typed
<1>3. QED
  BY <1>1, <1>2 DEF LayerType

LEMMA GrownLayers ==
    ASSUME Typed, NEW h \in HeaderType, NEW mix \in BOOLEAN, Grown(h, mix)
    PROVE  /\ layers' \in Seq(LayerType) /\ Len(layers') = Len(layers) + 1
           /\ \A k \in 1 .. Len(layers) : layers'[k] = layers[k]
           /\ layers'[Len(layers) + 1].hdr = New /\ layers'[Len(layers) + 1].type = h.type
           /\ layers'[Len(layers) + 1].mix = mix
<1>1. PICK y \in LayerType : y = Layer(New, h, mix) /\ y.hdr = New /\ y.type = h.type /\ y.mix = mix
  <2>1. New \in Nat
    BY LenProperties DEF Typed, New
  <2>2. QED
    BY <2>1, LayerIs
<1>2. layers \in Seq(LayerType)
  BY DEF Typed
<1>3. /\ Append(layers, y) \in Seq(LayerType) /\ Len(Append(layers, y)) = Len(layers) + 1
      /\ Append(layers, y)[Len(layers) + 1] = y
      /\ \A k \in 1 .. Len(layers) : Append(layers, y)[k] = layers[k]
  BY <1>2, AppendProperties
<1>4. layers' = Append(layers, y)
  BY <1>1 DEF Grown
<1>5. QED
  BY <1>1, <1>3, <1>4

LEMMA ReplacedSeq ==
    ASSUME NEW s \in Seq(LayerType), NEW n \in 1 .. Len(s), NEW y \in LayerType
    PROVE  [s EXCEPT ![n] = y] \in Seq(LayerType) /\ Len([s EXCEPT ![n] = y]) = Len(s)
  BY ExceptSeq

LEMMA ReplacedLayers ==
    ASSUME Typed, NEW h \in HeaderType, Replaced(h)
    PROVE  /\ layers' \in Seq(LayerType) /\ Len(layers') = Len(layers) /\ Len(layers) \in Nat \ {0}
           /\ \A k \in 1 .. Len(layers) - 1 : layers'[k] = layers[k]
           /\ layers'[Len(layers)].hdr = New /\ layers'[Len(layers)].type = h.type
           /\ layers'[Len(layers)].mix = FALSE
<1>1. PICK y \in LayerType : y = Layer(New, h, FALSE) /\ y.hdr = New /\ y.type = h.type /\ y.mix = FALSE
  <2>1. New \in Nat
    BY LenProperties DEF Typed, New
  <2>2. QED
    BY <2>1, LayerIs
<1>2. layers \in Seq(LayerType) /\ layers # << >>
  BY DEF Typed, Replaced
<1>3. PICK n \in Nat \ {0} : n = Len(layers) /\ n \in 1 .. n /\ DOMAIN layers = 1 .. n
  BY <1>2, EmptySeq, LenProperties
<1>4. layers' = [layers EXCEPT ![n] = y]
  BY <1>1, <1>3 DEF Replaced
<1>5. layers' \in Seq(LayerType) /\ Len(layers') = n
  <2>1. n \in 1 .. Len(layers)
    BY <1>3
  <2>2. /\ [layers EXCEPT ![n] = y] \in Seq(LayerType)
        /\ Len([layers EXCEPT ![n] = y]) = Len(layers)
    BY <1>2, <2>1, ReplacedSeq
  <2>3. QED
    BY <1>3, <1>4, <2>2
<1>6. layers'[n] = y
  BY <1>3, <1>4
<1>7. ASSUME NEW k \in 1 .. n - 1 PROVE layers'[k] = layers[k]
  <2>1. k \in 1 .. n /\ k # n
    BY <1>3
  <2>2. QED
    BY <1>3, <1>4, <2>1
<1>8. QED
  BY <1>1, <1>3, <1>5, <1>6, <1>7

(* What a lookup does to the layers: nothing but to their mixes.           *)
LEMMA LookedUpLayers ==
    ASSUME Typed, LookUp
    PROVE  /\ layers' \in Seq(LayerType) /\ Len(layers') = Len(layers)
           /\ \A k \in 1 .. Len(layers) :
                 /\ layers'[k].hdr = layers[k].hdr /\ layers'[k].type = layers[k].type
                 /\ layers'[k].mix => layers[k].mix
                 /\ k # last["Ip"] + 1 => layers'[k].mix = layers[k].mix
<1> DEFINE j == last["Ip"] + 1
<1>1. layers \in Seq(LayerType) /\ j \in Nat
  BY DEF Typed
<1>2. Len(layers) \in Nat /\ DOMAIN layers = 1 .. Len(layers)
  BY LayersAre
<1>3. layers' = [layers EXCEPT ![j].mix = FALSE]
  BY DEF LookUp
<1>4. CASE j \in 1 .. Len(layers)
  <2>1. PICK y : y = [layers[j] EXCEPT !.mix = FALSE]
    OBVIOUS
  <2>2. layers[j] \in LayerType
    BY <1>4, LayersAre
  <2>3. y \in LayerType /\ y.hdr = layers[j].hdr /\ y.type = layers[j].type /\ y.mix = FALSE
    BY <2>1, <2>2 DEF LayerType
  <2>4. layers' = [layers EXCEPT ![j] = y]
    BY <1>3, <2>1
  <2>5. layers' \in Seq(LayerType) /\ Len(layers') = Len(layers)
    BY <1>1, <1>4, <2>3, <2>4, ReplacedSeq
  <2>6. layers'[j] = y /\ \A k \in 1 .. Len(layers) : k # j => layers'[k] = layers[k]
    BY <1>2, <1>4, <2>4
  <2>7. QED
    BY <2>3, <2>5, <2>6
<1>5. CASE j \notin 1 .. Len(layers)
  <2>1. layers' = layers
    BY <1>1, <1>2, <1>3, <1>5
  <2>2. QED
    BY <1>1, <2>1
<1>6. QED
  BY <1>4, <1>5

------------------------------------------------------------------------------
(* Every push is one of these.                                             *)

LEMMA FullIsKept ==
    ASSUME Typed, Uncounted, NEW l \in 3 .. 4, ~Room(l)
    PROVE  layers # << >>
<1>1. cnt[l] > 0
  BY BuildIs DEF Room
<1>2. cnt[2] \in Nat /\ cnt[3] \in Nat /\ cnt[4] \in Nat
  BY DEF Typed
<1>3. LayersCnt > 0
  BY <1>1, <1>2 DEF LayersCnt
<1>4. Len(layers) > 0
  <2>1. LayersCnt \in Nat /\ Len(layers) \in Nat
    BY <1>2, LayersAre DEF LayersCnt
  <2>2. QED
    BY <1>3, <2>1 DEF Uncounted
<1>5. QED
  BY <1>4, EmptySeq

LEMMA LevelIs ==
    ASSUME NEW t
    PROVE  /\ t \in Tags \cup {"Eth"} => LevelOf(t) = 2
           /\ t \in {"Ip4", "Mtp", "Mtp3"} => LevelOf(t) = 3
           /\ t \in {"Tcp", "Udp", "Sctp", "Isup", "SctpChunk", "M2ua", "M3ua"} => LevelOf(t) = 4
  BY DEF LevelOf, Lower, Tags

LEMMA MoreIs ==
    ASSUME Typed, NEW l \in 2 .. 4
    PROVE  [more EXCEPT ![l] = TRUE] \in [2 .. 4 -> BOOLEAN]
  BY DEF Typed

(* A place in layers, before something is added there.                     *)
LEMMA PlaceIs ==
    ASSUME Typed, NEW h, Arrives(h), NEW k \in {"Ip", "Mtp", "M3ua"}
    PROVE  /\ [last EXCEPT ![k] = Len(layers)] \in [{"Ip", "Mtp", "M3ua"} -> 0 .. None]
           /\ [last EXCEPT ![k] = Len(layers)]["Ip"] = IF k = "Ip" THEN Len(layers) ELSE last["Ip"]
           /\ Len(layers) < None
<1>1. Len(hdrs) \in Nat /\ Len(layers) \in Nat
  BY LayersAre, LenProperties DEF Typed
<1>2. Len(layers) <= Len(hdrs)
  BY DEF Typed
<1>3. PICK m \in 0 .. 255 : m = MaxHeaders
  BY BuildIs
<1>4. Len(hdrs) < m
  BY <1>3 DEF Arrives
<1>5. PICK n \in 0 .. None : n = Len(layers) /\ n < None
  <2>1. PICK a \in Nat, b \in Nat : a = Len(hdrs) /\ b = Len(layers)
    BY <1>1
  <2>2. b < 255
    BY <1>2, <1>3, <1>4, <2>1
  <2>3. b \in Nat
    BY <2>1
  <2>4. b \in 0 .. None /\ b < None
    BY <2>2, <2>3 DEF None
  <2>5. QED
    BY <2>1, <2>4
<1>6. last \in [{"Ip", "Mtp", "M3ua"} -> 0 .. None]
  BY DEF Typed
<1>7. [last EXCEPT ![k] = n] \in [{"Ip", "Mtp", "M3ua"} -> 0 .. None]
  BY <1>5, <1>6
<1>8. [last EXCEPT ![k] = n]["Ip"] = IF k = "Ip" THEN n ELSE last["Ip"]
  BY <1>6
<1>9. QED
  BY <1>5, <1>7, <1>8

LEMMA PushedTag ==
    ASSUME Typed, NEW h, Arrives(h), Parsed(h), h.type \in Tags \cup {"Eth"},
           PushTag(h, ~UnmixedTags) \/ PushTagOver
    PROVE  Pushed(h)
<1>1. LevelOf(h.type) = 2 /\ h.type \notin Loose /\ h.type \notin Plain /\ h.type # "Ip4" /\ h.type \in Lower
  BY LevelIs DEF Loose, Plain, Tags, Lower
<1>2. last' = last /\ last \in [{"Ip", "Mtp", "M3ua"} -> 0 .. None]
  BY DEF PushTag, PushTagOver, Typed
<1>3. Noted(h)
  BY <1>1, <1>2 DEF Noted
<1>4. CASE PushTag(h, ~UnmixedTags)
  <2>1. PICK mix \in BOOLEAN : mix = ~UnmixedTags
    BY TagsAssumption
  <2>2. PushTag(h, mix)
    BY <1>4, <2>1
  <2>3. Added(h, mix)
    BY <1>1, <2>1, <2>2 DEF PushTag, Added, Kept, Grown, Counted, HashUnlessMixed
  <2>4. hashed' \in {hashed, hashed \cup {New}} /\ more' \in [2 .. 4 -> BOOLEAN]
    BY <2>2 DEF PushTag, HashUnlessMixed, Counted, Typed
  <2>5. QED
    BY <1>3, <2>3, <2>4 DEF Pushed, Placed, Parsed
<1>5. CASE PushTagOver
  <2>1. Ignored(h)
    BY <1>1, <1>5 DEF PushTagOver, Ignored
  <2>2. hashed' = hashed /\ more' \in [2 .. 4 -> BOOLEAN]
    BY <1>5, MoreIs DEF PushTagOver
  <2>3. QED
    BY <1>3, <2>1, <2>2 DEF Pushed, Placed, Parsed
<1>6. QED
  BY <1>4, <1>5

LEMMA PushedIp4 ==
    ASSUME Typed, Uncounted, NEW h, NEW mix \in BOOLEAN, Arrives(h), Parsed(h), h.type = "Ip4",
           PushIp4(h, mix) \/ PushIp4Over(h)
    PROVE  Pushed(h)
<1>1. LevelOf(h.type) = 3 /\ h.type \notin Loose /\ h.type \in Plain /\ h.type \notin Lower
  BY LevelIs DEF Loose, Plain, Tags, Lower
<1>2. CASE PushIp4(h, mix)
  <2>1. Added(h, mix)
    BY <1>1, <1>2 DEF PushIp4, Added, Kept, Grown, Counted, HashUnlessMixed
  <2>2. hashed' \in {hashed, hashed \cup {New}} /\ more' \in [2 .. 4 -> BOOLEAN]
    BY <1>2 DEF PushIp4, HashUnlessMixed, Counted, Typed
  <2>3. Room(3) /\ last' = [last EXCEPT !["Ip"] = Len(layers)]
    BY <1>2 DEF PushIp4
  <2>4. Noted(h)
    BY <2>3, PlaceIs DEF Noted
  <2>5. QED
    BY <2>1, <2>2, <2>4 DEF Pushed, Placed, Parsed
<1>3. CASE PushIp4Over(h)
  <2>1. ~Room(3) /\ last' = last /\ last \in [{"Ip", "Mtp", "M3ua"} -> 0 .. None]
    BY <1>3 DEF PushIp4Over, Typed
  <2>2. layers # << >>
    BY <2>1, FullIsKept
  <2>3. Over(h)
    BY <1>1, <1>3, <2>2 DEF PushIp4Over, Over, Replaced, Overwritten
  <2>4. hashed' = hashed \cup {New} /\ more' \in [2 .. 4 -> BOOLEAN]
    BY <1>3, MoreIs DEF PushIp4Over, Overwritten
  <2>5. Noted(h)
    BY <2>1 DEF Noted
  <2>6. QED
    BY <2>3, <2>4, <2>5 DEF Pushed, Placed, Parsed
<1>4. QED
  BY <1>2, <1>3

LEMMA PushedMtp ==
    ASSUME Typed, Uncounted, NEW h, Arrives(h), Parsed(h), h.type \in {"Mtp", "Mtp3"}, PushMtp(h)
    PROVE  Pushed(h)
<1>1. /\ LevelOf(h.type) = 3 /\ h.type \notin Loose /\ h.type \in Plain /\ h.type \notin Lower
      /\ h.type # "Ip4"
  BY LevelIs DEF Loose, Plain, Tags, Lower
<1>2. last' = [last EXCEPT !["Mtp"] = Len(layers)] /\ hashed' = hashed \cup {New}
  BY DEF PushMtp
<1>3. Noted(h)
  BY <1>1, <1>2, PlaceIs DEF Noted
<1>4. CASE Room(3)
  <2>1. Kept(h, FALSE) /\ Counted(3)
    BY <1>4 DEF PushMtp
  <2>2. Added(h, FALSE)
    BY <1>1, <1>4, <2>1 DEF Added, Kept, Grown, Counted
  <2>3. more' \in [2 .. 4 -> BOOLEAN]
    BY <2>1 DEF Counted, Typed
  <2>4. QED
    BY <1>2, <1>3, <2>2, <2>3 DEF Pushed, Placed, Parsed
<1>5. CASE ~Room(3)
  <2>1. Overwritten(h, 3)
    BY <1>5 DEF PushMtp
  <2>2. layers # << >>
    BY <1>5, FullIsKept
  <2>3. Over(h)
    BY <1>1, <1>5, <2>1, <2>2 DEF Over, Replaced, Overwritten
  <2>4. more' \in [2 .. 4 -> BOOLEAN]
    BY <2>1, MoreIs DEF Overwritten
  <2>5. QED
    BY <1>2, <1>3, <2>3, <2>4 DEF Pushed, Placed, Parsed
<1>6. QED
  BY <1>4, <1>5

LEMMA PushedPorts ==
    ASSUME Typed, Uncounted, NEW h, Arrives(h), Parsed(h),
           h.type \in {"Tcp", "Udp", "Sctp", "Isup"}, PushPorts(h)
    PROVE  Pushed(h)
<1>1. /\ LevelOf(h.type) = 4 /\ h.type \notin Loose /\ h.type \in Plain /\ h.type \notin Lower
      /\ h.type # "Ip4"
  BY LevelIs DEF Loose, Plain, Tags, Lower
<1>2. last' = last /\ hashed' = hashed \cup {New} /\ last \in [{"Ip", "Mtp", "M3ua"} -> 0 .. None]
  BY DEF PushPorts, Typed
<1>3. Noted(h)
  BY <1>1, <1>2 DEF Noted
<1>4. CASE Room(4)
  <2>1. Kept(h, FALSE) /\ Counted(4)
    BY <1>4 DEF PushPorts
  <2>2. Added(h, FALSE)
    BY <1>1, <1>4, <2>1 DEF Added, Kept, Grown, Counted
  <2>3. more' \in [2 .. 4 -> BOOLEAN]
    BY <2>1 DEF Counted, Typed
  <2>4. QED
    BY <1>2, <1>3, <2>2, <2>3 DEF Pushed, Placed, Parsed
<1>5. CASE ~Room(4)
  <2>1. Overwritten(h, 4)
    BY <1>5 DEF PushPorts
  <2>2. layers # << >>
    BY <1>5, FullIsKept
  <2>3. Over(h)
    BY <1>1, <1>5, <2>1, <2>2 DEF Over, Replaced, Overwritten
  <2>4. more' \in [2 .. 4 -> BOOLEAN]
    BY <2>1, MoreIs DEF Overwritten
  <2>5. QED
    BY <1>2, <1>3, <2>3, <2>4 DEF Pushed, Placed, Parsed
<1>6. QED
  BY <1>4, <1>5

LEMMA PushedUncounted ==
    ASSUME Typed, NEW h, Arrives(h), Parsed(h), h.type \in {"SctpChunk", "M2ua"}, PushUncounted(h)
    PROVE  Pushed(h)
<1>1. /\ LevelOf(h.type) = 4 /\ h.type \in Loose /\ h.type \notin Plain /\ h.type # "Ip4"
  BY LevelIs DEF Loose, Plain
<1>2. /\ last' = last /\ hashed' = hashed /\ cnt' = cnt /\ more' \in [2 .. 4 -> BOOLEAN]
      /\ last \in [{"Ip", "Mtp", "M3ua"} -> 0 .. None]
  BY DEF PushUncounted, Typed
<1>3. Noted(h)
  BY <1>1, <1>2 DEF Noted
<1>4. CASE Room(4) /\ Kept(h, FALSE)
  <2>1. Extra(h)
    BY <1>1, <1>2, <1>4 DEF Extra, Kept, Grown
  <2>2. QED
    BY <1>2, <1>3, <2>1 DEF Pushed, Placed, Parsed
<1>5. CASE ~Room(4) /\ UNCHANGED layers
  <2>1. Ignored(h)
    BY <1>1, <1>2, <1>5 DEF Ignored
  <2>2. QED
    BY <1>2, <1>3, <2>1 DEF Pushed, Placed, Parsed
<1>6. QED
  BY <1>4, <1>5 DEF PushUncounted

LEMMA PushedM3ua ==
    ASSUME Typed, NEW h, NEW opc \in BOOLEAN, Arrives(h), Parsed(h), h.type = "M3ua", PushM3ua(h, opc)
    PROVE  Pushed(h)
<1>1. /\ LevelOf(h.type) = 4 /\ h.type \notin Loose /\ h.type \notin Plain /\ h.type # "Ip4"
      /\ h.type \notin Lower
  BY LevelIs DEF Loose, Plain, Lower, Tags
<1>2. /\ last' = [last EXCEPT !["M3ua"] = Len(layers)]
      /\ hashed' \in {hashed, hashed \cup {New}}
  BY DEF PushM3ua
<1>3. Noted(h)
  BY <1>1, <1>2, PlaceIs DEF Noted
<1>4. CASE Room(4) /\ Kept(h, FALSE) /\ Counted(4)
  <2>1. Added(h, FALSE) /\ more' \in [2 .. 4 -> BOOLEAN]
    BY <1>1, <1>4 DEF Added, Kept, Grown, Counted, Typed
  <2>2. QED
    BY <1>2, <1>3, <2>1 DEF Pushed, Placed, Parsed
<1>5. CASE ~Room(4) /\ UNCHANGED <<layers, cnt, more>>
  <2>1. Ignored(h) /\ more' \in [2 .. 4 -> BOOLEAN]
    BY <1>1, <1>5 DEF Ignored, Typed
  <2>2. QED
    BY <1>2, <1>3, <2>1 DEF Pushed, Placed, Parsed
<1>6. QED
  BY <1>4, <1>5 DEF PushM3ua

(* What a step is: a push, a lookup, or nothing.                           *)
LEMMA EveryStep ==
    ASSUME Typed, Uncounted, [Next]_vars
    PROVE  (\E h : Pushed(h)) \/ LookUp \/ UNCHANGED vars
<1>1. ASSUME NEW h \in NewHeaders(Tags \cup {"Eth"}), Parsed(h), PushTag(h, ~UnmixedTags) \/ PushTagOver
      PROVE  Pushed(h)
  BY <1>1, NewHeaderArrives, PushedTag
<1>2. ASSUME NEW h \in NewHeaders({"Ip4"}), NEW mix \in BOOLEAN, Parsed(h), PushIp4(h, mix) \/ PushIp4Over(h)
      PROVE  Pushed(h)
  <2>1. h.type \in {"Ip4"} /\ Arrives(h)
    BY NewHeaderArrives
  <2>2. QED
    BY <1>2, <2>1, PushedIp4
<1>3. ASSUME NEW h \in NewHeaders({"Mtp", "Mtp3"}), Parsed(h), PushMtp(h)
      PROVE  Pushed(h)
  BY <1>3, NewHeaderArrives, PushedMtp
<1>4. ASSUME NEW h \in NewHeaders({"Tcp", "Udp", "Sctp", "Isup"}), Parsed(h), PushPorts(h)
      PROVE  Pushed(h)
  BY <1>4, NewHeaderArrives, PushedPorts
<1>5. ASSUME NEW h \in NewHeaders({"SctpChunk", "M2ua"}), Parsed(h), PushUncounted(h)
      PROVE  Pushed(h)
  BY <1>5, NewHeaderArrives, PushedUncounted
<1>6. ASSUME NEW h \in NewHeaders({"M3ua"}), NEW opc \in BOOLEAN, Parsed(h), PushM3ua(h, opc)
      PROVE  Pushed(h)
  <2>1. h.type \in {"M3ua"} /\ Arrives(h)
    BY NewHeaderArrives
  <2>2. QED
    BY <1>6, <2>1, PushedM3ua
<1>7. QED
  BY <1>1, <1>2, <1>3, <1>4, <1>5, <1>6 DEF Next

------------------------------------------------------------------------------
(* The state after a push.                                                 *)

(* The header is in the layer behind the m that stay.                      *)
Topped(h, m) ==
    /\ Len(layers') = m + 1
    /\ \A k \in 1 .. m : layers'[k] = layers[k]
    /\ layers'[m + 1].hdr = New /\ layers'[m + 1].type = h.type
    /\ layers'[m + 1].mix => hashed' = hashed
    /\ h.type \in Lower /\ ~UnmixedTags => layers'[m + 1].mix

LEMMA LayersNow ==
    ASSUME Typed, NEW h, Pushed(h)
    PROVE  /\ layers' \in Seq(LayerType)
           /\ (\E mix \in BOOLEAN : Added(h, mix)) => Topped(h, Len(layers))
           /\ Extra(h) => Topped(h, Len(layers))
           /\ Over(h) => Topped(h, Len(layers) - 1) /\ Len(layers) - 1 \in Nat
           /\ Ignored(h) => layers' = layers
<1>1. h \in HeaderType
  BY DEF Pushed, Arrives
<1>2. ASSUME NEW mix \in BOOLEAN, Added(h, mix)
      PROVE  layers' \in Seq(LayerType) /\ Topped(h, Len(layers))
  <2>1. Grown(h, mix)
    BY <1>2 DEF Added
  <2>2. /\ layers' \in Seq(LayerType) /\ Len(layers') = Len(layers) + 1
        /\ \A k \in 1 .. Len(layers) : layers'[k] = layers[k]
        /\ layers'[Len(layers) + 1].hdr = New /\ layers'[Len(layers) + 1].type = h.type
        /\ layers'[Len(layers) + 1].mix = mix
    BY <1>1, <2>1, GrownLayers
  <2>3. (mix => hashed' = hashed) /\ (h.type \in Lower => mix = ~UnmixedTags)
    BY <1>2 DEF Added
  <2>4. QED
    BY <2>2, <2>3 DEF Topped
<1>3. ASSUME Extra(h) PROVE layers' \in Seq(LayerType) /\ Topped(h, Len(layers))
  <2>1. Grown(h, FALSE) /\ h.type \notin Lower
    BY <1>3 DEF Extra, Loose, Lower, Tags
  <2>2. /\ layers' \in Seq(LayerType) /\ Len(layers') = Len(layers) + 1
        /\ \A k \in 1 .. Len(layers) : layers'[k] = layers[k]
        /\ layers'[Len(layers) + 1].hdr = New /\ layers'[Len(layers) + 1].type = h.type
        /\ layers'[Len(layers) + 1].mix = FALSE
    BY <1>1, <2>1, GrownLayers
  <2>3. QED
    BY <2>1, <2>2 DEF Topped
<1>4. ASSUME Over(h)
      PROVE  layers' \in Seq(LayerType) /\ Topped(h, Len(layers) - 1) /\ Len(layers) - 1 \in Nat
  <2>1. Replaced(h) /\ h.type \notin Lower
    BY <1>4 DEF Over, Plain, Lower, Tags
  <2>2. PICK n \in Nat : n = Len(layers) - 1 /\ Len(layers) = n + 1
    <3>1. Len(layers) \in Nat \ {0}
      BY <1>1, <2>1, ReplacedLayers
    <3>2. PICK a \in Nat \ {0} : a = Len(layers)
      BY <3>1
    <3>3. a - 1 \in Nat /\ a = (a - 1) + 1
      OBVIOUS
    <3>4. QED
      BY <3>2, <3>3
  <2>3. /\ layers' \in Seq(LayerType) /\ Len(layers') = Len(layers)
        /\ \A k \in 1 .. Len(layers) - 1 : layers'[k] = layers[k]
        /\ layers'[Len(layers)].hdr = New /\ layers'[Len(layers)].type = h.type
        /\ layers'[Len(layers)].mix = FALSE
    BY <1>1, <2>1, ReplacedLayers
  <2>4. Topped(h, n)
    BY <2>1, <2>2, <2>3 DEF Topped
  <2>5. QED
    BY <2>2, <2>3, <2>4
<1>5. ASSUME Ignored(h) PROVE layers' \in Seq(LayerType) /\ layers' = layers
  BY <1>5 DEF Ignored, Typed
<1>6. QED
  BY <1>2, <1>3, <1>4, <1>5 DEF Pushed, Placed

LEMMA LayersOf ==
    ASSUME Typed, NEW h, Pushed(h)
    PROVE  \/ \E m \in Nat : /\ m <= Len(layers) /\ Len(layers) <= m + 1
                             /\ h.type \notin Plain => m = Len(layers)
                             /\ Topped(h, m)
           \/ layers' = layers /\ h.type \notin Plain
<1>1. Len(layers) \in Nat
  BY LayersAre
<1>2. CASE (\E mix \in BOOLEAN : Added(h, mix)) \/ Extra(h)
  <2>1. Topped(h, Len(layers))
    BY <1>2, LayersNow
  <2>2. QED
    BY <1>1, <2>1
<1>3. CASE Over(h)
  <2>1. PICK m \in Nat : m = Len(layers) - 1 /\ Topped(h, m)
    BY <1>3, LayersNow
  <2>2. m <= Len(layers) /\ Len(layers) <= m + 1
    BY <1>1, <2>1
  <2>3. h.type \in Plain
    BY <1>3 DEF Over
  <2>4. QED
    BY <2>1, <2>2, <2>3
<1>4. CASE Ignored(h)
  BY <1>4 DEF Ignored
<1>5. QED
  BY <1>2, <1>3, <1>4 DEF Pushed, Placed

LEMMA SetsNow ==
    ASSUME Typed, NEW h \in HeaderType, hdrs' = Append(hdrs, h)
    PROVE  /\ Innermost \subseteq 1 .. Len(hdrs) /\ IpHeaders \subseteq 1 .. Len(hdrs)
           /\ h.type \in Plain => Innermost' = Innermost \cup {New}
           /\ h.type \notin Plain => Innermost' = Innermost
           /\ h.type = "Ip4" => IpHeaders' = IpHeaders \cup {New}
           /\ h.type # "Ip4" => IpHeaders' = IpHeaders
<1>1. /\ New \in Nat /\ New > 0 /\ Len(hdrs) \in Nat /\ New = Len(hdrs) + 1
      /\ hdrs'[New] = h
      /\ \A i \in 1 .. Len(hdrs) : hdrs'[i] = hdrs[i]
      /\ DOMAIN hdrs = 1 .. Len(hdrs) /\ DOMAIN hdrs' = 1 .. New
  BY HeadersNow DEF New
<1>2. h.type \in Kinds
  BY DEF HeaderType
<1>3. h.type \in Plain <=> h.type \notin Tags \cup {"Eth", "SctpChunk", "M2ua", "M3ua"}
  BY <1>2, KindsAre
<1>4. 1 .. New = (1 .. Len(hdrs)) \cup {New} /\ New \notin 1 .. Len(hdrs)
  BY <1>1
<1>5. /\ h.type \in Plain => Innermost' = Innermost \cup {New}
      /\ h.type \notin Plain => Innermost' = Innermost
  BY <1>1, <1>3, <1>4 DEF Innermost
<1>6. /\ h.type = "Ip4" => IpHeaders' = IpHeaders \cup {New}
      /\ h.type # "Ip4" => IpHeaders' = IpHeaders
  BY <1>1, <1>4 DEF IpHeaders
<1>7. QED
  BY <1>1, <1>5, <1>6 DEF Innermost, IpHeaders

LEMMA PushKeepsMet ==
    ASSUME Typed, Met, NEW h, Pushed(h)
    PROVE  Met'
<1>1. h \in HeaderType /\ Addressed(h) /\ hdrs' = Append(hdrs, h) /\ build' = build
  BY DEF Pushed, Arrives
<1>2. Values' = Values /\ Types' = Types /\ First' = First
  BY <1>1 DEF Values, Types, First
<1>3. ASSUME NEW i \in 1 .. New
      PROVE  LET g == hdrs'[i] IN /\ g.src \in Values /\ g.dst \in Values /\ g.next \in Values
                                  /\ g.type # "Eth" => g.next = g.dst
                                  /\ g.type \in Types \cup First
  <2>1. CASE i = New
    BY <1>1, <2>1, HeadersNow DEF Addressed
  <2>2. CASE i # New
    <3>1. i \in 1 .. Len(hdrs)
      BY <1>1, <2>2, HeadersNow DEF New
    <3>2. hdrs'[i] = hdrs[i]
      BY <1>1, <3>1, HeadersNow
    <3>3. Addressed(hdrs[i])
      BY <3>1 DEF Met
    <3>4. QED
      BY <3>2, <3>3 DEF Addressed
  <2>3. QED
    BY <2>1, <2>2
<1>4. Len(hdrs') = New
  BY <1>1, HeadersNow
<1>5. QED
  BY <1>2, <1>3, <1>4 DEF Met, Addressed

LEMMA PushKeepsSorted ==
    ASSUME Typed, Sorted, NEW h, Pushed(h)
    PROVE  Sorted'
<1>1. h \in HeaderType /\ hdrs' = Append(hdrs, h)
  BY DEF Pushed, Arrives
<1>2. /\ New \in Nat /\ Len(hdrs) \in Nat /\ New = Len(hdrs) + 1 /\ Len(hdrs') = New
      /\ hdrs'[New] = h /\ \A i \in 1 .. Len(hdrs) : hdrs'[i] = hdrs[i]
  BY <1>1, HeadersNow DEF New
<1>3. /\ Len(layers) \in Nat
      /\ \A k \in 1 .. Len(layers) : /\ layers[k].hdr \in 1 .. Len(hdrs)
                                     /\ layers[k].type = hdrs[layers[k].hdr].type
      /\ \A j, k \in 1 .. Len(layers) : j < k => layers[j].hdr < layers[k].hdr
  BY LayersAre DEF Sorted
<1>4. ASSUME NEW m \in Nat, m <= Len(layers), Topped(h, m) PROVE Sorted'
  <2>1. /\ Len(layers') = m + 1 /\ \A k \in 1 .. m : layers'[k] = layers[k]
        /\ layers'[m + 1].hdr = New /\ layers'[m + 1].type = h.type
    BY <1>4 DEF Topped
  <2>2. ASSUME NEW k \in 1 .. m
        PROVE  /\ layers'[k].hdr \in 1 .. Len(hdrs)
               /\ layers'[k].type = hdrs'[layers'[k].hdr].type
    <3>1. k \in 1 .. Len(layers) /\ layers'[k] = layers[k]
      BY <1>3, <1>4, <2>1
    <3>2. QED
      BY <1>2, <1>3, <3>1
  <2>3. ASSUME NEW k \in 1 .. m + 1
        PROVE  /\ layers'[k].hdr \in 1 .. New
               /\ layers'[k].type = hdrs'[layers'[k].hdr].type
    <3>1. CASE k = m + 1
      BY <1>2, <2>1, <3>1
    <3>2. CASE k # m + 1
      <4>1. k \in 1 .. m
        BY <3>2
      <4>2. QED
        BY <1>2, <2>2, <4>1
    <3>3. QED
      BY <3>1, <3>2
  <2>4. ASSUME NEW j \in 1 .. m + 1, NEW k \in 1 .. m + 1, j < k
        PROVE  layers'[j].hdr < layers'[k].hdr
    <3>1. j \in 1 .. m /\ j \in 1 .. Len(layers)
      BY <1>3, <1>4, <2>4
    <3>2. CASE k = m + 1
      BY <1>2, <2>1, <2>2, <3>1, <3>2
    <3>3. CASE k # m + 1
      <4>1. k \in 1 .. m /\ k \in 1 .. Len(layers)
        BY <1>3, <1>4, <3>3
      <4>2. QED
        BY <1>3, <2>1, <2>4, <3>1, <4>1
    <3>4. QED
      BY <3>2, <3>3
  <2>5. QED
    BY <1>2, <2>1, <2>3, <2>4 DEF Sorted
<1>5. ASSUME layers' = layers PROVE Sorted'
  <2>1. ASSUME NEW k \in 1 .. Len(layers)
        PROVE  layers[k].hdr \in 1 .. New /\ layers[k].type = hdrs'[layers[k].hdr].type
    BY <1>2, <1>3
  <2>2. QED
    BY <1>2, <1>3, <1>5, <2>1 DEF Sorted
<1>6. QED
  BY <1>4, <1>5, LayersOf

LEMMA PushKeepsInner ==
    ASSUME Typed, Inner, NEW h, Pushed(h)
    PROVE  Inner'
<1>1. h \in HeaderType /\ hdrs' = Append(hdrs, h)
  BY DEF Pushed, Arrives
<1>2. New \in Nat /\ Len(hdrs) \in Nat /\ New = Len(hdrs) + 1 /\ Len(layers) \in Nat
  BY <1>1, HeadersNow, LayersAre DEF New
<1>3. /\ Innermost \subseteq 1 .. Len(hdrs)
      /\ h.type \in Plain => Innermost' = Innermost \cup {New}
      /\ h.type \notin Plain => Innermost' = Innermost
  BY <1>1, SetsNow
<1>4. ASSUME h.type \in Plain PROVE Inner'
  <2>1. PICK m \in Nat : Topped(h, m)
    BY <1>4, LayersOf
  <2>2. m + 1 \in 1 .. Len(layers') /\ layers'[m + 1].hdr = New
    BY <2>1 DEF Topped
  <2>3. New \in Innermost' /\ \A j \in Innermost' : j <= New
    <3>1. Innermost' = Innermost \cup {New}
      BY <1>3, <1>4
    <3>2. \A j \in 1 .. Len(hdrs) : j <= New
      BY <1>2
    <3>3. New <= New
      BY <1>2
    <3>4. QED
      BY <1>3, <3>1, <3>2, <3>3
  <2>4. QED
    BY <2>2, <2>3 DEF Inner, IsLast
<1>5. ASSUME h.type \notin Plain PROVE Inner'
  <2>1. SUFFICES ASSUME Innermost # {}
                 PROVE  \E k \in 1 .. Len(layers') : IsLast(layers'[k].hdr, Innermost)
    BY <1>3, <1>5 DEF Inner, IsLast
  <2>2. PICK k \in 1 .. Len(layers) : IsLast(layers[k].hdr, Innermost)
    BY <2>1 DEF Inner
  <2>3. k \in 1 .. Len(layers') /\ layers'[k] = layers[k]
    <3>1. CASE layers' = layers
      BY <3>1
    <3>2. ASSUME Topped(h, Len(layers)) PROVE k \in 1 .. Len(layers') /\ layers'[k] = layers[k]
      BY <1>2, <3>2 DEF Topped
    <3>3. QED
      BY <1>5, <3>1, <3>2, LayersOf
  <2>4. QED
    BY <2>2, <2>3
<1>6. QED
  BY <1>4, <1>5

LEMMA PushKeepsMixes ==
    ASSUME Typed, Sorted, Mixes, NEW h, Pushed(h)
    PROVE  Mixes'
<1>1. h \in HeaderType /\ hdrs' = Append(hdrs, h) /\ hashed' \in {hashed, hashed \cup {New}}
  BY DEF Pushed, Arrives
<1>2. /\ New \in Nat /\ Len(hdrs) \in Nat /\ New = Len(hdrs) + 1 /\ Len(layers) \in Nat
      /\ hashed \subseteq 1 .. Len(hdrs)
  BY <1>1, HeadersNow, LayersAre DEF New, Typed
<1>3. ASSUME NEW k \in 1 .. Len(layers)
      PROVE  /\ layers[k].mix => layers[k].hdr \notin hashed'
             /\ ~UnmixedTags /\ layers[k].type \in Lower => layers[k].mix
  <2>1. layers[k].hdr \in 1 .. Len(hdrs)
    BY DEF Sorted
  <2>2. layers[k].mix => layers[k].hdr \notin hashed
    BY DEF Mixes
  <2>3. layers[k].hdr # New
    BY <1>2, <2>1
  <2>4. QED
    BY <1>1, <2>2, <2>3 DEF Mixes
<1>4. CASE layers' = layers
  BY <1>3, <1>4 DEF Mixes
<1>5. ASSUME NEW m \in Nat, m <= Len(layers), Topped(h, m) PROVE Mixes'
  <2>1. /\ Len(layers') = m + 1 /\ \A k \in 1 .. m : layers'[k] = layers[k]
        /\ layers'[m + 1].hdr = New /\ layers'[m + 1].type = h.type
        /\ layers'[m + 1].mix => hashed' = hashed
        /\ h.type \in Lower /\ ~UnmixedTags => layers'[m + 1].mix
    BY <1>5 DEF Topped
  <2>2. ASSUME NEW k \in 1 .. m + 1
        PROVE  /\ layers'[k].mix => layers'[k].hdr \notin hashed'
               /\ ~UnmixedTags /\ layers'[k].type \in Lower => layers'[k].mix
    <3>1. CASE k = m + 1
      <4>1. New \notin hashed
        BY <1>2
      <4>2. QED
        BY <2>1, <3>1, <4>1
    <3>2. CASE k # m + 1
      <4>1. k \in 1 .. m /\ k \in 1 .. Len(layers)
        BY <1>2, <1>5, <3>2
      <4>2. QED
        BY <1>3, <2>1, <4>1
    <3>3. QED
      BY <3>1, <3>2
  <2>3. QED
    BY <2>1, <2>2 DEF Mixes
<1>6. QED
  BY <1>4, <1>5, LayersOf


LEMMA PushKeepsTyped ==
    ASSUME Typed, NEW h, Pushed(h)
    PROVE  /\ Typed'
           /\ (\E mix \in BOOLEAN : Added(h, mix)) => LayersCnt' = LayersCnt + 1
           /\ \A l \in 2 .. 4 : l # LevelOf(h.type) => cnt'[l] = cnt[l]
           /\ LayersCnt \in Nat /\ LevelOf(h.type) \in 2 .. 4
<1>1. /\ h \in HeaderType /\ hdrs' = Append(hdrs, h) /\ build' = build
      /\ hashed' \in {hashed, hashed \cup {New}} /\ more' \in [2 .. 4 -> BOOLEAN]
      /\ Len(hdrs) < MaxHeaders
  BY DEF Pushed, Arrives
<1>2. /\ New \in Nat /\ Len(hdrs) \in Nat /\ New = Len(hdrs) + 1 /\ Len(layers) \in Nat
      /\ hdrs' \in Seq(HeaderType) /\ Len(hdrs') = New
  BY <1>1, HeadersNow, LayersAre DEF New
<1>3. build' \in Builds /\ LayersMax' = LayersMax /\ MaxHeaders' = MaxHeaders
  BY <1>1 DEF Typed, LayersMax, MaxHeaders
<1>4. Len(hdrs') <= MaxHeaders'
  <2>1. PICK a \in Nat : a = MaxHeaders
    BY BuildIs
  <2>2. QED
    BY <1>1, <1>2, <1>3, <2>1
<1>5. layers' \in Seq(LayerType) /\ Len(layers') <= Len(hdrs')
  <2>1. Len(layers) <= Len(hdrs)
    BY DEF Typed
  <2>2. layers' \in Seq(LayerType)
    BY LayersNow
  <2>3. ASSUME NEW m \in Nat, m <= Len(layers), Topped(h, m) PROVE Len(layers') <= Len(hdrs')
    <3>1. Len(layers') = m + 1
      BY <2>3 DEF Topped
    <3>2. QED
      BY <1>2, <2>1, <2>3, <3>1
  <2>4. ASSUME layers' = layers PROVE Len(layers') <= Len(hdrs')
    BY <1>2, <2>1, <2>4
  <2>5. QED
    BY <2>2, <2>3, <2>4, LayersOf
<1>6. hashed' \subseteq 1 .. Len(hdrs')
  <2>1. hashed \subseteq 1 .. Len(hdrs)
    BY DEF Typed
  <2>2. 1 .. Len(hdrs) \subseteq 1 .. New /\ New \in 1 .. New
    BY <1>2
  <2>3. QED
    BY <1>1, <1>2, <2>1, <2>2
<1>7. PICK l \in 2 .. 4 : l = LevelOf(h.type)
  BY DEF LevelOf
<1>8. /\ cnt \in [2 .. 4 -> Nat] /\ LayersMax \in [2 .. 4 -> Nat]
      /\ \A i \in 2 .. 4 : cnt[i] <= LayersMax[i]
  BY BuildIs DEF Typed
<1>9. ASSUME NEW mix \in BOOLEAN, Added(h, mix)
      PROVE  /\ cnt' \in [2 .. 4 -> Nat] /\ \A i \in 2 .. 4 : cnt'[i] <= LayersMax[i]
             /\ \A i \in 2 .. 4 : i # l => cnt'[i] = cnt[i]
             /\ LayersCnt' = LayersCnt + 1
  <2>1. cnt[l] # LayersMax[l] /\ cnt' = [cnt EXCEPT ![l] = cnt[l] + 1]
    BY <1>7, <1>9 DEF Added, Room
  <2>2. cnt'[l] = cnt[l] + 1 /\ \A i \in 2 .. 4 : i # l => cnt'[i] = cnt[i]
    BY <1>8, <2>1
  <2>3. cnt[l] + 1 \in Nat /\ cnt[l] + 1 <= LayersMax[l]
    BY <1>8, <2>1
  <2>4. cnt' \in [2 .. 4 -> Nat]
    BY <1>8, <2>1, <2>3
  <2>5. cnt'[2] + cnt'[3] + cnt'[4] = cnt[2] + cnt[3] + cnt[4] + 1
    <3>1. l = 2 \/ l = 3 \/ l = 4
      OBVIOUS
    <3>2. cnt[2] \in Nat /\ cnt[3] \in Nat /\ cnt[4] \in Nat
      BY <1>8
    <3>3. QED
      BY <2>2, <3>1, <3>2
  <2>6. QED
    BY <1>8, <2>2, <2>3, <2>4, <2>5 DEF LayersCnt
<1>10. (\E mix \in BOOLEAN : Added(h, mix)) \/ cnt' = cnt
  BY DEF Pushed, Placed, Over, Extra, Ignored
<1>11. last' \in [{"Ip", "Mtp", "M3ua"} -> 0 .. None]
  BY DEF Pushed, Noted
<1>12. /\ cnt' \in [2 .. 4 -> Nat] /\ \A i \in 2 .. 4 : cnt'[i] <= LayersMax[i]
       /\ \A i \in 2 .. 4 : i # l => cnt'[i] = cnt[i]
  BY <1>8, <1>9, <1>10
<1>13. LayersCnt \in Nat
  BY <1>8 DEF LayersCnt
<1>14. Typed'
  BY <1>1, <1>2, <1>3, <1>4, <1>5, <1>6, <1>11, <1>12 DEF Typed
<1>15. QED
  BY <1>7, <1>9, <1>12, <1>13, <1>14

(* Where the last IP layer is if there is no room for the new header: it   *)
(* is what gives way to an IP header, and to no other.                     *)
LEMMA IpBefore ==
    ASSUME Typed, LastIp, Phase, NEW h, Pushed(h), ~Room(LevelOf(h.type))
    PROVE  /\ h.type = "Ip4" => last["Ip"] + 1 = Len(layers)
           /\ h.type \notin Lower \cup {"Ip4"} /\ IpHeaders # {} => last["Ip"] + 1 < Len(layers)
<1>1. h \in HeaderType /\ (hdrs # << >> => Precedes(Newest, h.type)) /\ h.type \in Kinds
  BY DEF Pushed, Arrives, HeaderType
<1>2. cnt[3] \in Nat /\ cnt[4] \in Nat /\ LayersMax[3] > 0 /\ LayersMax[4] > 0
  BY BuildIs DEF Typed
<1>3. ASSUME h.type = "Ip4" PROVE last["Ip"] + 1 = Len(layers)
  <2>1. cnt[3] # 0
    BY <1>2, <1>3, LevelIs DEF Room
  <2>2. hdrs # << >>
    BY <2>1 DEF Phase
  <2>3. Newest \in Lower \cup {"Ip4"}
    BY <1>1, <1>3, <2>2 DEF Precedes
  <2>4. QED
    BY <2>1, <2>2, <2>3 DEF Phase
<1>4. ASSUME h.type \notin Lower \cup {"Ip4"}, IpHeaders # {} PROVE last["Ip"] + 1 < Len(layers)
  <2>1. hdrs # << >>
    BY <1>4 DEF IpHeaders
  <2>2. Newest \notin Lower
    BY <1>4, <2>1 DEF Phase
  <2>3. Newest # "Ip4"
    <3>1. SUFFICES ASSUME Newest = "Ip4" PROVE FALSE
      OBVIOUS
    <3>2. cnt[4] = 0
      BY <2>1, <3>1 DEF Phase
    <3>3. h.type \in {"Tcp", "Udp", "Sctp"}
      BY <1>1, <1>4, <2>1, <3>1, KindsAre DEF Precedes, Lower, Tags
    <3>4. LevelOf(h.type) = 4
      BY <3>3, LevelIs
    <3>5. QED
      BY <1>2, <3>2, <3>4 DEF Room
  <2>4. QED
    BY <1>4, <2>1, <2>2, <2>3 DEF Phase
<1>5. QED
  BY <1>3, <1>4

LEMMA PushKeepsLastIp ==
    ASSUME Typed, LastIp, Phase, NEW h, Pushed(h)
    PROVE  LastIp'
<1>1. h \in HeaderType /\ hdrs' = Append(hdrs, h) /\ h.type \in Kinds /\ Noted(h)
  BY DEF Pushed, Arrives, HeaderType
<1>2. New \in Nat /\ Len(hdrs) \in Nat /\ New = Len(hdrs) + 1 /\ Len(layers) \in Nat
  BY <1>1, HeadersNow, LayersAre DEF New
<1>3. /\ IpHeaders \subseteq 1 .. Len(hdrs)
      /\ h.type = "Ip4" => IpHeaders' = IpHeaders \cup {New}
      /\ h.type # "Ip4" => IpHeaders' = IpHeaders
  BY <1>1, SetsNow
<1>4. ASSUME h.type = "Ip4" PROVE LastIp'
  <2>1. IsLast(New, IpHeaders')
    <3>1. \A j \in 1 .. Len(hdrs) : j <= New
      BY <1>2
    <3>2. New <= New
      BY <1>2
    <3>3. QED
      BY <1>3, <1>4, <3>1, <3>2 DEF IsLast
  <2>2. LevelOf(h.type) = 3 /\ h.type \in Plain /\ h.type \notin Loose
    BY <1>4, LevelIs DEF Plain, Loose
  <2>3. \E n \in Nat : last'["Ip"] = n /\ Topped(h, n)
    <3>1. CASE Room(3)
      <4>1. last'["Ip"] = Len(layers)
        BY <1>1, <1>4, <3>1 DEF Noted
      <4>2. Topped(h, Len(layers))
        BY <2>2, <3>1, LayersNow DEF Pushed, Placed, Over, Extra, Ignored
      <4>3. QED
        BY <1>2, <4>1, <4>2
    <3>2. CASE ~Room(3)
      <4>1. last'["Ip"] = last["Ip"] /\ last["Ip"] + 1 = Len(layers)
        BY <1>1, <1>4, <2>2, <3>2, IpBefore DEF Noted
      <4>2. Topped(h, Len(layers) - 1)
        BY <2>2, <3>2, LayersNow DEF Pushed, Placed, Added, Extra, Ignored
      <4>3. PICK n \in Nat : n = last["Ip"]
        BY DEF Typed
      <4>4. n = Len(layers) - 1
        BY <1>2, <4>1, <4>3
      <4>5. QED
        BY <4>1, <4>2, <4>3, <4>4
    <3>3. QED
      BY <3>1, <3>2
  <2>4. PICK n \in Nat : last'["Ip"] = n /\ Topped(h, n)
    BY <2>3
  <2>5. n + 1 \in 1 .. Len(layers') /\ layers'[n + 1].hdr = New
    BY <2>4 DEF Topped
  <2>6. IpHeaders' # {}
    BY <2>1 DEF IsLast
  <2>7. QED
    BY <2>1, <2>4, <2>5, <2>6 DEF LastIp, IsLast
<1>5. ASSUME h.type # "Ip4" PROVE LastIp'
  <2>1. last'["Ip"] = last["Ip"] /\ IpHeaders' = IpHeaders
    BY <1>1, <1>3, <1>5 DEF Noted
  <2>2. ASSUME IpHeaders # {}
        PROVE  last["Ip"] + 1 \in 1 .. Len(layers') /\ layers'[last["Ip"] + 1] = layers[last["Ip"] + 1]
    <3>1. PICK j \in Nat : j = last["Ip"] + 1 /\ j \in 1 .. Len(layers)
      BY <2>2 DEF LastIp
    <3>2. CASE layers' = layers
      BY <3>1, <3>2
    <3>3. ASSUME Topped(h, Len(layers)) PROVE j \in 1 .. Len(layers') /\ layers'[j] = layers[j]
      BY <1>2, <3>1, <3>3 DEF Topped
    <3>4. ASSUME Over(h) PROVE j \in 1 .. Len(layers') /\ layers'[j] = layers[j]
      <4>1. j < Len(layers)
        <5>1. ~Room(LevelOf(h.type)) /\ h.type \notin Lower
          BY <3>4 DEF Over, Plain, Lower, Tags
        <5>2. QED
          BY <1>5, <2>2, <3>1, <5>1, IpBefore
      <4>2. PICK m \in Nat : m = Len(layers) - 1 /\ Topped(h, m)
        BY <3>4, LayersNow
      <4>3. j \in 1 .. m
        BY <1>2, <3>1, <4>1, <4>2
      <4>4. QED
        BY <4>2, <4>3 DEF Topped
    <3>5. layers' = layers \/ Topped(h, Len(layers)) \/ Over(h)
      BY LayersNow DEF Pushed, Placed
    <3>6. QED
      BY <3>1, <3>2, <3>3, <3>4, <3>5
  <2>3. CASE IpHeaders = {}
    BY <2>1, <2>3 DEF LastIp
  <2>4. CASE IpHeaders # {}
    <3>1. IsLast(layers'[last["Ip"] + 1].hdr, IpHeaders) /\ last["Ip"] + 1 \in 1 .. Len(layers')
      BY <2>2, <2>4 DEF LastIp
    <3>2. QED
      BY <2>1, <2>4, <3>1 DEF LastIp, IsLast
  <2>5. QED
    BY <2>3, <2>4
<1>6. QED
  BY <1>4, <1>5

LEMMA PushKeepsPhase ==
    ASSUME Typed, LastIp, Phase, NEW h, Pushed(h)
    PROVE  Phase'
<1>1. /\ h \in HeaderType /\ hdrs' = Append(hdrs, h) /\ h.type \in Kinds /\ Noted(h)
      /\ hdrs # << >> => Precedes(Newest, h.type)
  BY DEF Pushed, Arrives, HeaderType
<1>2. /\ hdrs' # << >> /\ Len(layers) \in Nat /\ Newest' = h.type
  BY <1>1, HeadersNow, LayersAre DEF Newest
<1>3. h.type # "Ip4" => IpHeaders' = IpHeaders /\ last'["Ip"] = last["Ip"]
  BY <1>1, SetsNow DEF Noted
<1>4. \A l \in 2 .. 4 : l # LevelOf(h.type) => cnt'[l] = cnt[l]
  BY PushKeepsTyped
<1>5. ASSUME h.type \in Lower PROVE cnt'[3] = 0 /\ cnt'[4] = 0 /\ IpHeaders' = {}
  <2>1. LevelOf(h.type) = 2 /\ h.type # "Ip4"
    BY <1>5 DEF LevelOf, Lower, Tags
  <2>2. CASE hdrs = << >>
    <3>1. IpHeaders = {}
      <4>1. Len(hdrs) = 0
        BY <2>2
      <4>2. QED
        BY <1>1, <4>1, SetsNow
    <3>2. QED
      BY <1>3, <1>4, <2>1, <2>2, <3>1 DEF Phase
  <2>3. CASE hdrs # << >>
    <3>1. Newest \in Lower
      BY <1>1, <1>5, <2>3 DEF Precedes
    <3>2. cnt[3] = 0 /\ cnt[4] = 0 /\ IpHeaders = {}
      BY <2>3, <3>1 DEF Phase
    <3>3. QED
      BY <1>3, <1>4, <2>1, <3>2
  <2>4. QED
    BY <2>2, <2>3
<1>6. ASSUME h.type = "Ip4" PROVE cnt'[4] = 0 /\ last'["Ip"] + 1 = Len(layers')
  <2>1. LevelOf(h.type) = 3 /\ h.type \in Plain /\ h.type \notin Loose
    BY <1>6, LevelIs DEF Plain, Loose
  <2>2. cnt[4] = 0
    <3>1. hdrs # << >> => Newest \in Lower \cup {"Ip4"}
      BY <1>1, <1>6 DEF Precedes
    <3>2. QED
      BY <3>1 DEF Phase
  <2>3. cnt'[4] = 0
    BY <1>4, <2>1, <2>2
  <2>4. CASE Room(3)
    <3>1. last'["Ip"] = Len(layers)
      BY <1>1, <1>6, <2>4 DEF Noted
    <3>2. Topped(h, Len(layers))
      BY <2>1, <2>4, LayersNow DEF Pushed, Placed, Over, Extra, Ignored
    <3>3. QED
      BY <2>3, <3>1, <3>2 DEF Topped
  <2>5. CASE ~Room(3)
    <3>1. last'["Ip"] = last["Ip"] /\ last["Ip"] + 1 = Len(layers)
      BY <1>1, <1>6, <2>1, <2>5, IpBefore DEF Noted
    <3>2. PICK m \in Nat : m = Len(layers) - 1 /\ Topped(h, m)
      BY <2>1, <2>5, LayersNow DEF Pushed, Placed, Added, Extra, Ignored
    <3>3. Len(layers') = Len(layers)
      BY <1>2, <3>2 DEF Topped
    <3>4. QED
      BY <2>3, <3>1, <3>3
  <2>6. QED
    BY <2>4, <2>5
<1>7. ASSUME h.type \notin Lower \cup {"Ip4"}, IpHeaders # {} PROVE last["Ip"] + 1 < Len(layers')
  <2>1. PICK j \in Nat : j = last["Ip"] + 1 /\ j <= Len(layers)
    BY <1>2, <1>7 DEF LastIp
  <2>2. CASE Topped(h, Len(layers))
    BY <1>2, <2>1, <2>2 DEF Topped
  <2>3. CASE Over(h)
    <3>1. j < Len(layers)
      BY <1>7, <2>1, <2>3, IpBefore DEF Over
    <3>2. PICK m \in Nat : m = Len(layers) - 1 /\ Topped(h, m)
      BY <2>3, LayersNow
    <3>3. Len(layers') = Len(layers)
      BY <1>2, <3>2 DEF Topped
    <3>4. QED
      BY <2>1, <3>1, <3>3
  <2>4. CASE Ignored(h)
    <3>1. layers' = layers /\ j < Len(layers)
      BY <1>7, <2>1, <2>4, IpBefore DEF Ignored
    <3>2. QED
      BY <2>1, <3>1
  <2>5. QED
    BY <2>2, <2>3, <2>4, LayersNow DEF Pushed, Placed
<1>8. QED
  BY <1>2, <1>3, <1>5, <1>6, <1>7 DEF Phase

(* Bare, in the state after.                                               *)
BareNow(n) == \E k \in 1 .. n : TypeLength[layers'[k].type] = 0

LEMMA BareStays ==
    ASSUME NEW h, NEW m \in Nat, Topped(h, m), NEW n \in Nat, n <= m
    PROVE  /\ Bare(n) => BareNow(n) /\ BareNow(m)
           /\ TypeLength[h.type] = 0 => BareNow(m + 1)
<1>1. \A k \in 1 .. m : layers'[k] = layers[k]
  BY DEF Topped
<1>2. ASSUME Bare(n) PROVE BareNow(n) /\ BareNow(m)
  <2>1. PICK k \in 1 .. n : TypeLength[layers[k].type] = 0
    BY <1>2 DEF Bare
  <2>2. k \in 1 .. m
    BY <2>1
  <2>3. TypeLength[layers'[k].type] = 0
    BY <1>1, <2>1, <2>2
  <2>4. QED
    BY <2>2, <2>3 DEF BareNow
<1>3. m + 1 \in 1 .. m + 1 /\ layers'[m + 1].type = h.type
  BY DEF Topped
<1>4. QED
  BY <1>2, <1>3 DEF BareNow

LEMMA PushKeepsUncounted ==
    ASSUME Typed, Phase, Uncounted, NEW h, Pushed(h)
    PROVE  Uncounted'
<1>1. /\ h \in HeaderType /\ hdrs' = Append(hdrs, h) /\ h.type \in Kinds /\ build' = build
      /\ hdrs # << >> => Precedes(Newest, h.type)
  BY DEF Pushed, Arrives, HeaderType
<1>2. /\ hdrs' # << >> /\ Newest' = h.type
  BY <1>1, HeadersNow DEF Newest
<1>3. LayersMax' = LayersMax
  BY <1>1 DEF LayersMax
<1>4. PICK n \in Nat, c \in Nat : n = Len(layers) /\ c = LayersCnt /\ c <= n
  <2>1. Len(layers) \in Nat /\ LayersCnt \in Nat /\ LayersCnt <= Len(layers)
    BY LayersAre, PushKeepsTyped DEF Uncounted
  <2>2. QED
    BY <2>1
<1>5. ASSUME NEW mix \in BOOLEAN, Added(h, mix)
      PROVE  Topped(h, n) /\ Len(layers') = n + 1 /\ LayersCnt' = c + 1
  <2>1. Topped(h, n)
    BY <1>4, <1>5, LayersNow
  <2>2. LayersCnt' = c + 1
    BY <1>4, <1>5, PushKeepsTyped
  <2>3. QED
    BY <2>1, <2>2 DEF Topped
<1>6. ASSUME cnt' = cnt PROVE LayersCnt' = c
  BY <1>4, <1>6 DEF LayersCnt
<1>7. ASSUME Extra(h)
      PROVE  /\ Topped(h, n) /\ Len(layers') = n + 1 /\ LayersCnt' = c /\ cnt' = cnt
             /\ Room(4) /\ h.type \in Loose
  <2>1. Topped(h, n)
    BY <1>4, <1>7, LayersNow
  <2>2. QED
    BY <1>6, <1>7, <2>1 DEF Topped, Extra
<1>8. ASSUME Over(h)
      PROVE  \E m \in Nat : /\ n = m + 1 /\ Topped(h, m)
                            /\ Len(layers') = n /\ LayersCnt' = c
  <2>1. PICK m \in Nat : m = Len(layers) - 1 /\ Topped(h, m)
    BY <1>8, LayersNow
  <2>2. n = m + 1
    BY <1>4, <2>1
  <2>3. LayersCnt' = c
    BY <1>6, <1>8 DEF Over
  <2>4. QED
    BY <2>1, <2>2, <2>3 DEF Topped
<1>9. ASSUME Ignored(h) PROVE Len(layers') = n /\ LayersCnt' = c
  BY <1>4, <1>6, <1>9 DEF Ignored
<1>10. (\E mix \in BOOLEAN : Added(h, mix)) \/ Over(h) \/ Extra(h) \/ Ignored(h)
  BY DEF Pushed, Placed
<1>11. LayersCnt' <= Len(layers')
  BY <1>4, <1>5, <1>7, <1>8, <1>9, <1>10
<1>12. AllCounted /\ ~Extra(h) => AllCounted'
  <2>1. SUFFICES ASSUME AllCounted, ~Extra(h) PROVE Len(layers') = LayersCnt'
    BY DEF AllCounted
  <2>2. n = c
    BY <1>4, <2>1 DEF AllCounted
  <2>3. QED
    BY <1>5, <1>8, <1>9, <1>10, <2>1, <2>2
<1>13. hdrs = << >> => AllCounted
  BY DEF Phase, AllCounted, LayersCnt
<1>14. h.type \notin Loose => ~Extra(h)
  BY DEF Extra
<1>15. ASSUME h.type \in Lower \cup {"Ip4", "Tcp", "Udp", "Sctp", "Mtp"} PROVE AllCounted'
  <2>1. h.type \notin Loose
    BY <1>15 DEF Loose, Lower, Tags
  <2>2. hdrs # << >> => Newest \in Lower \cup {"Ip4", "Tcp", "Udp", "Sctp", "Mtp"}
    BY <1>1, <1>15 DEF Precedes
  <2>3. AllCounted
    BY <1>13, <2>2 DEF Uncounted
  <2>4. QED
    BY <1>12, <1>14, <2>1, <2>3
<1>16. Room(4)' <=> cnt'[4] # LayersMax[4]
  BY <1>3 DEF Room
<1>17. ASSUME h.type = "SctpChunk"
       PROVE  IF Room(4)' THEN BareNow(Len(layers')) ELSE AllCounted'
  <2>1. AllCounted
    <3>1. hdrs # << >> => Newest = "Sctp"
      BY <1>1, <1>17 DEF Precedes
    <3>2. QED
      BY <1>13, <3>1 DEF Uncounted
  <2>2. CASE Extra(h)
    <3>1. BareNow(n + 1)
      BY <1>4, <1>7, <1>17, <2>2, BareStays, KindsAre
    <3>2. QED
      BY <1>7, <1>16, <2>2, <3>1 DEF Room
  <2>3. CASE ~Extra(h)
    <3>1. Ignored(h) /\ ~Room(4) /\ cnt' = cnt
      <4>1. h.type \notin Plain /\ h.type \in Loose /\ LevelOf(h.type) = 4
        BY <1>17, LevelIs DEF Plain, Loose
      <4>2. QED
        BY <1>10, <2>3, <4>1 DEF Added, Over, Ignored
    <3>2. QED
      BY <1>12, <1>16, <2>1, <2>3, <3>1 DEF Room
  <2>4. QED
    BY <2>2, <2>3
<1>18. ASSUME h.type = "M2ua"
       PROVE  \/ AllCounted'
              \/ BareNow(Len(layers') - 1)
              \/ cnt'[3] = 0 /\ BareNow(Len(layers'))
  <2>1. hdrs # << >> => Newest = "SctpChunk"
    BY <1>1, <1>18 DEF Precedes
  <2>2. CASE Extra(h)
    <3>1. Topped(h, n) /\ Len(layers') = n + 1 /\ cnt' = cnt /\ Room(4)
      BY <1>7, <2>2
    <3>2. CASE hdrs = << >>
      <4>1. BareNow(n + 1)
        BY <1>4, <1>18, <3>1, BareStays, KindsAre
      <4>2. QED
        BY <3>1, <3>2, <4>1 DEF Phase
    <3>3. CASE hdrs # << >>
      <4>1. Bare(n)
        BY <1>4, <2>1, <3>1, <3>3 DEF Uncounted
      <4>2. BareNow(n)
        BY <1>4, <3>1, <4>1, BareStays
      <4>3. QED
        BY <1>4, <3>1, <4>2
    <3>4. QED
      BY <3>2, <3>3
  <2>3. CASE ~Extra(h)
    <3>1. ~Room(4)
      <4>1. h.type \notin Plain /\ h.type \in Loose /\ LevelOf(h.type) = 4
        BY <1>18, LevelIs DEF Plain, Loose
      <4>2. QED
        BY <1>10, <2>3, <4>1 DEF Added, Over, Ignored
    <3>2. AllCounted
      BY <1>13, <2>1, <3>1 DEF Uncounted
    <3>3. QED
      BY <1>12, <2>3, <3>2
  <2>4. QED
    BY <2>2, <2>3
<1>19. ASSUME h.type \in {"M3ua", "Mtp3", "Isup"}
       PROVE  AllCounted' \/ BareNow(Len(layers') - 1)
  <2>1. h.type \notin Loose /\ ~Extra(h)
    BY <1>14, <1>19 DEF Loose
  <2>2. SUFFICES ASSUME ~AllCounted PROVE BareNow(Len(layers') - 1)
    BY <1>12, <2>1
  <2>3. ASSUME NEW mix \in BOOLEAN, Added(h, mix), Bare(n) PROVE BareNow(Len(layers') - 1)
    <3>1. BareNow(n)
      BY <1>4, <1>5, <2>3, BareStays
    <3>2. QED
      BY <1>4, <1>5, <2>3, <3>1
  <2>4. Bare(n - 1) => Bare(n)
    BY <1>4 DEF Bare
  <2>5. ASSUME Over(h), Bare(n - 1) PROVE BareNow(Len(layers') - 1)
    <3>1. PICK m \in Nat : n = m + 1 /\ Topped(h, m) /\ Len(layers') = n
      BY <1>8, <2>5
    <3>2. m = n - 1
      BY <1>4, <3>1
    <3>3. BareNow(m)
      BY <2>5, <3>1, <3>2, BareStays
    <3>4. QED
      BY <3>1, <3>2, <3>3
  <2>6. CASE h.type = "M3ua"
    <3>1. Newest = "SctpChunk" /\ hdrs # << >>
      BY <1>1, <1>13, <2>2, <2>6 DEF Precedes
    <3>2. Room(4) /\ Bare(n)
      BY <1>4, <2>2, <3>1 DEF Uncounted
    <3>3. LevelOf(h.type) = 4
      BY <2>6, LevelIs
    <3>4. \E mix \in BOOLEAN : Added(h, mix)
      BY <1>10, <2>1, <3>2, <3>3 DEF Over, Ignored
    <3>5. QED
      BY <2>3, <3>2, <3>4
  <2>7. CASE h.type # "M3ua"
    <3>1. hdrs # << >> /\ h.type \in Plain
      BY <1>13, <1>19, <2>2, <2>7 DEF Plain
    <3>2. (\E mix \in BOOLEAN : Added(h, mix)) \/ Over(h)
      BY <1>10, <2>1, <3>1 DEF Ignored
    <3>3. CASE Bare(n - 1)
      BY <2>3, <2>4, <2>5, <3>2, <3>3
    <3>4. CASE ~Bare(n - 1)
      <4>1. Newest = "M2ua" /\ h.type = "Mtp3"
        <5>1. Newest \notin Lower \cup {"Ip4", "Tcp", "Udp", "Sctp", "Mtp"}
          BY <2>2, <3>1 DEF Uncounted
        <5>2. Newest \notin {"M3ua", "Mtp3", "Isup"}
          BY <1>4, <2>2, <3>1, <3>4 DEF Uncounted
        <5>3. QED
          BY <1>1, <1>19, <2>7, <3>1, <5>1, <5>2 DEF Precedes
      <4>2. cnt[3] = 0 /\ Bare(n)
        BY <1>4, <2>2, <3>1, <3>4, <4>1 DEF Uncounted
      <4>3. LevelOf(h.type) = 3
        BY <4>1, LevelIs
      <4>4. Room(3)
        <5>1. LayersMax[3] > 0 /\ LayersMax[3] \in Nat
          BY BuildIs
        <5>2. QED
          BY <4>2, <5>1 DEF Room
      <4>5. \E mix \in BOOLEAN : Added(h, mix)
        BY <3>2, <4>3, <4>4 DEF Over
      <4>6. QED
        BY <2>3, <4>2, <4>5
    <3>5. QED
      BY <3>3, <3>4
  <2>8. QED
    BY <2>6, <2>7
<1>20. QED
  BY <1>2, <1>11, <1>15, <1>17, <1>18, <1>19 DEF Uncounted, Bare, BareNow

------------------------------------------------------------------------------
(* The invariant.                                                          *)

LEMMA LookUpKeeps ==
    ASSUME IInv, LookUp
    PROVE  IInv'
<1> DEFINE j == last["Ip"] + 1
<1>1. /\ layers' \in Seq(LayerType) /\ Len(layers') = Len(layers)
      /\ \A k \in 1 .. Len(layers) :
            /\ layers'[k].hdr = layers[k].hdr /\ layers'[k].type = layers[k].type
            /\ layers'[k].mix => layers[k].mix
            /\ k # j => layers'[k].mix = layers[k].mix
  BY LookedUpLayers DEF IInv
<1>2. UNCHANGED <<build, hdrs, cnt, more, last, hashed>> /\ last["Ip"] # None
  BY DEF LookUp
<1>3. /\ Builds' = Builds /\ LayersMax' = LayersMax /\ MaxHeaders' = MaxHeaders /\ Types' = Types
      /\ First' = First /\ Values' = Values
  BY <1>2 DEF LayersMax, MaxHeaders, Types, First, Values
<1>4. Typed'
  BY <1>1, <1>2, <1>3 DEF IInv, Typed
<1>5. Met'
  BY <1>2, <1>3 DEF IInv, Met, Addressed
<1>6. Sorted'
  BY <1>1, <1>2 DEF IInv, Sorted
<1>7. Inner'
  BY <1>1, <1>2 DEF IInv, Inner, Innermost, IsLast
<1>8. LastIp'
  BY <1>1, <1>2 DEF IInv, LastIp, IpHeaders, IsLast
<1>9. Phase'
  <2>1. layers = << >> => layers' = << >>
    BY <1>1, EmptySeq
  <2>2. IpHeaders' = IpHeaders /\ Newest' = Newest
    BY <1>2 DEF IpHeaders, Newest
  <2>3. QED
    BY <1>1, <1>2, <2>1, <2>2 DEF IInv, Phase
<1>10. Uncounted'
  <2>1. LayersCnt' = LayersCnt /\ Newest' = Newest /\ (AllCounted' <=> AllCounted)
    BY <1>1, <1>2 DEF LayersCnt, Newest, AllCounted
  <2>2. Room(4)' <=> Room(4)
    BY <1>2, <1>3 DEF Room
  <2>3. Bare(Len(layers)) => BareNow(Len(layers'))
    BY <1>1 DEF Bare, BareNow
  <2>4. Bare(Len(layers) - 1) => BareNow(Len(layers') - 1)
    <3>1. 1 .. Len(layers) - 1 \subseteq 1 .. Len(layers)
      BY LayersAre DEF IInv
    <3>2. QED
      BY <1>1, <3>1 DEF Bare, BareNow
  <2>5. QED
    BY <1>1, <1>2, <2>1, <2>2, <2>3, <2>4 DEF IInv, Uncounted, Bare, BareNow
<1>11. Mixes'
  <2>1. IpHeaders # {}
    BY <1>2 DEF IInv, LastIp
  <2>2. j \in 1 .. Len(layers) /\ layers[j].hdr \in IpHeaders
    BY <2>1 DEF IInv, LastIp, IsLast
  <2>3. layers[j].type = "Ip4"
    BY <2>2 DEF IInv, Sorted, IpHeaders
  <2>4. \A k \in 1 .. Len(layers) : layers[k].type \in Lower => k # j
    BY <2>3 DEF Lower, Tags
  <2>5. QED
    BY <1>1, <1>2, <2>4 DEF IInv, Mixes
<1>12. QED
  BY <1>4, <1>5, <1>6, <1>7, <1>8, <1>9, <1>10, <1>11 DEF IInv

LEMMA InitIInv == Init => IInv
<1> SUFFICES ASSUME Init PROVE IInv
  OBVIOUS
<1>1. /\ build \in Builds /\ hdrs = << >> /\ layers = << >> /\ hashed = {}
      /\ cnt = [l \in 2 .. 4 |-> 0] /\ more = [l \in 2 .. 4 |-> FALSE]
      /\ last = [k \in {"Ip", "Mtp", "M3ua"} |-> None]
  BY DEF Init
<1>2. Len(hdrs) = 0 /\ Len(layers) = 0 /\ 1 .. Len(hdrs) = {} /\ 1 .. Len(layers) = {} /\ DOMAIN hdrs = {}
  BY <1>1
<1>3. cnt[2] = 0 /\ cnt[3] = 0 /\ cnt[4] = 0 /\ last["Ip"] = None
  BY <1>1
<1>4. Typed
  <2>1. LayersMax \in [2 .. 4 -> Nat] /\ MaxHeaders \in Nat
    BY <1>1, BuildsAssumption DEF LayersMax, MaxHeaders
  <2>2. hdrs \in Seq(HeaderType) /\ layers \in Seq(LayerType)
    BY <1>1, EmptySeq
  <2>3. cnt \in [2 .. 4 -> Nat] /\ \A l \in 2 .. 4 : cnt[l] <= LayersMax[l]
    BY <1>1, <2>1
  <2>4. last \in [{"Ip", "Mtp", "M3ua"} -> 0 .. None]
    BY <1>1 DEF None
  <2>5. QED
    BY <1>1, <1>2, <2>1, <2>2, <2>3, <2>4 DEF Typed
<1>5. Met /\ Sorted /\ Mixes
  BY <1>2 DEF Met, Sorted, Mixes
<1>6. IpHeaders = {} /\ Innermost = {}
  BY <1>2 DEF IpHeaders, Innermost
<1>7. Inner /\ LastIp /\ Phase
  BY <1>1, <1>3, <1>6 DEF Inner, LastIp, Phase
<1>8. Uncounted
  BY <1>1, <1>2, <1>3 DEF Uncounted, LayersCnt
<1>9. QED
  BY <1>4, <1>5, <1>7, <1>8 DEF IInv

LEMMA NextIInv == IInv /\ [Next]_vars => IInv'
<1> SUFFICES ASSUME IInv, [Next]_vars PROVE IInv'
  OBVIOUS
<1>1. /\ Typed /\ Met /\ Sorted /\ Inner
      /\ LastIp /\ Phase /\ Uncounted /\ Mixes
  BY DEF IInv
<1>2. ASSUME NEW h, Pushed(h) PROVE IInv'
  <2>1. Typed' /\ LastIp' /\ Phase' /\ Uncounted'
    BY <1>1, <1>2, PushKeepsTyped, PushKeepsLastIp, PushKeepsPhase, PushKeepsUncounted
  <2>2. Met' /\ Sorted' /\ Inner' /\ Mixes'
    BY <1>1, <1>2, PushKeepsMet, PushKeepsSorted, PushKeepsInner, PushKeepsMixes
  <2>3. QED
    BY <2>1, <2>2 DEF IInv
<1>3. ASSUME UNCHANGED vars PROVE IInv'
  <2>1. UNCHANGED <<build, hdrs, layers, cnt, more, last, hashed>>
    BY <1>3 DEF vars
  <2>2. Typed' /\ Met'
    BY <1>1, <2>1 DEF Typed, Met, Addressed, LayersMax, MaxHeaders, Types, First, Values
  <2>3. Sorted' /\ Inner' /\ Mixes'
    BY <1>1, <2>1 DEF Sorted, Inner, Innermost, IsLast, Mixes
  <2>4. LastIp' /\ Phase'
    BY <1>1, <2>1 DEF LastIp, Phase, IpHeaders, IsLast, Newest
  <2>5. Uncounted'
    BY <1>1, <2>1 DEF Uncounted, Newest, LayersCnt, AllCounted, Room, LayersMax, Bare
  <2>6. QED
    BY <2>2, <2>3, <2>4, <2>5 DEF IInv
<1>4. QED
  BY <1>1, <1>2, <1>3, EveryStep, LookUpKeeps

(* The invariant that the theorems below rest on: the layers describe the  *)
(* headers in their order, the last IP header has a layer, and a layer     *)
(* that is not counted is known by its lack of addresses.                  *)
THEOREM Invariance == Spec => []IInv
<1>1. QED
  BY InitIInv, NextIInv, PTL DEF Spec

(* The shape of a packet's state: its counters stay within the layers of   *)
(* the build, and each layer is for a header that has its type.            *)
THEOREM TypeCorrect == Spec => []TypeOK
<1>1. IInv => TypeOK
  <2> SUFFICES ASSUME IInv PROVE TypeOK
    OBVIOUS
  <2>1. Typed /\ Sorted
    BY DEF IInv
  <2>2. DOMAIN hdrs = 1 .. Len(hdrs) /\ DOMAIN layers = 1 .. Len(layers)
    BY <2>1, LayersAre, LenProperties DEF Typed
  <2>3. QED
    BY <2>1, <2>2 DEF TypeOK, Typed, Sorted
<1>2. QED
  BY <1>1, Invariance, PTL

(* The last element of a set of headers.                                   *)
LEMMA MaxIsLast ==
    ASSUME NEW I \in SUBSET Nat, NEW i, IsLast(i, I)
    PROVE  Max(I) = i
<1>1. i \in I /\ \A j \in I : i >= j
  BY DEF IsLast
<1>2. \A x \in I : (\A y \in I : x >= y) => x = i
  BY <1>1
<1>3. QED
  BY <1>1, <1>2 DEF Max

(* pushIp4 and the others that overwrite: the innermost header with        *)
(* addresses has a layer, and the layers are in the order of the headers.  *)
THEOREM InnermostStays == Spec => []InnermostKept
<1>1. IInv => InnermostKept
  <2> SUFFICES ASSUME IInv PROVE InnermostKept
    OBVIOUS
  <2>1. Typed /\ Sorted /\ Inner
    BY DEF IInv
  <2>2. DOMAIN layers = 1 .. Len(layers) /\ DOMAIN hdrs = 1 .. Len(hdrs)
    BY <2>1, LayersAre, LenProperties DEF Typed
  <2>3. ASSUME Innermost # {} PROVE \E k \in 1 .. Len(layers) : layers[k].hdr = Max(Innermost)
    <3>1. PICK k \in 1 .. Len(layers) : IsLast(layers[k].hdr, Innermost)
      BY <2>1, <2>3 DEF Inner
    <3>2. Innermost \in SUBSET Nat
      BY <2>2 DEF Innermost
    <3>3. QED
      BY <3>1, <3>2, MaxIsLast
  <2>4. QED
    BY <2>1, <2>2, <2>3 DEF InnermostKept, Sorted
<1>2. QED
  BY <1>1, Invariance, PTL

(* pushIp4: "always use last IP header".                                   *)
THEOREM LastIpStays == Spec => []LastIpKept
<1>1. IInv => LastIpKept
  <2> SUFFICES ASSUME IInv, IpHeaders # {}
               PROVE  last["Ip"] + 1 \in DOMAIN layers /\ layers[last["Ip"] + 1].hdr = Max(IpHeaders)
    BY DEF LastIpKept
  <2>1. Typed /\ LastIp
    BY DEF IInv
  <2>2. DOMAIN layers = 1 .. Len(layers) /\ DOMAIN hdrs = 1 .. Len(hdrs)
    BY <2>1, LayersAre, LenProperties DEF Typed
  <2>3. IpHeaders \in SUBSET Nat
    BY <2>2 DEF IpHeaders
  <2>4. last["Ip"] + 1 \in 1 .. Len(layers) /\ IsLast(layers[last["Ip"] + 1].hdr, IpHeaders)
    BY <2>1 DEF LastIp
  <2>5. QED
    BY <2>2, <2>3, <2>4, MaxIsLast
<1>2. QED
  BY <1>1, Invariance, PTL

------------------------------------------------------------------------------
(* Sums.                                                                   *)

LEMMA LeastNumber ==
    ASSUME NEW T, T \subseteq Nat, T # {}
    PROVE  \E n \in T : \A m \in T : n <= m
<1>1. PICK n \in T : \A m \in T : ~ (<<m, n>> \in OpToRel(<, Nat))
  BY NatLessThanWellFounded, WFMin, Zenon
<1>2. \A m \in T : m < n => <<m, n>> \in OpToRel(<, Nat)
  BY DEF OpToRel
<1>3. \A m \in T : ~ (m < n)
  BY <1>1, <1>2, Zenon
<1>4. QED
  BY <1>3

LEMMA SetInduction ==
    ASSUME NEW S, 0 \in S, \A n \in Nat : n \in S => n + 1 \in S
    PROVE  Nat \subseteq S
<1> DEFINE T == Nat \ S
<1>1. CASE T # {}
  <2>1. PICK n \in T : \A m \in T : n <= m
    BY <1>1, LeastNumber
  <2>2. n # 0 /\ n \in Nat /\ n - 1 \in Nat
    BY <2>1
  <2>3. n - 1 \in S
    BY <2>1, <2>2
  <2>4. n - 1 + 1 \in S
    BY <2>2, <2>3
  <2>5. n - 1 + 1 = n
    BY <2>2
  <2>6. QED
    BY <2>1, <2>4, <2>5
<1>2. QED
  BY <1>1

(* g[i] is f[1] + ... + f[i].                                              *)
Adds(g, f, n) == g[0] = 0 /\ \A i \in 1 .. n : g[i] = g[i - 1] + f[i]

LEMMA SumAdds ==
    ASSUME NEW n \in Nat, NEW f, \A i \in 1 .. n : f[i] \in Nat
    PROVE  \E g : Adds(g, f, n) /\ SumTo(f, n) = g[n]
<1> DEFINE Def(h) == h = [k \in 0 .. n |-> IF k = 0 THEN 0 ELSE h[k - 1] + f[k]]
           S == {k \in Nat : k <= n => \E g \in [0 .. n -> Nat] : Adds(g, f, k)}
<1>1. 0 \in S
  <2>1. [i \in 0 .. n |-> 0] \in [0 .. n -> Nat] /\ Adds([i \in 0 .. n |-> 0], f, 0)
    BY DEF Adds
  <2>2. QED
    BY <2>1
<1>2. ASSUME NEW k \in Nat, k \in S PROVE k + 1 \in S
  <2> SUFFICES ASSUME k + 1 <= n PROVE \E g \in [0 .. n -> Nat] : Adds(g, f, k + 1)
    OBVIOUS
  <2>1. PICK g \in [0 .. n -> Nat] : Adds(g, f, k)
    BY <1>2
  <2>2. PICK h : h = [g EXCEPT ![k + 1] = g[k] + f[k + 1]]
    OBVIOUS
  <2>3. k \in 0 .. n /\ k + 1 \in 1 .. n /\ g[k] + f[k + 1] \in Nat
    <3>1. k \in 0 .. n /\ k + 1 \in 1 .. n
      OBVIOUS
    <3>2. g[k] \in Nat /\ f[k + 1] \in Nat
      BY <3>1
    <3>3. QED
      BY <3>1, <3>2
  <2>4. h \in [0 .. n -> Nat] /\ h[k + 1] = g[k] + f[k + 1] /\ \A i \in 0 .. k : h[i] = g[i]
    BY <2>2, <2>3
  <2>5. ASSUME NEW i \in 1 .. k + 1 PROVE h[i] = h[i - 1] + f[i]
    <3>1. CASE i = k + 1
      BY <2>4, <3>1
    <3>2. CASE i # k + 1
      <4>1. i \in 1 .. k /\ i \in 0 .. k /\ i - 1 \in 0 .. k
        BY <3>2
      <4>2. QED
        BY <2>1, <2>4, <4>1 DEF Adds
    <3>3. QED
      BY <3>1, <3>2
  <2>6. Adds(h, f, k + 1)
    BY <2>1, <2>4, <2>5 DEF Adds
  <2>7. QED
    BY <2>4, <2>6
<1>3. PICK g \in [0 .. n -> Nat] : Adds(g, f, n)
  <2>1. n \in S
    <3> HIDE DEF S
    <3>1. QED
      BY <1>1, <1>2, SetInduction
  <2>2. n <= n
    OBVIOUS
  <2>3. QED
    BY <2>1, <2>2
<1>4. Def(g)
  <2>1. ASSUME NEW i \in 0 .. n PROVE g[i] = IF i = 0 THEN 0 ELSE g[i - 1] + f[i]
    BY <1>3 DEF Adds
  <2>2. QED
    BY <2>1
<1>5. PICK sum : Def(sum) /\ SumTo(f, n) = sum[n]
  BY <1>4 DEF SumTo
<1>6. Adds(sum, f, n)
  <2>1. sum[0] = 0
    BY <1>5
  <2>2. ASSUME NEW i \in 1 .. n PROVE sum[i] = sum[i - 1] + f[i]
    <3>1. i \in 0 .. n /\ i # 0
      OBVIOUS
    <3>2. QED
      BY <1>5, <3>1
  <2>3. QED
    BY <2>1, <2>2 DEF Adds
<1>7. QED
  BY <1>5, <1>6

(* A sum of smaller numbers is no greater.                                 *)
LEMMA SumMonotone ==
    ASSUME NEW n \in Nat, NEW e, NEW f,
           \A i \in 1 .. n : e[i] \in Nat /\ f[i] \in Nat /\ e[i] <= f[i]
    PROVE  SumTo(e, n) \in Nat /\ SumTo(f, n) \in Nat /\ SumTo(e, n) <= SumTo(f, n)
<1>1. PICK g : Adds(g, e, n) /\ SumTo(e, n) = g[n]
  BY SumAdds
<1>2. PICK h : Adds(h, f, n) /\ SumTo(f, n) = h[n]
  BY SumAdds
<1> DEFINE S == {k \in Nat : k <= n => g[k] \in Nat /\ h[k] \in Nat /\ g[k] <= h[k]}
<1>3. 0 \in S
  BY <1>1, <1>2 DEF Adds
<1>4. ASSUME NEW k \in Nat, k \in S PROVE k + 1 \in S
  <2> SUFFICES ASSUME k + 1 <= n
               PROVE  g[k + 1] \in Nat /\ h[k + 1] \in Nat /\ g[k + 1] <= h[k + 1]
    OBVIOUS
  <2>1. k + 1 \in 1 .. n /\ k + 1 - 1 = k
    OBVIOUS
  <2>2. g[k] \in Nat /\ h[k] \in Nat /\ g[k] <= h[k]
    BY <1>4
  <2>3. g[k + 1] = g[k] + e[k + 1] /\ h[k + 1] = h[k] + f[k + 1]
    BY <1>1, <1>2, <2>1 DEF Adds
  <2>4. e[k + 1] \in Nat /\ f[k + 1] \in Nat /\ e[k + 1] <= f[k + 1]
    BY <2>1
  <2>5. QED
    BY <2>2, <2>3, <2>4
<1>5. n \in S
  BY <1>3, <1>4, SetInduction
<1>6. QED
  BY <1>1, <1>2, <1>5

LEMMA BytesMonotone ==
    ASSUME Typed, NEW J, NEW K, J \subseteq K
    PROVE  Bytes(J) \in Nat /\ Bytes(K) \in Nat /\ Bytes(J) <= Bytes(K)
<1> DEFINE size(k) == TypeLength[layers[k].type]
           e == [k \in DOMAIN layers |-> IF k \in J THEN size(k) ELSE 0]
           f == [k \in DOMAIN layers |-> IF k \in K THEN size(k) ELSE 0]
<1>1. Len(layers) \in Nat /\ DOMAIN layers = 1 .. Len(layers)
  BY LayersAre
<1>2. ASSUME NEW i \in 1 .. Len(layers)
      PROVE  e[i] \in Nat /\ f[i] \in Nat /\ e[i] <= f[i]
  <2>1. size(i) \in Nat
    BY LayersAre, KindsAre
  <2>2. e[i] = (IF i \in J THEN size(i) ELSE 0) /\ f[i] = (IF i \in K THEN size(i) ELSE 0)
    BY <1>1
  <2>3. QED
    BY <2>1, <2>2
<1>3. Bytes(J) = SumTo(e, Len(layers)) /\ Bytes(K) = SumTo(f, Len(layers))
  BY DEF Bytes
<1> HIDE DEF e, f
<1>4. QED
  BY <1>1, <1>2, <1>3, SumMonotone

------------------------------------------------------------------------------
(* The packets of a flow.                                                  *)

(* A header and its counterpart in a packet made of the same kinds.        *)
Counterpart(x, y) ==
    /\ y.type = x.type /\ x.type \in Kinds
    /\ x.src \in Values /\ x.dst \in Values /\ y.src \in Values /\ y.dst \in Values
    /\ x.type # "Eth" => x.next = x.dst /\ y.next = y.dst
    /\ y \in HeaderType

LEMMA AlikeIs ==
    ASSUME Typed, Met, NEW b \in Alike, NEW i \in 1 .. Len(hdrs)
    PROVE  Counterpart(hdrs[i], b[i])
<1>1. DOMAIN hdrs = 1 .. Len(hdrs) /\ hdrs[i] \in HeaderType
  BY LenProperties, ElementOfSeq DEF Typed
<1>2. PICK v \in [DOMAIN hdrs -> Values \X Values \X Values] :
         /\ \A j \in DOMAIN hdrs : v[j] \in AddressesOf(hdrs[j].type)
         /\ b = [j \in DOMAIN hdrs |-> [hdrs[j] EXCEPT !.src = v[j][1], !.dst = v[j][2], !.next = v[j][3]]]
  BY DEF Alike
<1>3. PICK w : w = v[i] /\ w \in AddressesOf(hdrs[i].type)
  BY <1>1, <1>2
<1>4. /\ w[1] \in Values /\ w[2] \in Values /\ w[3] \in Values
      /\ hdrs[i].type # "Eth" => w[3] = w[2]
  BY <1>3 DEF AddressesOf
<1>5. w[1] \in Nat /\ w[2] \in Nat /\ w[3] \in Nat
  BY <1>4, BuildIs
<1>6. b[i] = [hdrs[i] EXCEPT !.src = w[1], !.dst = w[2], !.next = w[3]]
  BY <1>1, <1>2, <1>3
<1>7. /\ b[i] \in HeaderType /\ b[i].type = hdrs[i].type
      /\ b[i].src = w[1] /\ b[i].dst = w[2] /\ b[i].next = w[3]
  BY <1>1, <1>5, <1>6 DEF HeaderType
<1>8. Addressed(hdrs[i])
  BY DEF Met
<1>9. hdrs[i].type \in Kinds
  BY <1>1 DEF HeaderType
<1>10. QED
  BY <1>4, <1>7, <1>8, <1>9 DEF Counterpart, Addressed

(* The other direction of a header.                                        *)
LEMMA BackIs ==
    ASSUME NEW h \in HeaderType
    PROVE  /\ h.type \in Tags \cup {"Isup"} => Back(h) = h
           /\ h.type \notin Tags \cup {"Isup"} => Back(h).src = h.dst /\ Back(h).dst = h.src
<1>1. h.src \in Nat /\ h.dst \in Nat /\ h.next \in Nat
  BY DEF HeaderType
<1>2. PICK d \in Nat : d = IF h.type = "Eth" THEN h.next ELSE h.src
  BY <1>1
<1>3. ASSUME h.type \notin Tags \cup {"Isup"}
      PROVE  Back(h).src = h.dst /\ Back(h).dst = h.src
  <2>1. Back(h) = [h EXCEPT !.src = h.dst, !.dst = h.src, !.next = d]
    BY <1>2, <1>3 DEF Back
  <2>2. QED
    BY <1>1, <1>2, <2>1 DEF HeaderType
<1>4. QED
  BY <1>3 DEF Back

LEMMA HashOfFlow ==
    ASSUME IInv, NEW b \in Alike, SameFlow(hdrs, b),
           hashed \subseteq {layers[k].hdr : k \in DOMAIN layers},
           Bytes({k \in DOMAIN layers : ~Mixed(k)}) < FlowAddrSize
    PROVE  flowHash(b) = flowHash(hdrs)
<1> DEFINE U == {k \in DOMAIN layers : ~Mixed(k)}
<1>1. Typed /\ Met /\ Sorted /\ Mixes
  BY DEF IInv
<1>2. /\ DOMAIN layers = 1 .. Len(layers) /\ DOMAIN hdrs = 1 .. Len(hdrs)
      /\ hashed \subseteq 1 .. Len(hdrs)
  BY <1>1, LayersAre, LenProperties DEF Typed
<1>3. ASSUME NEW i \in hashed PROVE i \in Identifying
  <2>1. PICK k \in DOMAIN layers : layers[k].hdr = i
    OBVIOUS
  <2>2. ~layers[k].mix
    BY <1>1, <1>2, <2>1 DEF Mixes
  <2>3. k \in U
    BY <2>2 DEF Mixed
  <2>4. Bytes({j \in U : j >= k}) <= FlowAddrSize - 1
    <3>1. {j \in U : j >= k} \subseteq U
      OBVIOUS
    <3>2. PICK m \in Nat, n \in Nat : m = Bytes({j \in U : j >= k}) /\ n = Bytes(U) /\ m <= n
      BY <1>1, <3>1, BytesMonotone
    <3>3. PICK f \in Nat : f = FlowAddrSize
      BY <1>1, BuildIs
    <3>4. n < f
      BY <3>2, <3>3
    <3>5. m <= f - 1
      BY <3>2, <3>4
    <3>6. QED
      BY <3>2, <3>3, <3>5
  <2>5. k \in Within(U)
    BY <2>3, <2>4 DEF Within
  <2>6. QED
    BY <2>1, <2>5 DEF Identifying
<1>4. ASSUME NEW i \in hashed PROVE b[i].src + b[i].dst = hdrs[i].src + hdrs[i].dst
  <2>1. i \in Identifying /\ i \in 1 .. Len(hdrs)
    BY <1>2, <1>3
  <2>2. Counterpart(hdrs[i], b[i])
    BY <1>1, <2>1, AlikeIs
  <2>3. b[i] \in HeaderType /\ b[i].src \in Nat /\ b[i].dst \in Nat
    BY <2>2 DEF Counterpart, HeaderType
  <2>4. Agree(hdrs[i], b[i]) \/ Agree(hdrs[i], Back(b[i]))
    BY <2>1 DEF SameFlow
  <2>5. CASE Agree(hdrs[i], b[i])
    BY <2>5 DEF Agree
  <2>6. CASE Agree(hdrs[i], Back(b[i]))
    <3>1. hdrs[i].src = Back(b[i]).src /\ hdrs[i].dst = Back(b[i]).dst
      BY <2>6 DEF Agree
    <3>2. \/ Back(b[i]).src = b[i].src /\ Back(b[i]).dst = b[i].dst
          \/ Back(b[i]).src = b[i].dst /\ Back(b[i]).dst = b[i].src
      BY <2>3, BackIs
    <3>3. QED
      BY <2>3, <3>1, <3>2
  <2>7. QED
    BY <2>4, <2>5, <2>6
<1>5. [i \in DOMAIN hdrs |-> IF i \in hashed THEN b[i].src + b[i].dst ELSE 0]
         = [i \in DOMAIN hdrs |-> IF i \in hashed THEN hdrs[i].src + hdrs[i].dst ELSE 0]
  BY <1>4
<1>6. QED
  BY <1>5 DEF flowHash

(* flowHash: the headers of which it is the sum are all in the key, as     *)
(* long as each has kept its layer and the key has room for them, and      *)
(* each has the same sum in both directions.                               *)
THEOREM HashOfFlowIsOne == Spec => []SameFlowSameHash
<1>1. IInv => SameFlowSameHash
  BY HashOfFlow DEF SameFlowSameHash
<1>2. QED
  BY <1>1, Invariance, PTL

------------------------------------------------------------------------------
(* The key.                                                                *)

(* The builds of which the key tells flows apart: layer 2 is pushed mixed, *)
(* and no circuit is told from another, whose addresses stay where they    *)
(* are on the way back.                                                    *)
Sided == /\ ~UnmixedTags
         /\ \A b \in Builds : "Isup" \in b.types \cup b.first => \A v, w \in b.values : v = w

(* Two headers between which the key tells.                                *)
Paired(x, y) == /\ y.type = x.type /\ x.type \in Plain
                /\ x.src \in Nat /\ x.dst \in Nat /\ y.src \in Nat /\ y.dst \in Nat
                /\ x.next = x.dst /\ y.next = y.dst
                /\ x.type = "Isup" => x.src = y.src /\ x.dst = y.src /\ y.dst = y.src
                /\ y \in HeaderType

LEMMA AllLayersCount ==
    ASSUME IInv, AllHaveAddresses
    PROVE  LayersCnt = Len(layers)
<1>1. Typed /\ Phase /\ Uncounted
  BY DEF IInv
<1>2. Len(layers) \in Nat /\ DOMAIN layers = 1 .. Len(layers)
  BY <1>1, LayersAre
<1>3. ~Bare(Len(layers)) /\ ~Bare(Len(layers) - 1)
  <2>1. ASSUME NEW k \in 1 .. Len(layers) PROVE TypeLength[layers[k].type] # 0
    <3>1. PICK n : n = TypeLength[layers[k].type] /\ n > 0
      BY <1>2 DEF AllHaveAddresses
    <3>2. QED
      BY <3>1
  <2>2. 1 .. Len(layers) - 1 \subseteq 1 .. Len(layers)
    BY <1>2
  <2>3. QED
    BY <2>1, <2>2 DEF Bare
<1>4. CASE hdrs = << >>
  <2>1. layers = << >> /\ cnt[2] = 0 /\ cnt[3] = 0 /\ cnt[4] = 0
    BY <1>1, <1>4 DEF Phase
  <2>2. QED
    BY <2>1 DEF LayersCnt
<1>5. CASE hdrs # << >>
  <2>1. Newest \in Kinds
    <3>1. Len(hdrs) \in Nat /\ Len(hdrs) # 0
      BY <1>1, <1>5, EmptySeq, LenProperties DEF Typed
    <3>2. Len(hdrs) \in 1 .. Len(hdrs)
      BY <3>1
    <3>3. hdrs[Len(hdrs)] \in HeaderType
      BY <1>1, <3>2, ElementOfSeq DEF Typed
    <3>4. QED
      BY <3>3 DEF Newest, HeaderType
  <2>2. AllCounted
    BY <1>1, <1>3, <1>5, <2>1, KindsAre DEF Uncounted, Lower, Tags
  <2>3. QED
    BY <2>2 DEF AllCounted
<1>6. QED
  BY <1>4, <1>5

(* Layer 2 is mixed, and is not the last IP layer.                         *)
LEMMA NoneOfLayer2 ==
    ASSUME IInv, ~UnmixedTags, NEW k \in 1 .. Len(layers), ~Mixed(k)
    PROVE  layers[k].type \notin Lower
<1> SUFFICES ASSUME layers[k].type \in Lower PROVE FALSE
  OBVIOUS
<1>1. Typed /\ Sorted /\ LastIp /\ Mixes
  BY DEF IInv
<1>2. layers[k].mix
  BY <1>1 DEF Mixes
<1>3. k = last["Ip"] + 1
  BY <1>2 DEF Mixed
<1>4. CASE IpHeaders = {}
  <2>1. last["Ip"] = 255
    BY <1>1, <1>4 DEF LastIp, None
  <2>2. PICK m \in 0 .. 255, n \in Nat, h \in Nat :
           m = MaxHeaders /\ n = Len(layers) /\ h = Len(hdrs)
    <3>1. MaxHeaders \in 0 .. 255 /\ Len(layers) \in Nat /\ Len(hdrs) \in Nat
      BY <1>1, BuildIs, LayersAre, LenProperties DEF Typed
    <3>2. QED
      BY <3>1
  <2>3. n <= h /\ h <= m
    BY <1>1, <2>2 DEF Typed
  <2>4. k <= n /\ k = 256
    BY <1>3, <2>1, <2>2
  <2>5. QED
    BY <2>2, <2>3, <2>4
<1>5. CASE IpHeaders # {}
  <2>1. layers[k].hdr \in IpHeaders
    BY <1>1, <1>3, <1>5 DEF LastIp, IsLast
  <2>2. layers[k].type = "Ip4"
    BY <1>1, <2>1 DEF Sorted, IpHeaders
  <2>3. QED
    BY <2>2 DEF Lower, Tags
<1>6. QED
  BY <1>4, <1>5

LEMMA KeyIs ==
    ASSUME IInv, AllHaveAddresses, ~UnmixedTags
    PROVE  /\ InKey = Within({j \in DOMAIN layers : ~Mixed(j)})
           /\ InKey = Within({j \in 1 .. LayersCnt : ~Mixed(j) /\ layers[j].type \notin Tags})
           /\ InKey \subseteq 1 .. Len(layers)
           /\ \A k \in InKey : layers[k].type \notin Lower
<1>1. DOMAIN layers = 1 .. Len(layers) /\ LayersCnt = Len(layers)
  BY AllLayersCount, LayersAre DEF IInv
<1>2. \A k \in 1 .. Len(layers) : ~Mixed(k) => layers[k].type \notin Lower
  BY NoneOfLayer2
<1>3. {j \in 1 .. LayersCnt : ~Mixed(j) /\ layers[j].type \notin Tags} = {j \in 1 .. LayersCnt : ~Mixed(j)}
  BY <1>1, <1>2 DEF Lower
<1>4. InKey = Within({j \in 1 .. LayersCnt : ~Mixed(j)})
  BY DEF InKey
<1>5. \A k \in InKey : k \in 1 .. Len(layers) /\ ~Mixed(k)
  BY <1>1, <1>4 DEF Within
<1>6. QED
  BY <1>1, <1>2, <1>3, <1>4, <1>5

LEMMA PairsAre ==
    ASSUME IInv, AllHaveAddresses, Sided, NEW b \in Alike, NEW k \in InKey
    PROVE  Paired(hdrs[layers[k].hdr], b[layers[k].hdr])
<1>1. Typed /\ Met /\ Sorted
  BY DEF IInv
<1>2. k \in 1 .. Len(layers) /\ layers[k].type \notin Lower /\ k \in DOMAIN layers
  BY <1>1, KeyIs, LayersAre DEF Sided
<1>3. PICK i \in 1 .. Len(hdrs) : i = layers[k].hdr /\ layers[k].type = hdrs[i].type
  BY <1>1, <1>2 DEF Sorted
<1>4. Counterpart(hdrs[i], b[i])
  BY <1>1, AlikeIs
<1>5. hdrs[i] \in HeaderType /\ b[i] \in HeaderType
  BY <1>1, <1>4, ElementOfSeq DEF Typed, Counterpart
<1>6. hdrs[i].type \in Kinds /\ hdrs[i].type \notin Lower /\ hdrs[i].type # "Eth"
  BY <1>2, <1>3, <1>5 DEF HeaderType, Lower
<1>7. hdrs[i].type \in Plain
  <2>1. TypeLength[hdrs[i].type] > 0
    BY <1>2, <1>3 DEF AllHaveAddresses
  <2>2. QED
    BY <1>6, <2>1, KindsAre DEF Plain, Lower, Tags
<1>8. ASSUME hdrs[i].type = "Isup"
      PROVE  hdrs[i].src = b[i].src /\ hdrs[i].dst = b[i].src /\ b[i].dst = b[i].src
  <2>1. Addressed(hdrs[i])
    BY <1>1 DEF Met
  <2>2. "Isup" \in build.types \cup build.first /\ build \in Builds
    BY <1>1, <1>8, <2>1 DEF Addressed, Types, First, Typed
  <2>3. \A v, w \in Values : v = w
    BY <2>2 DEF Sided, Values
  <2>4. QED
    BY <1>4, <2>3 DEF Counterpart
<1>9. /\ hdrs[i].src \in Nat /\ hdrs[i].dst \in Nat /\ b[i].src \in Nat /\ b[i].dst \in Nat
  BY <1>5 DEF HeaderType
<1>10. Paired(hdrs[i], b[i])
  BY <1>4, <1>5, <1>6, <1>7, <1>8, <1>9 DEF Counterpart, Paired
<1>11. QED
  BY <1>3, <1>10

(* The kinds in the key.                                                   *)
LEMMA LengthsAre ==
    ASSUME NEW t \in Plain
    PROVE  /\ t = "Isup" => TypeLength[t] = 1
           /\ t # "Isup" => TypeLength[t] > 1 /\ TypeLength[t] # 0 /\ TypeLength[t] # 1
           /\ t \notin Tags
  BY DEF Plain, TypeLength, Tags

(* The addresses of a header under one side are those of its counterpart   *)
(* under another.                                                          *)
LEMMA AddressesTell ==
    ASSUME NEW x, NEW y, Paired(x, y), NEW s \in BOOLEAN, NEW t \in BOOLEAN
    PROVE  (Addresses(x, s) = Addresses(y, t)) <=> IF s = t THEN Agree(x, y) ELSE Agree(x, Back(y))
<1>1. /\ y.type = x.type /\ x.type \in Plain /\ x.next = x.dst /\ y.next = y.dst /\ y \in HeaderType
      /\ x.type = "Isup" => x.src = y.src /\ x.dst = y.src /\ y.dst = y.src
  BY DEF Paired
<1>2. CASE x.type = "Isup"
  <2>1. TypeLength[x.type] = 1 /\ TypeLength[y.type] = 1
    BY <1>1, <1>2, LengthsAre
  <2>2. Addresses(x, s) = <<x.src>> /\ Addresses(y, t) = <<y.src>>
    BY <2>1 DEF Addresses
  <2>3. Back(y) = y
    BY <1>1, <1>2, BackIs
  <2>4. QED
    BY <1>1, <1>2, <2>2, <2>3 DEF Agree
<1>3. CASE x.type # "Isup"
  <2>1. /\ TypeLength[x.type] > 1 /\ TypeLength[x.type] # 0 /\ TypeLength[x.type] # 1
        /\ x.type \notin Tags
    BY <1>1, <1>3, LengthsAre
  <2>2. /\ Addresses(x, s) = IF s THEN <<x.src, x.dst>> ELSE <<x.dst, x.src>>
        /\ Addresses(y, t) = IF t THEN <<y.src, y.dst>> ELSE <<y.dst, y.src>>
    BY <1>1, <2>1 DEF Addresses
  <2>3. Back(y).src = y.dst /\ Back(y).dst = y.src
    BY <1>1, <1>3, <2>1, BackIs
  <2>4. /\ Agree(x, y) <=> x.src = y.src /\ x.dst = y.dst
        /\ Agree(x, Back(y)) <=> x.src = y.dst /\ x.dst = y.src
    BY <2>3 DEF Agree
  <2>5. QED
    BY <2>2, <2>4
<1>4. QED
  BY <1>2, <1>3

Same(b) == \A k \in InKey : Agree(hdrs[layers[k].hdr], b[layers[k].hdr])
Opposite(b) == \A k \in InKey : Agree(hdrs[layers[k].hdr], Back(b[layers[k].hdr]))

LEMMA KeyTells ==
    ASSUME IInv, AllHaveAddresses, Sided, NEW b \in Alike, NEW s \in BOOLEAN, NEW t \in BOOLEAN
    PROVE  cmpAddresses(b, fillAddresses(hdrs, s), t) <=> IF s = t THEN Same(b) ELSE Opposite(b)
<1> DEFINE x(k) == hdrs[layers[k].hdr]
           y(k) == b[layers[k].hdr]
           key == fillAddresses(hdrs, s)
<1>1. DOMAIN key = InKey /\ \A k \in InKey : key[k] = Addresses(x(k), s)
  BY DEF fillAddresses
<1>2. cmpAddresses(b, key, t) <=> \A k \in InKey : Addresses(x(k), s) = Addresses(y(k), t)
  BY <1>1 DEF cmpAddresses
<1>3. ASSUME NEW k \in InKey
      PROVE  (Addresses(x(k), s) = Addresses(y(k), t))
                <=> IF s = t THEN Agree(x(k), y(k)) ELSE Agree(x(k), Back(y(k)))
  <2>1. Paired(x(k), y(k))
    BY PairsAre
  <2>2. QED
    BY <2>1, AddressesTell
<1>4. CASE s = t
  BY <1>2, <1>3, <1>4 DEF Same
<1>5. CASE s # t
  BY <1>2, <1>3, <1>5 DEF Opposite
<1>6. QED
  BY <1>4, <1>5

(* Same direction: the same layer decides, in the same way.                *)
LEMMA SameSide ==
    ASSUME IInv, AllHaveAddresses, Sided, NEW b \in Alike, Same(b)
    PROVE  /\ calcSide(hdrs) = calcSide(b)
           /\ isSrcLowerAddr(hdrs) = isSrcLowerAddr(b)
<1> DEFINE x(k) == hdrs[layers[k].hdr]
           y(k) == b[layers[k].hdr]
<1>1. ASSUME NEW k \in InKey
      PROVE  /\ x(k).src = y(k).src /\ x(k).next = y(k).next
             /\ Differ(x(k)) <=> Differ(y(k))
  <2>1. Paired(x(k), y(k)) /\ Agree(x(k), y(k))
    BY PairsAre DEF Same
  <2>2. y(k).type = x(k).type /\ x(k).src = y(k).src /\ x(k).next = y(k).next
    BY <2>1 DEF Paired, Agree
  <2>3. QED
    BY <2>2 DEF Differ
<1>2. Deciding(hdrs, InKey) = Deciding(b, InKey) /\ Deciding(b, InKey) \subseteq InKey
  BY <1>1 DEF Deciding
<1>3. calcSide(hdrs) <=> calcSide(b)
  BY <1>1, <1>2 DEF calcSide
<1>4. /\ isSrcLowerAddr(hdrs) = \E k \in Deciding(hdrs, InKey) : x(k).src < x(k).next
      /\ isSrcLowerAddr(b) = \E k \in Deciding(b, InKey) : y(k).src < y(k).next
  BY KeyIs DEF isSrcLowerAddr, Sided
<1>5. isSrcLowerAddr(hdrs) <=> isSrcLowerAddr(b)
  BY <1>1, <1>2, <1>4
<1>6. calcSide(hdrs) \in BOOLEAN /\ calcSide(b) \in BOOLEAN
  BY DEF calcSide
<1>7. isSrcLowerAddr(hdrs) \in BOOLEAN /\ isSrcLowerAddr(b) \in BOOLEAN
  BY DEF isSrcLowerAddr
<1>8. QED
  BY <1>3, <1>5, <1>6, <1>7

(* The last of a set of layers.                                            *)
LEMMA LastLayer ==
    ASSUME NEW n \in Nat, NEW K, K \subseteq 1 .. n, K # {}
    PROVE  \E d \in K : \A k \in K : k <= d
<1> DEFINE T == {m \in Nat : \A k \in K : k <= m}
<1>1. n \in T
  OBVIOUS
<1>2. PICK m \in T : \A i \in T : m <= i
  <2> HIDE DEF T
  <2>1. T \subseteq Nat
    BY DEF T
  <2>2. QED
    BY <1>1, <2>1, LeastNumber
<1>3. m \in K
  <2> SUFFICES ASSUME m \notin K PROVE FALSE
    OBVIOUS
  <2>1. m \in Nat /\ \A k \in K : k \in Nat /\ k > 0 /\ k <= m /\ k # m
    BY <1>2
  <2>2. m > 0 /\ m - 1 \in Nat /\ \A k \in K : k <= m - 1
    <3>1. PICK k \in K : TRUE
      OBVIOUS
    <3>2. m > 0
      BY <2>1, <3>1
    <3>3. QED
      BY <2>1, <3>2
  <2>3. m - 1 \in T
    BY <2>2
  <2>4. m <= m - 1
    BY <1>2, <2>3
  <2>5. QED
    BY <2>1, <2>4
<1>4. QED
  BY <1>2, <1>3

(* Opposite directions: the same layer decides, the other way, unless no   *)
(* layer tells the directions apart.                                       *)
LEMMA OppositeSide ==
    ASSUME IInv, AllHaveAddresses, Sided, NEW b \in Alike, Opposite(b), ~Same(b)
    PROVE  /\ calcSide(hdrs) # calcSide(b)
           /\ isSrcLowerAddr(hdrs) # isSrcLowerAddr(b)
<1> DEFINE x(k) == hdrs[layers[k].hdr]
           y(k) == b[layers[k].hdr]
           D == {k \in InKey : Differ(x(k))}
<1>1. ASSUME NEW k \in InKey
      PROVE  /\ Differ(x(k)) <=> Differ(y(k))
             /\ Differ(x(k)) => /\ x(k).src = y(k).next /\ x(k).next = y(k).src /\ x(k).src # x(k).next
                                /\ x(k).src \in Nat /\ x(k).next \in Nat
             /\ ~Differ(x(k)) => Agree(x(k), y(k))
  <2>1. Paired(x(k), y(k)) /\ Agree(x(k), Back(y(k)))
    BY PairsAre DEF Opposite
  <2>2. /\ y(k).type = x(k).type /\ x(k).type \in Plain /\ y(k) \in HeaderType
        /\ x(k).src \in Nat /\ x(k).dst \in Nat
        /\ x(k).next = x(k).dst /\ y(k).next = y(k).dst
        /\ x(k).type = "Isup" => x(k).src = y(k).src /\ x(k).dst = y(k).src /\ y(k).dst = y(k).src
    BY <2>1 DEF Paired
  <2>3. CASE x(k).type = "Isup"
    BY <2>2, <2>3, LengthsAre DEF Differ, Agree
  <2>4. CASE x(k).type # "Isup"
    <3>1. TypeLength[x(k).type] > 1 /\ x(k).type \notin Tags
      BY <2>2, <2>4, LengthsAre
    <3>2. x(k).src = y(k).dst /\ x(k).dst = y(k).src
      BY <2>1, <2>2, <2>4, <3>1, BackIs DEF Agree
    <3>3. /\ Differ(x(k)) <=> x(k).src # x(k).dst
          /\ Differ(y(k)) <=> y(k).src # y(k).dst
      BY <2>2, <3>1 DEF Differ
    <3>4. QED
      BY <2>2, <3>2, <3>3 DEF Agree
  <2>5. QED
    BY <2>3, <2>4
<1>2. PICK d \in D : \A k \in D : k <= d
  <2>1. D # {}
    <3>1. PICK k \in InKey : ~Agree(x(k), y(k))
      BY DEF Same
    <3>2. QED
      BY <1>1, <3>1
  <2>2. Len(layers) \in Nat /\ D \subseteq 1 .. Len(layers)
    BY KeyIs, LayersAre DEF IInv, Sided
  <2>3. QED
    BY <2>1, <2>2, LastLayer
<1>3. InKey \subseteq Nat
  BY KeyIs DEF Sided
<1>4. Deciding(hdrs, InKey) = {d}
  <2>1. \A k \in D : (\A j \in InKey : j > k => ~Differ(x(j))) <=> k = d
    BY <1>2, <1>3
  <2>2. Deciding(hdrs, InKey) = {k \in D : \A j \in InKey : j > k => ~Differ(x(j))}
    BY DEF Deciding
  <2>3. QED
    BY <1>2, <2>1, <2>2
<1>5. Deciding(b, InKey) = Deciding(hdrs, InKey)
  BY <1>1 DEF Deciding
<1>6. /\ x(d).src = y(d).next /\ x(d).next = y(d).src /\ x(d).src # x(d).next
      /\ x(d).src \in Nat /\ x(d).next \in Nat
  BY <1>1, <1>2
<1>7. Deciding(b, InKey) = {d}
  BY <1>4, <1>5
<1>8. /\ calcSide(hdrs) <=> x(d).src > x(d).next
      /\ calcSide(b) <=> y(d).src > y(d).next
  BY <1>4, <1>7, Zenon DEF calcSide
<1>9. InKey = Within({j \in 1 .. LayersCnt : ~Mixed(j) /\ layers[j].type \notin Tags})
  BY KeyIs DEF Sided
<1>10. /\ isSrcLowerAddr(hdrs) <=> x(d).src < x(d).next
       /\ isSrcLowerAddr(b) <=> y(d).src < y(d).next
  BY <1>4, <1>7, <1>9, Zenon DEF isSrcLowerAddr
<1>11. (x(d).src > x(d).next) # (y(d).src > y(d).next) /\ (x(d).src < x(d).next) # (y(d).src < y(d).next)
  BY <1>6
<1>12. QED
  BY <1>8, <1>10, <1>11

LEMMA KeyIsOfFlow ==
    ASSUME IInv, AllHaveAddresses, Sided, NEW b \in Alike
    PROVE  /\ cmpAddresses(b, fillAddresses(hdrs, calcSide(hdrs)), calcSide(b)) <=> SameFlow(hdrs, b)
           /\ cmpAddresses(b, fillAddresses(hdrs, isSrcLowerAddr(hdrs)), isSrcLowerAddr(b))
                 <=> SameFlow(hdrs, b)
<1>1. SameFlow(hdrs, b) <=> Same(b) \/ Opposite(b)
  <2>1. Identifying = {layers[k].hdr : k \in InKey}
    BY KeyIs DEF Identifying, Sided
  <2>2. QED
    BY <2>1 DEF SameFlow, Same, Opposite
<1>2. ASSUME NEW s \in BOOLEAN, NEW t \in BOOLEAN, Same(b) => s = t, Opposite(b) /\ ~Same(b) => s # t
      PROVE  cmpAddresses(b, fillAddresses(hdrs, s), t) <=> SameFlow(hdrs, b)
  <2>1. cmpAddresses(b, fillAddresses(hdrs, s), t) <=> IF s = t THEN Same(b) ELSE Opposite(b)
    BY KeyTells
  <2>2. QED
    BY <1>1, <1>2, <2>1
<1>3. PICK s \in BOOLEAN, t \in BOOLEAN : s = calcSide(hdrs) /\ t = calcSide(b)
  BY DEF calcSide
<1>4. PICK u \in BOOLEAN, w \in BOOLEAN : u = isSrcLowerAddr(hdrs) /\ w = isSrcLowerAddr(b)
  BY DEF isSrcLowerAddr
<1>5. (Same(b) => s = t) /\ (Opposite(b) /\ ~Same(b) => s # t)
  BY <1>3, SameSide, OppositeSide
<1>6. (Same(b) => u = w) /\ (Opposite(b) /\ ~Same(b) => u # w)
  BY <1>4, SameSide, OppositeSide
<1>7. /\ cmpAddresses(b, fillAddresses(hdrs, s), t) <=> SameFlow(hdrs, b)
      /\ cmpAddresses(b, fillAddresses(hdrs, u), w) <=> SameFlow(hdrs, b)
  BY <1>2, <1>5, <1>6
<1>8. QED
  BY <1>3, <1>4, <1>7

(* fillAddresses, cmpAddresses, calcSide and isSrcLowerAddr: a packet is   *)
(* found under the key of another exactly if both belong to one flow, in   *)
(* whichever direction, for builds whose key tells flows apart (Sided) and *)
(* stacks whose layers all have addresses.                                 *)
THEOREM KeyOfFlow ==
    ASSUME Sided
    PROVE  Spec => []FlowIdentityOfAddresses
<1>1. IInv => FlowIdentityOfAddresses
  BY KeyIsOfFlow DEF FlowIdentityOfAddresses, FlowIdentity
<1>2. QED
  BY <1>1, Invariance, PTL
==============================================================================
