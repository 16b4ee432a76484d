------------------------------ MODULE MCSubnet ------------------------------
(***************************************************************************)
(* The address arithmetic over all inputs of a small width: a state is an  *)
(* input, a step changes one bit of an address or the prefix.              *)
(***************************************************************************)
EXTENDS Subnet

VARIABLES ip, net, prefix

inputs == <<ip, net, prefix>>

Flip(a, i) == IF i \in a THEN a \ {i} ELSE a \cup {i}

Init == ip = {} /\ net = {} /\ prefix = W

FlipIp     == \E i \in Bit : ip' = Flip(ip, i) /\ UNCHANGED <<net, prefix>>
FlipNet    == \E i \in Bit : net' = Flip(net, i) /\ UNCHANGED <<ip, prefix>>
TakePrefix == \E n \in 1 .. W : prefix' = n /\ UNCHANGED <<ip, net>>

Next == FlipIp \/ FlipNet \/ TakePrefix

Spec == Init /\ [][Next]_inputs

(***************************************************************************)
(* The reference: addresses as they are written.  Written(n) is the        *)
(* position, in the u_int of a packet, of the n-th bit one writes.         *)
(***************************************************************************)
Written(n) == OctetBits * (n \div OctetBits) + (OctetBits - 1 - (n % OctetBits))

SameNetwork(a, b, p) == \A n \in 0 .. p - 1 : Written(n) \in a <=> Written(n) \in b

(***************************************************************************)
(* For a prefix of whole octets belongs_to_subnet, given the network       *)
(* ip_mask_to_network makes, tells exactly the addresses of that network   *)
(* from the others: what every search of the routing table rests on.       *)
(***************************************************************************)
AlignedMembers ==
  prefix % OctetBits = 0 =>
    (belongs_to_subnet(ip, ip_mask_to_network(net, prefix), prefix)
       <=> SameNetwork(ip, net, prefix))

(***************************************************************************)
(* A route survives the trip to a neighbour, for every prefix but 0: the   *)
(* mask RIP_generate_update puts in an entry, htonl(prefix_to_mask(..)),   *)
(* is the prefix RIP_parse_entry reads from it, and it masks the network   *)
(* number that create_port_struct computed to itself.                      *)
(***************************************************************************)
MaskTravels ==
  LET mask    == Swap(prefix_to_mask(prefix))
      network == ip_mask_to_network(ip, prefix)
  IN  /\ mask_to_prefix(mask) = prefix
      /\ network = ip \cap mask
      /\ SameNetwork(ip, network, prefix)

(***************************************************************************)
(* An interface's address belongs to the interface's own network, the one  *)
(* create_port_struct enters into the routing table: what                  *)
(* test_belongs_to_subnet expects of belongs_to_subnet.                    *)
(***************************************************************************)
InterfaceInItsNetwork ==
  belongs_to_subnet(ip, ip_mask_to_network(ip, prefix), prefix)
=============================================================================
