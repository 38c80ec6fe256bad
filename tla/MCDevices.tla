----------------------------- MODULE MCDevices -----------------------------
(***************************************************************************)
(* Every blob of up to three nodes and three properties: cells declared at *)
(* one node and used below it, none at all, values the parser refuses, an  *)
(* empty and a longer list of compatible strings.  Beyond these bounds,    *)
(* boards with two or three devices in any order: PLICs, UARTs and virtio   *)
(* devices, with usable and unusable registers, on a bus or at the root,   *)
(* below a root with the cells the drivers need or with the default.       *)
(***************************************************************************)
EXTENDS Devices

SomeProperties ==
  {[name |-> "compatible", value |-> v] : v \in {<< >>, <<"uart", "plic">>}} \union
  {[name |-> "#address-cells", value |-> v] : v \in {0, 1, 4}} \union
  {[name |-> "#size-cells", value |-> v] : v \in {0, 3}} \union
  {[name |-> "reg", value |-> 2]}

Is(name, value) == Property([name |-> name, value |-> value])

Node(name, content) == <<Start(name)>> \o content \o <<NodeEnd>>

Device(compatible, cells) ==
  Node("soc", <<Is("compatible", compatible), Is("reg", cells)>>)

SomeDevices ==
  {Device(<<"sifive,plic-1.0.0", "riscv,plic0">>, cells) : cells \in {4, 8}} \union
  {Device(<<"ns16550a">>, cells) : cells \in {4, 8}} \union
  {Device(<<"virtio,mmio">>, 4),
   Device(<<"ns16550a", "virtio,mmio", "ns16550a">>, 4),
   Node("soc", <<Is("compatible", <<"ns16550a">>)>>)}

GoodDevices ==
  {Device(<<"sifive,plic-1.0.0", "riscv,plic0">>, 4), Device(<<"ns16550a">>, 4),
   Device(<<"virtio,mmio">>, 4)}

Boards == [1..2 -> SomeDevices] \union [1..3 -> GoodDevices]

SomeBlobs ==
  {Node("", <<Is("#size-cells", 2)>> \o FlattenSeq(b)) : b \in Boards} \union
  {Node("", <<Is("#size-cells", 2)>> \o Node("soc", <<Is("phandle", 7)>> \o b[1]) \o
            Node("soc", <<Is("phandle", 8)>>) \o b[2]) :
     b \in [1..2 -> GoodDevices]} \union
  {Node("", Device(<<"riscv,plic0">>, 3)),
   Node("", <<Is("#address-cells", 3)>> \o Device(<<"riscv,plic0">>, 4))}

SomeVirtioDevices ==
  [magic : {FALSE}, version : {1}, device_id : {"RESERVED"}, accepts : {FALSE}] \union
  [magic : {TRUE}, version : {2, 3}, device_id : {"RESERVED"}, accepts : {FALSE}] \union
  [magic : {TRUE}, version : {1}, device_id : {"RESERVED", "NETWORK"}, accepts : {FALSE}] \union
  [magic : {TRUE}, version : {1}, device_id : {"BLOCK_DEVICE"}, accepts : BOOLEAN]
=============================================================================
