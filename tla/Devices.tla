------------------------------ MODULE Devices ------------------------------
(***************************************************************************)
(* kernel_c_entry from the device tree blob to the end of devices_init:    *)
(* the parser of DeviceTree runs first, and what it returned decides       *)
(* whether device.c walks over its tree and sets up a driver for the PLIC, *)
(* for every UART and for every virtio device it finds.  Interrupts are    *)
(* off all the while, so the setup of one device is one step.  Registers   *)
(* of virtio devices are chosen when the driver looks at them.  Memory     *)
(* suffices, as in DeviceTree.                                             *)
(***************************************************************************)
EXTENDS DeviceTree

CONSTANTS
  VirtioDevices,   \* what may be found at the address of a virtio device
  bsp_hartid,      \* the hart that boots
  map_capacity     \* entries of hart_plic_map, 512 in a page

\* The registers of a virtio device the kernel reads; device_id is one that
\* virtio_mmio_device_legacy_initialize tells apart or any other, and accepts
\* whether the device leaves FEATURES_OK set when it is written.
VirtioRegisters ==
  [magic : BOOLEAN, version : Nat, device_id : {"RESERVED", "BLOCK_DEVICE", "NETWORK"},
   accepts : BOOLEAN]

ASSUME DevicesAssumption ==
  /\ map_capacity \in Nat /\ bsp_hartid \in 0..(map_capacity - 1)
  /\ VirtioDevices \subseteq VirtioRegisters

VARIABLES
  boot,            \* "parse", "walk", "done", or where it ended: "panic", "todo", "fault"
  calls,           \* calls of devices_recursive_initialize left: [node, i]
  drivers, driver_count,
  blocks, freed,   \* driver_node_arena: its blocks, [type, node, base], and block_list
  hart_plic_map,
  driver_map,      \* entry 10 of the PLIC driver's map, the only one ever set
  status           \* the status register of the block device, a set of bits

bootVars == <<boot, calls, drivers, driver_count, blocks, freed, hart_plic_map,
              driver_map, status>>

arena == <<blocks, freed>>
registry == <<drivers, driver_count, hart_plic_map, driver_map>>

BootInit ==
  /\ Init
  /\ boot = "parse" /\ calls = << >>
  /\ drivers = << >> /\ driver_count = 0
  /\ blocks = << >> /\ freed = << >>
  /\ hart_plic_map = [h \in 0..(map_capacity - 1) |-> NULL]
  /\ driver_map = NULL /\ status = {}

End(how) ==
  /\ boot' = how
  /\ UNCHANGED <<calls, arena, registry, status>>

-----------------------------------------------------------------------------
(***************************************************************************)
(* The arena of driver nodes: freed blocks first, the last one freed       *)
(* before the others.                                                      *)
(***************************************************************************)
NewBlock == IF freed = << >> THEN Len(blocks) + 1 ELSE Head(freed)

Allocated(content) ==
  IF freed = << >> THEN Append(blocks, content) ELSE [blocks EXCEPT ![Head(freed)] = content]

\* The address in reg a driver is given, by its cells.
Address(n) == props[device_tree_get_property(n, "reg")].value.addresses[1]

DriverNode(type, n, base) == [type |-> type, node |-> n, base |-> base]

\* A driver node of the type for the tree node n, in front of the list.
Register(type, n) ==
  /\ blocks' = Allocated(DriverNode(type, n, Address(n)))
  /\ freed' = IF freed = << >> THEN freed ELSE Tail(freed)
  /\ drivers' = <<NewBlock>> \o drivers
  /\ driver_count' = driver_count + 1

\* The test of all three drivers: one address of two cells, one size of two.
UsableReg(n) ==
  LET reg == device_tree_get_property(n, "reg")
  IN  /\ reg # NULL
      /\ props[reg].type = "REG" /\ props[reg].value.n_pairs = 1
      /\ nodes[n].address_cells = 2 /\ nodes[n].size_cells = 2

-----------------------------------------------------------------------------
(***************************************************************************)
(* virtio/mmio.c and blk.c.  The codes virtio_mmio_driver_init returns for *)
(* a device, and whether it returns at all: version 2 and block devices    *)
(* end in TODO or PANIC.                                                   *)
(***************************************************************************)
legacy_code(device_id) ==
  IF device_id = "RESERVED" THEN EC_VIRTIO_INVALID_DEVICE ELSE EC_VIRTIO_UNSUPPORTED_DEVICE

virtio_mmio_code(d) ==
  CASE ~d.magic                       -> EC_VIRTIO_INVALID_MAGIC
    [] d.magic /\ d.version = 1        -> legacy_code(d.device_id)
    [] d.magic /\ d.version \notin {1, 2} -> EC_VIRTIO_UNSUPPORTED_VERSION

IsBlock(d) == d.magic /\ d.version = 1 /\ d.device_id = "BLOCK_DEVICE"

Returns(d) == ~IsBlock(d) /\ ~(d.magic /\ d.version = 2)

\* The handshake of block_driver_init.  The features written are those offered
\* & !(1 << RO), none at all.  The bit FEATURES_OK stays set if the device accepts
\* them; the driver gives the device up in just that case.
Handshake(d) ==
  {"ACKNOWLEDGE", "DRIVER_OK"} \union IF d.accepts THEN {"FEATURES_OK"} ELSE {}

block_driver_init(d) ==
  IF "FEATURES_OK" \in Handshake(d)
  THEN status' = {"FAILED"} /\ boot' = "todo"
  ELSE status' = Handshake(d) /\ boot' = "panic"

-----------------------------------------------------------------------------
(***************************************************************************)
(* devices_init: the PLIC, without which boot ends, then the walk.  It is  *)
(* called once, and finds the variables it resets as they are at first.    *)
(***************************************************************************)
devices_init ==
  LET plic_node == dt_node_from_compatible("riscv,plic0")
      found     == plic_node # NULL /\ UsableReg(plic_node)
  IN  \/ ~found /\ End("panic")
      \/ /\ found
         /\ Register("DEVICE_TYPE_PLIC", plic_node)
         /\ hart_plic_map' = [hart_plic_map EXCEPT ![bsp_hartid] = NewBlock]
         /\ boot' = "walk"
         /\ calls' = <<[node |-> root_node, i |-> 1]>>
         /\ UNCHANGED <<driver_map, status>>

\* What error_string reads behind its table is anything; boot ends all the same.
error_string_panic ==
  End("panic") \/ (error_top(err) >= EC_COUNT /\ End("fault"))

kernel_c_entry ==
  /\ boot = "parse" /\ state = "returned"
  /\ \/ error_is_err(err) /\ error_string_panic
     \/ error_is_ok(err) /\ devices_init

-----------------------------------------------------------------------------
(***************************************************************************)
(* devices_recursive_initialize, one step per string of a node's           *)
(* compatible list and one for its children.                               *)
(***************************************************************************)
Skip == calls' = [calls EXCEPT ![1].i = @ + 1] /\ UNCHANGED boot

uart_device(n) ==
  \/ ~UsableReg(n) /\ Skip /\ UNCHANGED <<arena, registry, status>>
  \/ /\ UsableReg(n) /\ Skip
     /\ Register("DEVICE_TYPE_UART", n)
     /\ driver_map' = NewBlock
     /\ UNCHANGED <<hart_plic_map, status>>

\* Mutant of virtio_failed: without the continue the freed block is listed.
virtio_failed_linked(n) ==
  /\ Skip
  /\ blocks' = Allocated(DriverNode("DEVICE_TYPE_VIRTIO_MMIO", n, Address(n)))
  /\ freed' = <<NewBlock>> \o (IF freed = << >> THEN freed ELSE Tail(freed))
  /\ drivers' = <<NewBlock>> \o drivers
  /\ driver_count' = driver_count + 1
  /\ UNCHANGED <<hart_plic_map, driver_map, status>>

\* The block is freed again; zeroed memory has the type of a virtio device.
virtio_failed(n) ==
  /\ Skip
  /\ blocks' = Allocated(DriverNode("DEVICE_TYPE_VIRTIO_MMIO", NULL, << >>))
  /\ freed' = <<NewBlock>> \o (IF freed = << >> THEN freed ELSE Tail(freed))
  /\ UNCHANGED <<registry, status>>

\* No device makes virtio_mmio_driver_init return success, so that the lines
\* that would list a virtio driver are never reached.
virtio_device(n, d) ==
  \/ ~UsableReg(n) /\ Skip /\ UNCHANGED <<arena, registry, status>>
  \/ UsableReg(n) /\ Returns(d) /\ error_is_err(virtio_mmio_code(d)) /\ virtio_failed(n)
  \/ /\ UsableReg(n) /\ ~Returns(d)
     /\ IF IsBlock(d) THEN block_driver_init(d) ELSE boot' = "todo" /\ UNCHANGED status
     /\ UNCHANGED <<calls, arena, registry>>

CompatibleString ==
  /\ boot = "walk" /\ calls # << >>
  /\ LET n == Head(calls).node
     IN  /\ Head(calls).i <= Len(nodes[n].compatible)
         /\ LET compat == nodes[n].compatible[Head(calls).i]
            IN  \/ compat = "ns16550a" /\ uart_device(n)
                \/ compat = "virtio,mmio" /\ \E d \in VirtioDevices : virtio_device(n, d)
                \/ /\ compat \notin {"ns16550a", "virtio,mmio"} /\ Skip
                   /\ UNCHANGED <<arena, registry, status>>

\* Mutant of ChildCalls: only the first child is visited.
FirstChildCall(n) ==
  IF nodes[n].children = NULL THEN << >> ELSE <<[node |-> nodes[n].children, i |-> 1]>>

ChildCalls(n) ==
  LET children == SiblingsFrom[nodes[n].children]
  IN  [k \in 1..Len(children) |-> [node |-> children[k], i |-> 1]]

Children ==
  /\ boot = "walk" /\ calls # << >>
  /\ LET n == Head(calls).node
     IN  /\ Head(calls).i > Len(nodes[n].compatible)
         /\ calls' = ChildCalls(n) \o Tail(calls)
  /\ UNCHANGED <<boot, arena, registry, status>>

WalkDone == boot = "walk" /\ calls = << >> /\ End("done")

BootNext ==
  \/ Next /\ UNCHANGED bootVars
  \/ (kernel_c_entry \/ CompatibleString \/ Children \/ WalkDone) /\ UNCHANGED vars

BootSpec == BootInit /\ [][BootNext]_<<vars, bootVars>>

\* The PLIC driver of a hart, NULL if it has none or its number is too large.
devices_get_plic_driver(hartid) ==
  IF hartid >= map_capacity THEN NULL ELSE hart_plic_map[hartid]

-----------------------------------------------------------------------------
\* What the blob says of a node: whether its reg is one address and one size
\* of two cells each, and how often it lists a compatible string.
RegInBlob(n) ==
  /\ Inherited("#address-cells", DEFAULT_ADDRESS_CELLS)[n] = 2
  /\ Inherited("#size-cells", DEFAULT_SIZE_CELLS)[n] = 2
  /\ Value(n, "reg") = {4}

Mentions(n, compat) ==
  LET places == UNION {{v} \X DOMAIN v : v \in Value(n, "compatible")}
  IN  Cardinality({p \in places : p[1][p[2]] = compat})

DriversOf(type, n) ==
  {k \in DOMAIN drivers : blocks[drivers[k]] = DriverNode(type, n, <<1, 2>>)}

(***************************************************************************)
(* The drivers agree with the blob.  Boot goes past the parser only with a *)
(* tree that parsed, whatever mixture of codes an error value is.  Boot    *)
(* does not stop in devices_init if every PLIC of the blob has a usable    *)
(* reg and there is one.  When the walk is over, the list holds the driver *)
(* of one PLIC of the blob and one driver per UART mentioned anywhere in   *)
(* the tree with a usable reg, each with the first two cells of reg as its *)
(* address, nothing else, and driver_count is its length.                  *)
(***************************************************************************)
DriversMatchTree ==
  /\ boot \in {"walk", "done", "todo"} => Succeeded
  /\ boot = "panic" /\ Succeeded /\ drivers = << >> =>
       LET plics == {n \in Tree : Mentions(n, "riscv,plic0") > 0}
       IN  plics = {} \/ \E n \in plics : ~RegInBlob(n)
  /\ boot = "done" =>
       /\ \A n \in Tree :
            Cardinality(DriversOf("DEVICE_TYPE_UART", n)) =
              IF RegInBlob(n) THEN Mentions(n, "ns16550a") ELSE 0
       /\ \E n \in Tree :
            /\ Mentions(n, "riscv,plic0") > 0 /\ RegInBlob(n)
            /\ Cardinality(DriversOf("DEVICE_TYPE_PLIC", n)) = 1
       /\ driver_count = Len(drivers)
       /\ Len(drivers) = 1 + Cardinality(UNION {DriversOf("DEVICE_TYPE_UART", n) : n \in Tree})

(***************************************************************************)
(* At every step of the walk, with devices failing in between, every block *)
(* of the arena is either on the list of drivers or free, never both and   *)
(* never twice; interrupt 10 goes to the driver of a UART that is listed,  *)
(* the last one set up; and the booting hart, no other, has the PLIC, so   *)
(* that the trap handler's devices_get_plic_driver is a live PLIC driver.  *)
(***************************************************************************)
RegisteredDriversLive ==
  /\ IsInjective(drivers \o freed)
  /\ ToSet(drivers) \union ToSet(freed) = DOMAIN blocks
  /\ LET first == SelectInSeq(drivers, LAMBDA b : blocks[b].type = "DEVICE_TYPE_UART")
     IN  driver_map = IF first = 0 THEN NULL ELSE drivers[first]
  /\ boot \in {"walk", "done"} =>
       \A h \in 0..map_capacity :
         LET plic == devices_get_plic_driver(h)
         IN  IF h = bsp_hartid
             THEN plic \in ToSet(drivers) /\ blocks[plic].type = "DEVICE_TYPE_PLIC"
             ELSE plic = NULL
=============================================================================
