--------------------------- MODULE KernelModules ----------------------------
(***************************************************************************)
(* The table of the kernel's modules, as the build generates it            *)
(* (KernelModuleManifestData.c): what each needs ready, the profile and    *)
(* BootInfo tokens that select it, whether the build must hold it and      *)
(* whether its failure is fatal.                                           *)
(***************************************************************************)

\* One row of the table (SetModule).
Item(requires, selects, required, fatal) ==
    [requires |-> requires, selects |-> selects, required |-> required,
     fatal |-> fatal]

\* OrynKernelModuleManifestInit as generated: identifiers are positions.
KernelManifest ==
    <<Item({}, {}, TRUE, TRUE),                                    \* 1 BootInfo
      Item({}, {}, TRUE, TRUE),                                    \* 2 ScreenReport
      Item({}, {}, TRUE, TRUE),                                    \* 3 LibC
      Item({}, {}, TRUE, TRUE),                                    \* 4 Lifecycle
      Item({1}, {}, TRUE, TRUE),                                   \* 5 Panic
      Item({}, {}, TRUE, TRUE),                                    \* 6 GDT
      Item({6}, {}, TRUE, TRUE),                                   \* 7 IDT
      Item({6, 7}, {}, TRUE, TRUE),                                \* 8 Interrupts
      Item({6, 7}, {}, TRUE, TRUE),                                \* 9 SysCalls
      Item({}, {}, TRUE, TRUE),                                    \* 10 CPU
      Item({10, 8}, {"VmPic"}, FALSE, TRUE),                       \* 11 PIC
      Item({10, 8, 11}, {"VmApic"}, FALSE, TRUE),                  \* 12 APIC
      Item({12}, {"VmSmp", "Rsdp"}, FALSE, FALSE),                 \* 13 SMP
      Item({1, 8}, {"VmHpet", "Rsdp"}, FALSE, FALSE),              \* 14 HPET
      Item({1}, {"Rsdp"}, FALSE, FALSE),                           \* 15 PCI
      Item({1}, {"Framebuffer"}, FALSE, FALSE),                    \* 16 Console
      Item({16, 8, 11}, {"Framebuffer", "VmPic"}, FALSE, FALSE),   \* 17 Keyboard
      Item({16}, {"Framebuffer"}, FALSE, FALSE),                   \* 18 FAT32
      Item({18}, {"Framebuffer"}, FALSE, FALSE),                   \* 19 VFS
      Item({1}, {"MemoryMap"}, FALSE, TRUE),                       \* 20 PhysicalMemory
      Item({20}, {"MemoryMap"}, FALSE, TRUE),                      \* 21 Heap
      Item({21}, {"MemoryMap", "KernelRange"}, FALSE, TRUE),       \* 22 VirtualMemory
      Item({22}, {"MemoryMap", "KernelRange"}, FALSE, TRUE),       \* 23 Process
      Item({23, 21}, {"MemoryMap", "KernelRange"}, FALSE, TRUE)>>  \* 24 Scheduler
=============================================================================
