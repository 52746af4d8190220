------------------------------- MODULE TaSpi -------------------------------
(***************************************************************************)
(* The SPI device of the trusted app, silead_fp_spi.c.  The app has one    *)
(* thread, so each function is given as the set of states it may end in,   *)
(* for the session (TaSession) to compose.                                 *)
(*                                                                         *)
(* The functions are reached through the matching library's fp_spi_*,      *)
(* taken to pass each call on.  qsee_spi_open and qsee_spi_close fail or    *)
(* not, as they like; a close that fails leaves the device as it was.      *)
(* The configuration of a transfer (m_spi_config) is data and left out.    *)
(***************************************************************************)
CONSTANTS
  Device,         \* qsee_spi_device_id_t
  DefaultDevice,  \* the initial SPI_DEV
  NoDevice        \* a device number that fp_spi_init ignores (0 or 0xFF)

ASSUME DeviceAssumption == DefaultDevice \in Device /\ NoDevice \notin Device

(* SPI_DEV, m_spi_opened, and the devices the secure OS has open.  Two      *)
(* auxiliary fields: the devices nobody will close any more, because their  *)
(* close failed or another one was chosen while they were open; and whether *)
(* the device marked open was chosen while another one was.                 *)
SpiState == [dev : Device, opened : BOOLEAN, bus : SUBSET Device,
             left : SUBSET Device, moved : BOOLEAN]
SpiStart == [dev |-> DefaultDevice, opened |-> FALSE, bus |-> {}, left |-> {}, moved |-> FALSE]

(* _fp_spi_open.  A device that does not open is closed, which may fail too *)
(* if it is open after all, and tried once more.                            *)
AfterOpen(s) ==
  IF s.opened THEN {s}
  ELSE {[s EXCEPT !.opened = TRUE, !.bus = @ \cup {s.dev}, !.left = @ \ {s.dev}],
        [s EXCEPT !.bus = @ \ {s.dev}, !.left = @ \ {s.dev}],
        s}

(* _fp_spi_close: the device is marked closed whether or not it closed.     *)
AfterClose_StaysMarked(s) ==
  IF s.opened THEN {[s EXCEPT !.bus = @ \ {s.dev}]} ELSE {s}

AfterClose(s) ==
  IF ~s.opened THEN {s}
  ELSE {[s EXCEPT !.opened = FALSE, !.moved = FALSE, !.bus = @ \ {s.dev}, !.left = @ \ {s.dev}],
        [s EXCEPT !.opened = FALSE, !.moved = FALSE, !.left = @ \cup ({s.dev} \cap s.bus)]}

(* fp_spi_init: the device the client names, if it names one, whatever is   *)
(* open.                                                                    *)
Chosen(s, d) ==
  IF d \notin Device \/ d = s.dev THEN s
  ELSE [s EXCEPT !.dev = d, !.moved = s.opened,
                 !.left = IF s.opened THEN @ \cup ({s.dev} \cap s.bus) ELSE @]

AfterInit(s, d) == AfterOpen(Chosen(s, d))

(* fp_spi_read, fp_spi_write: a transfer opens the device when need be.     *)
AfterTransfer(s) == AfterOpen(s)

(* The device marked open is open unless another one was when it was        *)
(* chosen, and no other device is open but those left open.                 *)
DeviceIsOpen(s) ==
  /\ s.opened => s.moved \/ s.dev \in s.bus
  /\ s.bus \subseteq s.left \cup (IF s.opened THEN {s.dev} ELSE {})
=============================================================================
