-------------------------------- MODULE I2cBus --------------------------------
(***************************************************************************)
(* i2cbus (src/src/ports/common/i2c/mod_i2cbus.c): a call is collected in  *)
(* the object's vstr behind a control byte and sent as one transaction.    *)
(* Any step of the collecting may raise and leave a part of it behind.     *)
(***************************************************************************)
EXTENDS Naturals, Sequences

CONSTANTS None, Messages     \* as in SpiBus

VARIABLES
  bus,      \* the object: "open" or "deinited", and its vstr
  sending,  \* the call in progress, or None
  panel     \* the last transaction, of the call in progress

vars == <<bus, sending, panel>>

CoCmd == 0
CoData == 64

Init == /\ bus = [state |-> "open", vstr |-> << >>]
        /\ sending = None
        /\ panel = << >>

\* A new object in place of this one.
Make == /\ sending = None
        /\ bus' = [state |-> "open", vstr |-> << >>]
        /\ UNCHANGED <<sending, panel>>

Deinit == /\ sending = None
          /\ bus' = [state |-> "deinited", vstr |-> << >>]
          /\ UNCHANGED <<sending, panel>>

\* A call begins with vstr_reset() and the control byte.  send() adds the
\* command, an integer or a buffer, and then the data.
BeginAppending(control, command, data) ==     \* mutant: no vstr_reset()
  /\ sending = None
  /\ bus.state = "open"
  /\ bus' = [bus EXCEPT !.vstr = Append(@, control)]
  /\ sending' = [control |-> control, args |-> <<command, data>>, i |-> 1]
  /\ panel' = << >>
Begin(control, command, data) ==
  /\ sending = None
  /\ bus.state = "open"
  /\ bus' = [bus EXCEPT !.vstr = <<control>>]
  /\ sending' = [control |-> control, args |-> <<command, data>>, i |-> 1]
  /\ panel' = << >>

\* send_data() looks at its buffer before vstr_reset(): one it refuses changes
\* nothing.
Send(command, data) == Begin(CoCmd, command, data)
SendData(data) == Begin(CoData, << >>, data)

AddArgument ==
  /\ sending # None /\ sending.i <= Len(sending.args)
  /\ bus' = [bus EXCEPT !.vstr = @ \o sending.args[sending.i]]
  /\ sending' = [sending EXCEPT !.i = @ + 1]
  /\ UNCHANGED panel

\* i2cbus_writeto().
Writeto ==
  /\ sending # None /\ sending.i = Len(sending.args) + 1
  /\ panel' = bus.vstr
  /\ sending' = [sending EXCEPT !.i = @ + 1]
  /\ UNCHANGED bus

\* An argument is no buffer, there is no memory for it, or the panel does
\* not acknowledge.
Raise ==
  /\ sending # None /\ sending.i <= Len(sending.args) + 1
  /\ sending' = None
  /\ panel' = << >>
  /\ UNCHANGED bus

Return ==
  /\ sending # None /\ sending.i > Len(sending.args) + 1
  /\ sending' = None
  /\ panel' = << >>
  /\ UNCHANGED bus

Next == \/ Make \/ Deinit
        \/ \E m \in Messages : Send(m[1], m[2]) \/ SendData(m[2])
        \/ AddArgument \/ Writeto \/ Raise \/ Return

-----------------------------------------------------------------------------
\* The panel gets the control byte and the arguments of this call, whatever
\* an earlier one that raised has left behind.
PanelGetsBytes ==
  sending # None /\ panel # << >> =>
    panel = <<sending.control>> \o sending.args[1] \o sending.args[2]
=============================================================================
