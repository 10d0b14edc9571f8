----------------------------- MODULE CosemClasses -----------------------------
(***************************************************************************)
(* The interface classes of include/dlms/cosem as tables: for the          *)
(* attributes 2, 3, ... of a class, the type of the C++ field that         *)
(* get_attribute returns and what set_attribute does.  Attribute 1 is the  *)
(* logical name, everywhere readable and nowhere writable.                 *)
(***************************************************************************)
EXTENDS Naturals, Sequences

Attribute(type, set, readable) ==
    [type |-> type, set |-> set, readable |-> readable]

RO(t) == Attribute(t, "denied", TRUE)       \* set_attribute: AccessDenied
RW(t) == Attribute(t, "typed", TRUE)        \* stored if std::get_if finds a t; ok anyway
Any(t) == Attribute(t, "any", TRUE)         \* a DlmsValue, at first a t: stored as it is
Strict(t) == Attribute(t, "strict", TRUE)   \* stored if it is a t, else AccessDenied
Dropped(t) == Attribute(t, "dropped", TRUE) \* acknowledged and forgotten
Time == Attribute("octets", "time", TRUE)   \* 12 bytes through CosemDateTime, or nothing
Partners == Attribute("structure", "partners", TRUE) \* two numbers, each if it is a u16
Hidden == Attribute("none", "denied", FALSE) \* in get_attributes, yet ObjectUndefined
Absent == Attribute("none", "denied", FALSE) \* in neither

Class(name, id, attributes) == [name |-> name, id |-> id, attributes |-> attributes]

-----------------------------------------------------------------------------
Data == Class("Data", 1, <<Any("none")>>)
Register == Class("Register", 3, <<Any("none"), RW("i8"), RW("u8")>>)
ExtendedRegister ==
    Class("ExtendedRegister", 4, <<Any("none"), RO("i8"), RO("u8"), RO("u32")>>)
DemandRegister ==
    Class("DemandRegister", 5,
          <<Any("none"), RO("u32"), RO("i8"), RO("u8"), RW("u32")>>)
ProfileGeneric ==
    Class("ProfileGeneric", 7,
          <<RO("array"), Hidden, RW("u32"), Absent, Absent, RO("u32"), RW("u32")>>)
Clock == Class("Clock", 8, <<Time, RW("i16"), RO("u8")>>)
MaximumDemand ==
    Class("MaximumDemand", 9, <<RW("u64"), Time, RW("u16"), RO("u8")>>)
SpecialDaysTable == Class("SpecialDaysTable", 11, <<Dropped("array")>>)
AssociationLN ==
    Class("AssociationLN", 15,
          <<RO("array"), Partners, RW("octets"), RW("octets"), RW("octets"),
            RW("octets"), RW("bool"), RW("octets")>>)
ImageTransfer ==
    Class("ImageTransfer", 18, <<RW("octets"), RW("u32"), RO("u8"), RO("array")>>)
AutoConnect ==
    Class("AutoConnect", 18, <<RW("u8"), RW("u16"), RW("u16"), RW("u8")>>)
LpSetup == Class("LPSetup", 19, <<RW("u32"), Hidden, Hidden>>)
ActivityCalendar ==
    Class("ActivityCalendar", 20,
          <<RW("string"), RO("array"), RO("array"), RO("array"), RW("string"),
            RO("array"), RO("array"), RO("array"), RW("octets")>>)
RegisterMonitor ==
    Class("RegisterMonitor", 21,
          <<Strict("array"), RO("structure"), RO("none"), RW("octets"), RW("u8"),
            RW("u16")>>)
Rs485Setup == Class("RS485Setup", 23, <<RW("u32"), Hidden>>)
TariffPlan == Class("TariffPlan", 26, <<>>)
TariffTable == Class("TariffTable", 26, <<RW("octets")>>)
ClockControl ==
    Class("ClockControl", 28, <<RW("u8"), RW("u8"), RO("u8"), RO("u8")>>)
Limiter ==
    Class("Limiter", 30,
          <<RO("structure"), Any("i32"), Any("i32"), Any("i32"), RW("u16"),
            RW("u16"), RO("array"), RO("array"), RW("bool"), RO("array")>>)
PushSetup ==
    Class("PushSetup", 40,
          <<RO("array"), RW("u16"), RW("octets"), Hidden, RW("u16"), RW("u8"),
            RW("u16")>>)
Ups == Class("Ups", 40, <<RW("u8"), RW("u8"), RO("u16"), RO("u8")>>)
NbiotSetup == Class("NBIoTSetup", 41, <<RW("string"), Hidden, Hidden>>)
Ipv4Setup ==
    Class("Ipv4Setup", 42,
          <<RW("octets"), RW("octets"), RW("octets"), RW("octets"), RW("octets"),
            RW("bool")>>)
WisunSetup == Class("WisunSetup", 44, <<RW("octets"), RW("u8"), RW("u16"), RW("u8")>>)
GprsModemSetup ==
    Class("GprsModemSetup", 45,
          <<RW("string"), RW("string"), RW("octets"), RO("array")>>)
MacAddressSetup == Class("MacAddressSetup", 45, <<RW("octets")>>)
InfraredSetup ==
    Class("InfraredSetup", 46, <<RW("u32"), RW("u8"), RW("u8"), RW("u8"), RW("u8")>>)
MbusMaster == Class("MbusMaster", 51, <<RW("u32"), RW("u8"), RW("u16")>>)
MbusClient ==
    Class("MbusClient", 57,
          <<RO("octets"), RW("u16"), RO("u16"), RO("u16"), RO("array")>>)
SerialPort ==
    Class("SerialPort", 60,
          <<RW("u32"), RW("u8"), RW("u8"), RW("u8"), RW("u8"), RW("u16"), RW("u16")>>)
DirectDisconnect == Class("DirectDisconnect", 63, <<RW("u8"), RW("u8"), RO("u8")>>)
SecuritySetup ==
    Class("SecuritySetup", 64,
          <<RW("u8"), RW("u8"), Absent, Hidden, Hidden, Absent, RW("octets")>>)
SensorManager == Class("SensorManager", 67, <<RO("array")>>)
DisconnectControl == Class("DisconnectControl", 70, <<Strict("u8"), RO("u8")>>)
NtpSetup ==
    Class("NtpSetup", 100,
          <<RW("octets"), RW("u16"), RW("u8"), RW("u32"), RW("i32"), RW("u32")>>)
SmtpSetup ==
    Class("SmtpSetup", 102,
          <<RW("octets"), RW("u16"), RW("octets"), RW("octets"), RW("octets"),
            RW("bool"), RW("bool")>>)
LorawanSetup == Class("LoRaWANSetup", 128, <<RW("string"), Hidden, Hidden>>)
Route == Class("Route", 219, <<RW("octets"), RW("octets"), RW("u8"), RW("u8")>>)

AllClasses ==
    {Data, Register, ExtendedRegister, DemandRegister, ProfileGeneric, Clock,
     MaximumDemand, SpecialDaysTable, AssociationLN, ImageTransfer, AutoConnect,
     LpSetup, ActivityCalendar, RegisterMonitor, Rs485Setup, TariffPlan,
     TariffTable, ClockControl, Limiter, PushSetup, Ups, NbiotSetup, Ipv4Setup,
     WisunSetup, GprsModemSetup, MacAddressSetup, InfraredSetup, MbusMaster,
     MbusClient, SerialPort, DirectDisconnect, SecuritySetup, SensorManager,
     DisconnectControl, NtpSetup, SmtpSetup, LorawanSetup, Route}
=============================================================================
