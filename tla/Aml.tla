--------------------------------- MODULE Aml ---------------------------------
(***************************************************************************)
(* The ACPI table of a battery, as write_battery_aml (write_file.c) writes *)
(* it: terms one after the other, and around some of them packages, whose  *)
(* length is put in front of the contents when they are complete.  The     *)
(* length counts itself, and takes more bytes the larger it is.            *)
(*                                                                         *)
(* What a byte says is left out; it is known by the step that wrote it.    *)
(***************************************************************************)
EXTENDS Integers, Sequences, FiniteSets, SequencesExt

CONSTANTS
  Percents,   \* nk.ini->cur->battery_percent
  max         \* MAX_AML_SZ - sizeof ( ACPI_HEADER )

VARIABLES
  script,     \* what is written: bytes, starts of packages and their ends
  step,       \* how much of it has been
  buffer,     \* the bytes written: pos is its length
  starts      \* package_start_pos of the packages that are open, outermost first

vars == <<script, step, buffer, starts>>
---------------------------------------------------------------------------
(* The table.                                                              *)

Put(n) == <<[do |-> "put", n |-> n]>>
Mark == <<[do |-> "start", n |-> 0]>>
Finalize == <<[do |-> "end", n |-> 0]>>

aml_int(value) == Put(CASE value <= 1 -> 1 [] value \in 2 .. 255 -> 2 [] OTHER -> 3)
aml_string(length) == Put(1) \o Put(length + 1)
aml_name_decl == Put(1) \o Put(4)
Return(term) == Put(1) \o term

Scope(terms) == Put(1) \o Mark \o Put(4) \o terms \o Finalize
Device(terms) == Put(1) \o Put(1) \o Mark \o Put(4) \o terms \o Finalize
Method(terms) == Put(1) \o Mark \o Put(4) \o Put(1) \o terms \o Finalize
Package(terms) == Put(1) \o Mark \o Put(1) \o terms \o Finalize

Ints(values) == FlattenSeq([k \in DOMAIN values |-> aml_int(values[k])])
Strings(lengths) == FlattenSeq([k \in DOMAIN lengths |-> aml_string(lengths[k])])

Battery(percent, power) ==
  Device(aml_name_decl \o aml_string(7) \o aml_name_decl \o aml_int(0)
         \o Method(Return(aml_int(31)))
         \o Method(Return(Package(Ints(<<0, 50000, 50000, 1, 10000, 2500, 1000, 1, 1>>)
                                  \o Strings(<<5, 9, 6, 4>>))))
         \o Method(Return(Package(Ints(<<IF power THEN 2 ELSE 1, 16,
                                         (percent * 50000) \div 100, 10000>>)))))

Adapter ==
  Device(aml_name_decl \o aml_string(8) \o aml_name_decl \o aml_int(0)
         \o Method(Return(aml_int(15))) \o Method(Return(aml_int(1))))

write_battery_aml(percent, power) ==
  Scope(Battery(percent, power) \o (IF power THEN Adapter ELSE <<>>))
---------------------------------------------------------------------------
\* There is a fourth form, beyond any table of this size.
aml_encode_pkg_length(length) ==
  CASE length < 64      -> <<length>>
    [] length \in 64 .. 4095 -> <<(length % 16) + 64, (length \div 16) % 256>>
    [] OTHER            -> <<(length % 16) + 128, (length \div 16) % 256, (length \div 4096) % 256>>

\* The byte j written by a step; it is no length.
Byte(k, j) == 256 + 16 * k + j

Bytes(k) == [j \in 1 .. script[k].n |-> Byte(k, j)]

aml_write_data ==
  /\ script[step].do = "put"
  /\ buffer' = IF Len(buffer) + script[step].n > max THEN buffer ELSE buffer \o Bytes(step)
  /\ UNCHANGED starts

aml_start ==
  /\ script[step].do = "start"
  /\ starts' = Append(starts, Len(buffer))
  /\ UNCHANGED buffer

\* Room is made for the length as the contents alone take it; then the length
\* with itself is written there.
Inserted(at, length) ==
  LET final == aml_encode_pkg_length(length)
      moved == SubSeq(buffer, 1, at) \o aml_encode_pkg_length(Len(buffer) - at)
               \o SubSeq(buffer, at + 1, Len(buffer))
  IN  [p \in DOMAIN moved |-> IF p \in at + 1 .. at + Len(final) THEN final[p - at] ELSE moved[p]]

\* The length of the contents alone.
NotItself ==
  /\ script[step].do = "end"
  /\ buffer' = Inserted(Last(starts), Len(buffer) - Last(starts))
  /\ starts' = Front(starts)

aml_finalize_package ==
  /\ script[step].do = "end"
  /\ LET content_len == Len(buffer) - Last(starts)
         pkg_len_size == Len(aml_encode_pkg_length(content_len))
     IN  buffer' = IF Len(buffer) + pkg_len_size > max THEN buffer
                   ELSE Inserted(Last(starts), content_len + pkg_len_size)
  /\ starts' = Front(starts)

Init ==
  /\ script \in {write_battery_aml(percent, power) : percent \in Percents, power \in BOOLEAN}
  /\ step = 1 /\ buffer = <<>> /\ starts = <<>>

Next ==
  /\ step <= Len(script)
  /\ aml_write_data \/ aml_start \/ aml_finalize_package
  /\ step' = step + 1
  /\ UNCHANGED script

Spec == Init /\ [][Next]_vars
---------------------------------------------------------------------------
(* The table as a reader of AML finds it.                                  *)

LengthSize(p) == (buffer[p] \div 64) + 1

PkgLength(p) ==
  CASE LengthSize(p) = 1 -> buffer[p]
    [] LengthSize(p) = 2 -> (buffer[p] % 16) + 16 * buffer[p + 1]
    [] OTHER -> (buffer[p] % 16) + 16 * buffer[p + 1] + 4096 * buffer[p + 2]

\* Where what a step has written begins, if the table is read from the start.
Place[k \in 1 .. Len(script) + 1] ==
  IF k = 1 THEN 1
  ELSE LET p == Place[k - 1]
           last == script[k - 1]
       IN  p + (CASE last.do = "put" -> last.n
                  [] last.do = "start" -> LengthSize(p)
                  [] OTHER -> 0)

Depth(k) == Cardinality({j \in 1 .. k : script[j].do = "start"})
            - Cardinality({j \in 1 .. k : script[j].do = "end"})

\* The end of a package that begins with a step.
EndOf(k) == CHOOSE e \in k + 1 .. Len(script) :
              /\ script[e].do = "end" /\ Depth(e) = Depth(k) - 1
              /\ \A j \in k .. e - 1 : Depth(j) >= Depth(k)

(* A reader of the table finds every byte where it is due, and every       *)
(* package ends, by its length, where its contents do, for each level of   *)
(* the battery and with and without power: the length that counts itself   *)
(* fits into the room made for it (write_file.c:233-267).                  *)
AmlReadable ==
  step > Len(script) =>
    /\ Place[Len(script) + 1] = Len(buffer) + 1
    /\ \A k \in 1 .. Len(script) :
         /\ script[k].do = "put" => SubSeq(buffer, Place[k], Place[k] + script[k].n - 1) = Bytes(k)
         /\ script[k].do = "start" => Place[k] + PkgLength(Place[k]) = Place[EndOf(k)]
=============================================================================
