------------------------------- MODULE Transfer -------------------------------
(***************************************************************************)
(* What lies between the builders and the validators, package by package:  *)
(* how sender_send_command cuts a command, what a receiver makes of it and *)
(* where receiver_get_package stops.  Link and Tester show clock by clock  *)
(* that the packages of a command come back as Heard says.                 *)
(***************************************************************************)
EXTENDS Commands, Sequences

data_package_size == 26

package(data, mask) == [data |-> data, mask |-> mask]
eop == package({}, 0)

\* The packages of n bits, the last one partly used, and the void package that ends them.
Cut(bits, n) ==
  LET count == n \div data_package_size + 1
  IN Append([p \in 1 .. count |->
               package(ExtractField(Low(bits, n), data_package_size, (p - 1) * data_package_size),
                       IF p = count THEN n % data_package_size ELSE data_package_size)],
            eop)

\* The receiver may take the end of a last symbol that ends high for a 1.
Heard(cmd) ==
  {Cut(cmd.result_data, cmd.size), Cut(Low(cmd.result_data, cmd.size) \cup {cmd.size}, cmd.size + 1)}

\* A package of zeros that is not the last one.
HasZeroPackage(packages) == \E p \in 1 .. Len(packages) - 1 : packages[p].data = {}
=============================================================================
