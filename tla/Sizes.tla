------------------------------- MODULE Sizes -------------------------------
(***************************************************************************)
(* The size of the launcher's window (and of its font, which is treated    *)
(* alike) in zemu.ini and on monitors of different resolutions: load_ini   *)
(* and save_ini (ini.c), nkctx_set_dpi_scaling (nkstyle.c), WM_SIZE and    *)
(* WM_DPICHANGED (nkctx.c).  (int) drops what is behind the point; the     *)
(* factor is a fraction, and how a double rounds it is left out.           *)
(***************************************************************************)
EXTENDS Integers

CONSTANTS
  Dpis,      \* the resolutions of the monitors
  Widths,    \* those the user may give the window
  MaxWidth   \* bound: of the window

USER_DEFAULT_SCREEN_DPI == 96

SizesAssumption ==
  /\ Dpis \subseteq Nat /\ \A dpi \in Dpis : dpi >= USER_DEFAULT_SCREEN_DPI
  /\ Widths \subseteq Nat

VARIABLES
  ini,          \* the width in zemu.ini
  nkwidth,      \* nk.width
  dpi_factor,   \* <<numerator, denominator>>
  m_dpi,        \* what the window is scaled for
  dpi_scaling,  \* is the box checked
  loaded,       \* the width that was loaded
  touched       \* has the width been changed, or the monitor, since

sizesVars == <<ini, nkwidth, dpi_factor, m_dpi, dpi_scaling, loaded, touched>>

Scaled(n, factor) == (n * factor[1]) \div factor[2]
Unscaled(n, factor) == (n * factor[2]) \div factor[1]

nkctx_set_dpi_scaling(width, from, dpi) ==
  IF dpi_scaling
  THEN /\ dpi_factor' = <<dpi, from>>
       /\ m_dpi' = dpi
       /\ nkwidth' = Scaled(width, <<dpi, from>>)
  ELSE /\ nkwidth' = width
       /\ dpi_factor' = <<1, 1>>
       /\ m_dpi' = from

\* load_ini and nkctx_init, on some monitor.
Launch ==
  /\ \E dpi \in Dpis : nkctx_set_dpi_scaling(ini, USER_DEFAULT_SCREEN_DPI, dpi)
  /\ loaded' = ini
  /\ touched' = FALSE
  /\ UNCHANGED <<ini, dpi_scaling>>

\* WM_DPICHANGED.
Move(dpi) ==
  /\ dpi # m_dpi
  /\ Scaled(nkwidth, <<dpi, m_dpi>>) <= MaxWidth
  /\ IF dpi_scaling THEN nkctx_set_dpi_scaling(nkwidth, m_dpi, dpi)
     ELSE UNCHANGED <<nkwidth, dpi_factor, m_dpi>>
  /\ touched' = TRUE
  /\ UNCHANGED <<ini, dpi_scaling, loaded>>

\* WM_SIZE.
Resize(width) ==
  /\ nkwidth' = width
  /\ touched' = TRUE
  /\ UNCHANGED <<ini, dpi_factor, m_dpi, dpi_scaling, loaded>>

\* save_ini, by a factor or without.
SavePixels ==
  /\ ini' = nkwidth
  /\ UNCHANGED <<nkwidth, dpi_factor, m_dpi, dpi_scaling, loaded, touched>>

Save ==
  /\ Unscaled(nkwidth, dpi_factor) <= MaxWidth
  /\ ini' = Unscaled(nkwidth, dpi_factor)
  /\ UNCHANGED <<nkwidth, dpi_factor, m_dpi, dpi_scaling, loaded, touched>>

SizesInit ==
  /\ ini \in Widths
  /\ dpi_scaling \in BOOLEAN
  /\ nkwidth = ini /\ dpi_factor = <<1, 1>> /\ m_dpi = USER_DEFAULT_SCREEN_DPI
  /\ loaded = ini /\ touched = FALSE

SizesNext == \/ Launch
             \/ \E dpi \in Dpis : Move(dpi)
             \/ \E width \in Widths : Resize(width)
             \/ Save

SizesSpec == SizesInit /\ [][SizesNext]_sizesVars
---------------------------------------------------------------------------
(* Saving without having changed the size of the window, or its monitor,   *)
(* loses one pixel at most: the factor saved with is the one loaded with   *)
(* (ini.c:144-154, nkstyle.c:15-26).  It is lost anew each time, and after *)
(* a move the factor is only that of the last move.                        *)
SizesKept == ~touched => ini \in {loaded - 1, loaded}
=============================================================================
