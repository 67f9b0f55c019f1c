----------------------------- MODULE MCWritePPM -----------------------------
(***************************************************************************)
(* Small instance of WritePPM: every class of swapchain formats, and the   *)
(* colour spaces that keep the format, convert it or cannot be blitted to. *)
(***************************************************************************)
EXTENDS WritePPM

Format(channels, class, kind, order) ==
  [channels |-> channels, class |-> class, kind |-> kind, order |-> order]

MCFormats ==
  { Format(4, "32", "UNORM", "RGBA"),    \* R8G8B8A8_UNORM
    Format(4, "32", "SRGB", "other"),    \* B8G8R8A8_SRGB
    Format(3, "24", "UNORM", "other"),   \* B8G8R8_UNORM
    Format(4, "64", "other", "RGBA"),    \* R16G16B16A16_SFLOAT
    Format(3, "32", "other", "other"),   \* B10G11R11_UFLOAT
    Format(2, "16", "UNORM", "other") }  \* R8G8_UNORM

MCColorSpaces == {"UNDEFINED", "SRGB", "UINT"}

=============================================================================
