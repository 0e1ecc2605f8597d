---------------------------- MODULE MCAuxCapture ----------------------------
(* The default configuration, nothing, each group of flags alone, mixtures and   *)
(* everything; traces long enough for two draws with a dump between them; one   *)
(* texture stage of up to two layers and one capture that is given up.  For the *)
(* draw indices, a debugger that asks for textures only.                        *)
EXTENDS AuxCapture

MCConfigs == { {"color", "texture"}, {}, {"texture"}, {"rdi"}, {"pfb"},
               {"depth", "rdi"}, {"pgraph", "texture"}, Captures }

MCTexturesOnly == { {"texture"} }
=============================================================================
