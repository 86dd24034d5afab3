------------------------------- MODULE Parts --------------------------------
(***************************************************************************)
(* Parts of the system that share no state, side by side: a behaviour is a *)
(* behaviour of one of them, the others stay as they begin.                *)
(***************************************************************************)
EXTENDS AdminConsole, Catalog, Tickets, Mail, SubTokens, Desktop, Extension, KeyCache, Billing

VARIABLE part \* the one that moves

Parts == {"console", "catalog", "tickets", "mail", "tokens", "desktop", "extension", "keys",
          "billing"}

PartsInit ==
  /\ part \in Parts
  /\ Init /\ CatalogInit /\ TicketsInit /\ MailInit /\ TokensInit /\ DesktopInit
  /\ ExtensionInit /\ KeysInit /\ BillingInit

ConsoleMoves ==
  /\ part = "console" /\ Next
  /\ UNCHANGED <<catalogVars, ticketVars, mailVars, tokenVars, desktopVars, extensionVars,
                 keyVars, billingVars>>
CatalogMoves ==
  /\ part = "catalog" /\ CatalogNext
  /\ UNCHANGED <<vars, ticketVars, mailVars, tokenVars, desktopVars, extensionVars,
                 keyVars, billingVars>>
TicketsMove ==
  /\ part = "tickets" /\ TicketsNext
  /\ UNCHANGED <<vars, catalogVars, mailVars, tokenVars, desktopVars, extensionVars,
                 keyVars, billingVars>>
MailMoves ==
  /\ part = "mail" /\ MailNext
  /\ UNCHANGED <<vars, catalogVars, ticketVars, tokenVars, desktopVars, extensionVars,
                 keyVars, billingVars>>
TokensMove ==
  /\ part = "tokens" /\ TokensNext
  /\ UNCHANGED <<vars, catalogVars, ticketVars, mailVars, desktopVars, extensionVars,
                 keyVars, billingVars>>
DesktopMoves ==
  /\ part = "desktop" /\ DesktopNext
  /\ UNCHANGED <<vars, catalogVars, ticketVars, mailVars, tokenVars, extensionVars,
                 keyVars, billingVars>>
ExtensionMoves ==
  /\ part = "extension" /\ ExtensionNext
  /\ UNCHANGED <<vars, catalogVars, ticketVars, mailVars, tokenVars, desktopVars, keyVars,
                 billingVars>>
KeysMove ==
  /\ part = "keys" /\ KeysNext
  /\ UNCHANGED <<vars, catalogVars, ticketVars, mailVars, tokenVars, desktopVars,
                 extensionVars, billingVars>>
BillingMoves ==
  /\ part = "billing" /\ BillingNext
  /\ UNCHANGED <<vars, catalogVars, ticketVars, mailVars, tokenVars, desktopVars,
                 extensionVars, keyVars>>

PartsNext ==
  /\ \/ ConsoleMoves \/ CatalogMoves \/ TicketsMove
     \/ MailMoves \/ TokensMove \/ DesktopMoves \/ ExtensionMoves \/ KeysMove \/ BillingMoves
  /\ UNCHANGED part

partsVars ==
  <<part, vars, catalogVars, ticketVars, mailVars, tokenVars, desktopVars, extensionVars,
    keyVars, billingVars>>

PartsSpec == PartsInit /\ [][PartsNext]_partsVars

\* Every variable of the part that moves has its type; so have the others,
\* which stay as they begin.
PartsTypeOK ==
  /\ part \in Parts
  /\ part = "console" => TypeOK
  /\ part = "catalog" => CatalogTypeOK
  /\ part = "tickets" => TicketsTypeOK
  /\ part = "mail" => MailTypeOK
  /\ part = "tokens" => TokensTypeOK
  /\ part = "desktop" => DesktopTypeOK
  /\ part = "extension" => ExtensionTypeOK
  /\ part = "keys" => KeysTypeOK
  /\ part = "billing" => BillingTypeOK
=============================================================================
