----------------------------- MODULE Periphery -----------------------------
(***************************************************************************)
(* The parts around the payment path, side by side: the stream meter, the  *)
(* settings and their page, the event feed and its panel, the wallet page, *)
(* the page of the demo, the pages where people sign in and handle keys,   *)
(* the reports on paid calls, the scripts that deploy, rent and fund, the  *)
(* buyer's agent and runner, and the app and the middleware of a seller    *)
(* without the tollbooth.  They share no state, so a behaviour moves one   *)
(* of them: the lane it is in.  States of different lanes add up instead   *)
(* of multiplying.                                                         *)
(***************************************************************************)
EXTENDS StreamMeter, SettingsEditor, LiveFeed, VaultPage, DemoPage, KeyDesk, Reports,
        Deployer, Errands, BuyerRun, SellerKit

VARIABLE
  lane        \* the part that moves

pages == <<settingsVars, feedVars, vaultPageVars, demoPageVars, keyDeskVars, reportVars>>
scripts == <<deployerVars, errandsVars>>
kits == <<buyerRunVars, kitVars>>
vars == <<lane, streamVars, pages, scripts, kits>>

Lanes ==
  {"stream", "settings", "feed", "vault page", "demo page", "key desk", "reports", "deploying",
   "renting", "funding", "agent", "runner", "shop", "scaffold"}

TypeOK ==
  /\ lane \in Lanes
  /\ StreamTypeOK /\ SettingsTypeOK /\ FeedTypeOK /\ VaultPageTypeOK /\ DemoPageTypeOK
  /\ KeyDeskTypeOK /\ ReportsTypeOK /\ DeployerTypeOK /\ ErrandsTypeOK /\ BuyerRunTypeOK /\ KitTypeOK

Init ==
  /\ lane \in Lanes
  /\ StreamInit /\ SettingsInit /\ FeedInit /\ VaultPageInit /\ DemoPageInit
  /\ KeyDeskInit /\ ReportsInit /\ DeployerInit /\ ErrandsInit /\ BuyerRunInit /\ KitInit
  \* where another lane moves, one initial state of these stands for all
  /\ lane # "deploying" => file = NoFile
  /\ lane # "renting" => known
  /\ lane # "key desk" => browser = [t \in Tabs |-> t]
  /\ lane # "shop" => shop = "template"

StreamLane ==
  /\ lane = "stream" /\ StreamNext
  /\ UNCHANGED <<lane, pages, scripts, kits>>

SettingsLane ==
  /\ lane = "settings" /\ SettingsNext
  /\ UNCHANGED <<lane, streamVars, feedVars, vaultPageVars, demoPageVars, keyDeskVars, reportVars,
                 scripts, kits>>

FeedLane ==
  /\ lane = "feed" /\ FeedNext
  /\ UNCHANGED <<lane, streamVars, settingsVars, vaultPageVars, demoPageVars, keyDeskVars, reportVars,
                 scripts, kits>>

VaultPageLane ==
  /\ lane = "vault page" /\ VaultPageNext
  /\ UNCHANGED <<lane, streamVars, settingsVars, feedVars, demoPageVars, keyDeskVars, reportVars,
                 scripts, kits>>

DemoPageLane ==
  /\ lane = "demo page" /\ DemoPageNext
  /\ UNCHANGED <<lane, streamVars, settingsVars, feedVars, vaultPageVars, keyDeskVars, reportVars,
                 scripts, kits>>

KeyDeskLane ==
  /\ lane = "key desk" /\ KeyDeskNext
  /\ UNCHANGED <<lane, streamVars, settingsVars, feedVars, vaultPageVars, demoPageVars, reportVars,
                 scripts, kits>>

ReportsLane ==
  /\ lane = "reports" /\ ReportsNext
  /\ UNCHANGED <<lane, streamVars, settingsVars, feedVars, vaultPageVars, demoPageVars, keyDeskVars,
                 scripts, kits>>

DeployLane ==
  /\ lane = "deploying" /\ DeployerNext
  /\ UNCHANGED <<lane, streamVars, pages, errandsVars, kits>>

ErrandsLane ==
  /\ \/ lane = "renting" /\ RentingNext
     \/ lane = "funding" /\ FundingNext
  /\ UNCHANGED <<lane, streamVars, pages, deployerVars, kits>>

BuyerLane ==
  /\ \/ lane = "agent" /\ AgentNext
     \/ lane = "runner" /\ RunnerNext
  /\ UNCHANGED <<lane, streamVars, pages, scripts, kitVars>>

KitLane ==
  /\ \/ lane = "shop" /\ ShopNext /\ UNCHANGED scaffoldVars
     \/ lane = "scaffold" /\ ScaffoldNext /\ UNCHANGED shopVars
  /\ UNCHANGED <<lane, streamVars, pages, scripts, buyerRunVars>>

Next ==
  \/ StreamLane \/ SettingsLane \/ FeedLane \/ VaultPageLane \/ DemoPageLane
  \/ KeyDeskLane \/ ReportsLane \/ DeployLane \/ ErrandsLane \/ BuyerLane \/ KitLane

\* The fair actions of the stream and the feed are disabled where the other lanes
\* leave them.
Spec == Init /\ [][Next]_vars /\ StreamFairness /\ FeedFairness
=============================================================================
